# treehollow-backend in TLA+

This directory holds a formal model of the treehollow v3 backend (`src/`): TLA+
modules for the parts of it that have state and concurrency, TLC
configurations that model-check them on small instances, and proofs, checked by
TLAPS, that the safety properties of all modules hold for every value of the constants.

    tlc -workers 2 -config MCPushHub_devices.cfg MCPushHub     # one run
    tlapm PushProofs.tla                                       # the proofs of one module

`PROJECT.json` lists the runs, which properties each checks, for every
definition the source lines it models, the hazards of the code and the findings.

## 1. Inventory of the system

Three services share a MySQL database and a Redis: the *services API* (posts,
comments, reports, administrators' commands), the *security API* (registration,
login, devices) and the *push API* (WebSocket connections of Android devices,
Apple pushes). Every HTTP request is a goroutine of its own and any number of
them run at a time, in all three processes. State lives in

| where | what | who writes it |
|---|---|---|
| MySQL | users, emails, verification codes, devices, posts, comments, attentions, votes, reports, bans, system messages, push messages and settings | all three services |
| Redis | comment lists (5 h), users by token (1 min), the limiters' counters | the services and the security API |
| memory of the push API | `API.clients`, the connection of each token, and per connection a channel of capacity 1 and a `once` | its goroutines |
| memory of the services API | hot posts, `shutdownCountDown`, the unbuffered `TgMessageChannel` | its goroutines |

**Components, operations and interactions.**

* *WebSocket hub* (`pkg/push/stream.go`, `client.go`, `once.go`). State:
  `clients`, an RWMutex, and per client the channel, the `once` and the
  connection. Operations: `Handle`/`register`, `remove`, `Notify`, `NotifyClose`,
  the reading and the writing goroutine. Correct when a channel is closed once,
  `Notify` never waits for ever, no dead client stays, no live one is thrown out.
* *Push messages* (`sendComment`'s list, `base/send_push.go`, `push/route.go`,
  `push/notification.go`). `sendComment` computes who is told of a comment and
  starts a goroutine that calls the push API's internal listener; a deletion
  starts one that recalls the messages. Correct when exactly the audience is
  told, of the right message, and a recall is the last word.
* *Write handlers* (`sendPost`, `sendComment`, `handleReport`). Each may start an
  upload goroutine and wait up to 15 s for it, holds the row lock of the post in
  its transaction, and tells the Telegram goroutine of reports and risky texts.
  Superusers may end the process under them. Correct when each of these comes to its
  end, and the process ends only when it was asked to often enough.
* *Reports and moderation* (`handleReport`, `base/permissions.go`, `sql.go`,
  `hooks.go`). Users report and fold, deleters delete, administrators restore;
  deletions ban authors. Correct when the log of reports explains the deletions, the
  bans, the tags and the counters, and limits hold. (A post's own author sets its tag
  too, by a hashtag in a comment.)
* *Discussion* (`sendComment`, `editAttention`, `sendVote`,
  `GenCommenterName`, hooks). Correct when a name stands for one user within a
  post, and like, reply and vote counters count their rows.
* *Comment cache* (`base/cache.go`): read through, filled by readers, deleted by
  writers inside their transaction. Correct when staleness is bounded.
* *Details* (`detailPost`, `routeApiGET.go`): a client names the `updated_at` it knows and
  is told "not modified" or given row and comments, which come through the cache. Correct
  when no change goes unnoticed that the cache did not hide.
* *Sessions* (`login.go`, `devices.go`, `auth.go`, the token cache). Correct when
  the devices are bounded and a revoked token stops to work in time.
* *Registration* (`createAccount.go`, `deleteAccount.go`): creates accounts, changes
  passwords and unregisters, and divides each password among the key keepers. The users of
  the v2 site were copied by a migration (`cmd/treehollow-migrate-v2-to-v3`). Correct
  when emails and users agree, an address has one account, and the key keepers can
  decrypt the e-mail of every user.
* *Verification codes* (`checkEmail.go` and the readers of the code). Correct when
  only a code that was mailed is accepted, and a lock-out ends.
* *Read-only and pure parts*: lists, search, hot posts, administrators' texts,
  limiters, AES, names, images, geo data, mail transport, object store, logging,
  start-up, command line programs. See section 8.

**Hard behaviours.** Connections that replace each other while they close; sends
that block under a read lock; transactions that lock one row and read others;
side effects (Redis, push calls, goroutines) inside a transaction, before its
commit; errors that commit what was written so far; caches filled with what was
read before an invalidation; a goroutine's context cancelled too early; calls
between services that are made once; statements that belong together but are in
no transaction. `PROJECT.json` has the whole list under "hazards", each at its
line, with the properties that would catch it or the reason why none does.

## 2. Modules

| module | instance | what it models |
|---|---|---|
| `PushHub` | `MCPushHub` | the hub, one step per lock operation, channel operation and close |
| `PushMessages` | `MCPushMessages` | from a comment to the devices, and back by a recall; the settings |
| `RequestHandlers` | `MCRequestHandlers` | what the write handlers wait for |
| `Services` | `MCServices` | `RequestHandlers` in a process that superusers shut down |
| `Moderation` | `MCModeration` | `handleReport` |
| `CommenterNames` | (through `Discussion`) | the name of the n-th commenter |
| `Discussion` | `MCDiscussion` | comments, names, attentions and votes of one post |
| `StaleReads` | | what a cache may answer (abstract) |
| `CommentCache` | (through `Details`) | the comment cache, which implements `StaleReads` |
| `Details` | `MCDetails` | `detailPost` and its client over `CommentCache` |
| `Sessions` | `MCSessions` | devices and the token cache of one account |
| `Registration` | `MCRegistration` | the tables `users`, `emails` and `decryption_key_shares` |
| `VerificationCodes` | `MCVerificationCodes` | the code of one address |

The theorems about a module are in the module of its name with `Proofs` after it:
`PushProofs` (about `PushHub` and `PushMessages`), `ServicesProofs` (about
`RequestHandlers` too), `ModerationProofs`,
`DiscussionProofs` (about `CommenterNames` too), `DetailsProofs` (about `CommentCache` and its
refinement of `StaleReads` too), `SessionsProofs`, `RegistrationProofs`,
`VerificationCodesProofs`.

`Services` extends `RequestHandlers`, `Details` extends `CommentCache`, and
`Discussion` extends `CommenterNames`: their runs check the composition, under the
properties of both.

Conventions. A transaction that locks a row takes it in an action of its own,
reads under the lock in the same action, and shows all its writes in one commit
action; reads that no lock covers are actions of their own. Definitions marked
*Mutant:* are plausible slips of the action after them and are used by no
specification; they show that the properties can fail. The last section of a
module holds what a comment, a constant or an answer of the program says and the code
does not do (section 4).

### How state and actions correspond to the code

**PushHub.** `clients` is `API.clients`; `writer`/`readers` are the goroutines
inside the RWMutex (a writer that waits keeps new readers out, as Go's does);
`done`, `buf`, `closes` and `link` are a client's `once`, channel (messages and
number of `close` calls) and connection. `pc` gives each connection three
threads: `Handle` and the reading and the writing goroutine. `NotifyClose` is
`NotifyCloseOnce` (take the `once` or end), `NotifyCloseBoth` (close connection
and channel) and `Remove` (take the lock, delete the entry, close the client that
is found there). A `Notify` is one step when the token is absent; otherwise
`NotifyRLock` finds the client and `NotifySend` or `NotifyPanic` ends it. The
ticker and read errors are nondeterministic. A peer may be lost at any time.

**PushMessages.** `Lists` is the loop of `sendComment` as a recursive function, the list
after the answer and the first attentions, and `PushList` its end; `DoPush` is `PreProcessPushMessages`, applied to the
settings of the moment (`applied`), which `SetPush` may change before the messages
arrive. `send` and `recall` are the two calls to the push service, whose loops over the
devices run in any order beside each other. A call may be lost (`Lose`) or its service
stop after its database statement (`Abort`).

**RequestHandlers.** `pc` is where a handler waits; `upload`, `signal` and
`cancelled` are its upload goroutine, the channel and the context; `row` is the
row lock; `bot` the Telegram consumer. Time is a tick that only passes when
nobody can move; `WaitTicks` of them are the 15 s.

**Services.** `countDown` is `shutdownCountDown`. A command tests it (`Tell`,
`Exit`), and `shutdownCountDown -= 1` is a load and a store of which an update may be
lost. `Die` is `os.Exit`: handlers and goroutines are gone where they stood and the
database rolls back, so the row is unlocked. Nothing sets the countdown back: the
daily job is given to a `cron` that is never started (`route.go:28`).

**Moderation.** `deleted`, `tag`, `replyNum` and `reportNum` are the columns of posts
and comments, `reports` the log with its auto increment, `bans` the bans in force,
`used` the deletion limiter's counters, which start anywhere up to the limit. A request is `Arrive`,
`Lock` (or `Refuse`), for delete_ban `Peek` (or `PeekReached`), then one `Commit...` per
type: `CreateReport` inserts the row and runs its hook, `Delete`, `DeleteAndBan`,
`Unban` and `SetTag` are the functions of `sql.go`. A comment's transaction waits for its
post's row (`PostFree`) in the actions that write it. `Reason` is what a request may give
as its reason: a fold's is one of `Tags` (`reportable_tags`), an administrator's set_tag
takes any, the empty one (`NoTag`) included. `TagByHashtag` is the tag that sendComment sets
after its transaction. What a vote counts is what its
first plain read shows (`Snapshot`; InnoDB's consistent reads), and a post's sum takes in its
comments' reports (`Votes`; section 4). `Fails` says which uses of Redis may fail: a
request whose cache call fails commits half of its work, as the code does, and a
limiter that fails reads as unused. All reports weigh 10 of 100, so a score is a
number of reports. Roles that only differ in their limits are one role with
`BanLimit`. Items grow older, out of the windows in which authors and deleters
may delete them.

**Discussion, CommenterNames.** One post. `comments` with their names, `attention`
and `votes` rows, and the three columns that count them. A name is the places of
its words in the two lists, or a number after the extra prefix; `Words` is the lists'
length. A request locks the post, computes the name or reads `vote_data`, and
commits. Comments are deleted and restored, and the post hidden, by the reports of
`Moderation`, which are single steps here. As there, a deletion may find the comment
deleted already and lower `reply_num` again, if somebody sees deleted comments, and a
restoration whose cache call fails leaves it alone (`RestoreUncounted`); `drift`, a history
variable, counts both, up to `MaxDrift`.

**CommentCache.** The comments are a version, raised by commits. Writers open,
delete the entry (or fail to), then commit or roll back. Readers miss, fetch
and later store. `lag`, `answer`, `raced` and `tainted` are history variables,
which no guard reads: the ticks since a version was superseded, how outdated the last
answer was, whether a writer was between its `DelCommentCache` and its commit while a
reader had its list (or Redis failed to delete the entry), and whether such a reader
stored the entry. Ticks are counted up to one more than the promised bound.
`StaleReads` sees an answer as the ticks since what was answered was superseded, so
that an outdated list answered again and again, later each time, is not a stutter.

**Details.** `updatedAt` is the second of each version, `held` the `updated_at` of the
row `detailPost` has read, `client` what the client of the post shows. `ReadPost` comes
first, then `NotModified`, or an answer through the actions of `CommentCache`; a commit
falls in the second of the one before it or in a later one. `client.misled` is a
history component: its comments were answered from a tainted entry.

**Sessions.** `devices` is the table in the order of `created_at`. A login is
`GetUser`, `Count`, `Evict`, `Create`, each a statement of its own. An eviction may fail,
and the login goes on (`EvictFails`; `login.go:68`); an error of the others ends it (`GiveUp`).
`terminateDevice` is three, of which the last clears the cache entry of the device
that asks, not of the one that is terminated (`devices.go:92`); logout,
changePassword and deleteAccount are one step each, being one statement or one
transaction; `ChangePasswordOnly` is a changePassword that finds no key keepers
configured, answers with an error, and commits all the same, before it deletes the
devices (`createAccount.go:258`: the error has no Go error inside). A reader looks in the cache,
then in the database, then stores; its local variables are reset when it ends. `lag`,
`late`, `old` and `unevicted` are history variables: the ticks since a token stopped to be
good, the logins under way whose password was changed meanwhile, the devices they made, and
the evictions that failed since the account had no device. `unevicted` is read by the guard of
`EvictFails`, as its bound, and by nothing else.

**Registration.** The first users are those the migration leaves: `Migrated` has v2's id
(`OldId`, with gaps) and role (`OldSuper`), and no hook runs for them. `Check`/`Refuse` is the middleware's read of `emails`; then a
registration reads the old user (`FindOld`), opens its transaction with the
insert into `emails` (`InsertEmail`, `InsertDuplicate`), creates or updates the
user, and commits with the shares; a changePassword locks the user's row and commits a new
password with new shares, for every row with the old `email_encrypted`, deleted
ones included; an unregistration reads the user of its nonce, deletes by the nonce, deletes
the e-mail of its form and commits. Nonce and e-mail are not compared (`deleteAccount.go:46`,
88, 96), so `ReadUser` takes the user of any account. A registration of a v2 user gives his
row a new nonce, and then the deletion finds no row (`Renonced`). `stranded`, a history
variable, has the users whose e-mail was deleted without them. `email_encrypted` is a function of e-mail and password, as `AESEncrypt` uses
no salt, and so `SameKey` and `SharesOf` compare the two. `SaveKeyShares` may find no key
keepers configured, and then the transaction commits without shares (`lacking`, a
history variable). `lastId` is the auto increment, which no rollback restores.
`Asks` limits which addresses a request is about.

**VerificationCodes.** `row` is the one row of the address: the code, the age of
`updated_at` and the failed tries; `mailed` and `since` record what was mailed,
and when it was saved. `Ask`, `Mail`, `Save` are the three statements of
`checkEmail`; `AskUnread` is a request that cannot read the row, whose error is discarded, so
that it passes the limit (`checkEmail.go:99`); `TooMany`, `Wrong`, `CountFailure` and `Right` those of the
registration's test of the code.

## 3. Runs

Nine runs check what holds (distinct states as TLC counts them):

| run | properties | bounds | states | shows |
|---|---|---|---|---|
| `PushHub_devices` | TypeOK, ChannelClosedOnce, TargetStaysRegistered, RequestsEnd, GoroutinesEnd, DeadClientsLeave | 1 token, 2 connections, 2 requests | 90,616 | connections that replace each other, in all six threads; with one message in the channel the second request blocks under the lock |
| `Services_mixed` | ServiceTypeOK, ExitNeedsThree, NoFalseTimeout, RequestsEnd | a post, a comment, a report, 3 commands | 680,191 | uploads that end before, at and after the timeout; row lock and Telegram contended; the process ends under them |
| `Moderation_judges` | TypeOK, NoDuplicateReport, ReplyNumMatches, BansMatchLog, LimitBounded, LogExplainsState, TwoFoldsTag | post and comment, 5 users of four roles, 2 transactions, threshold 2, 3 reports, one tag, failing cache | 1,081,500 | votes, deletions, bans and restorations in any order; a tag that is taken away |
| `Discussion_post` | TypeOK, NamesIdentify, CountersMatch, VotesCounted | 3 users, of whom the author comments only, 2 transactions, 3 comments, lists of 1 word, 2 miscounts | 1,303,548 | first comments at the same time, deletions between; double votes, attention and comment together; repeated deletions |
| `Details_clients` | DetailTypeOK, StaleOnlyByRace, NotModifiedOnlyByRace, BoundedStaleness, EventuallyFresh | 3 kinds of writers, a client and a list, 2 commits, failing Redis | 933,420 | the refinement of `StaleReads`, the only ways to a stale entry, and when "not modified" is wrong |
| `Sessions_devices` | TypeOK, DevicesBounded, OldSessionsBounded, RevokedInTime | maximum 1, 3 tokens, 2 logins, 1 terminator, 1 reader, 1 failed eviction | 1,701,471 | what racing logins and an eviction that fails leave; a lookup that stores a revoked token |
| `Registration_emails` | TypeOK, EmailsMatchUsers, OneAccountPerEmail, EmailsDecryptable | a new address and one of a v2 user, 2 registrations, 1 unregistration, 1 change, 2 passwords, 5 ids | 745,592 | rollbacks at every step, both ways to an account, nonces of another account, accounts that share a key |
| `PushMessages_lists` | MessageTypeOK, RowsAreAudience, WantedOnly | 3 users, 2 comments, 1 change of settings | 106,419 | an answer by the author and one to a user, recalls and lost calls |
| `VerificationCodes_lockout` | TypeOK, AcceptedWasMailed, LockoutEnds | 2 codes, 2 requests, 2 tries, 2 failures lock | 121,308 | a lock-out that ends |

Three more exhibit bugs, each against a line of the repository that
`PROJECT.json` ("findings") quotes:

| run | property | what TLC shows |
|---|---|---|
| `RequestHandlers_comments` | CommentsWait | sendComment cancels its upload's context before it waits: 15 s for an upload that was done |
| `Moderation_votes` | DeletedByOwnReports | a post goes by a report of its own and one of its comment: the condition of the sum names `CommentID` and `IsComment`, which are zero for a post and so left out by gorm |
| `PushMessages_alias` | RightMessage | users are pushed another user's message (address of a loop variable, go 1.15) |

Two of the findings have a theorem that says where the code is right: an item without a
reported comment goes by its own reports only (`OwnReportsDelete`), and messages are right
where a comment concerns one user at most (`LoneMessageRight`).

**Why the bounds are enough.** A race here involves two actors, and one more that
observes: a replaced and a replacing connection with a request at either; two
transactions on one row, with a third request's earlier rows, give every order of
lock, read and commit. Thresholds are lowered to 2 so that the last report and the
one before can race. Times are scaled to a few ticks: the properties only compare sums
of them. Ids and versions are bounded by the number of commits. In `Sessions_devices`
the maximum 1 makes an eviction happen at once, and 3 tokens allow for two
evictions, one of which fails. Its constraint `Apart` keeps two logins at a time apart from a
lookup and what it left in the cache, which neither write what the other reads but for the
devices' rows; without it TLC finds nothing either, in some 3.9 million states, and the
theorems have no such bound. In `Discussion_post` lists of one word make the names of the second
and the third kind occur with two commenters and an author; longer lists are the
matter of a proof. Three commands are the fewest that end the process.
That the author only comments in `Discussion_post` leaves attentions and votes to the two
others, who do not differ from him there. `Registration_emails` has one unregistration, with
any account's nonce, one replaced by a registration included: with two the count of
`EmailsMatchUsers` is not kept (section 4), and `OneAccountPerEmail` is proved of any number.
Symmetry is used in `Moderation_judges`, `Sessions_devices`, `Discussion_post` and `Registration_emails`, which
check invariants only, over sets whose members no definition tells apart.

## 4. Known deviations

Besides the three findings above, the modules state in their last section what a
comment, a constant or an answer of the program says and the code does not do. No run
checks these; add one to a configuration as an INVARIANT or PROPERTY, with the constants
named here, to see a behaviour that violates it. Where a theorem of section 6 says under
which condition the code keeps what it says, it is named here.

* `PushHub!ClosedOnlyByReplacement`. `remove` (`stream.go:65`) closes and deletes
  whatever client is registered for the token. A connection whose reading goroutine
  ended, and which a reconnect has already replaced, closes the new connection of the
  same device when it comes to `remove` at last. Two connections, one request. Only
  connections of one device close each other (`ClosedByItsToken`); kept if a device has one
  connection (`LoneConnectionStays`).
* `PushHub!OnlyDeadDevicesMissed`. `NotifyClose` closes a channel without the lock, so a
  `Notify` that found the client before panics at its send (`stream.go:57`). Gin
  recovers the request, and its remaining devices are told nothing
  (`notification.go:80-155`). Two tokens, one connection each, one request for both. Kept by a
  request for one device (`LoneDeviceNotified`).
* `Moderation!BanNumberCounts`. The earlier bans of an author are counted under the lock
  of one post (`sql.go:277`); two bans for two posts both say "this is your first
  report" (`hooks.go:67`). Two posts of one author, two handlers, types `delete_ban`.
  Kept if no two transactions hold items of one author at a time (`BansNumbered`).
* `Moderation!LimitRespected`. The limit of deletions is peeked first
  (`routeApiPOST.go:501`) and taken after the deletion (line 510). Two posts, one
  deleter with a limit of 1, two handlers.
  An error of `Peek` is ignored (line 501) and reads as nothing used, and one of `Get`
  leaves the deletion uncounted: with `Fails = {"limiter"}` nothing bounds the deletions.
  Also, a delete_ban whose cache call fails deletes and is not counted.
  Kept if Redis answers and transactions do not overlap (`LimitKept`).
* `Moderation!UndeleteUnbans`. Restoring an item removes the first ban its reports
  caused (`sql.go:315`). An item deleted by the vote of two users, which an
  administrator then reports too, has caused two. As in `Moderation_judges`, with
  "report" among the requests of `a` and 4 reports. `BansMatchLog` fails there too.
  Kept if who sees deleted items does not report them (`RestoredUnbanned`).
* `Moderation!DeleteBanBans`. An error of Redis, or any other after the first
  write, is answered to the user but not returned from the transaction's closure
  (`routeApiPOST.go:540`), which commits: delete_ban deletes and does not ban. As in
  `Moderation_judges`. In the same way an undelete restores a comment and leaves `reply_num`
  alone, which `ReplyNumMatches` allows for and `Discussion!CountersMatch` counts.
  Kept if the cache answers (`DeletersBan`).
* `Moderation!ReplyNumMatches` with an administrator among the reporters and enough
  weight: a report of a comment that is already deleted passes the threshold again
  (`routeApiPOST.go:466`) and lowers `reply_num` a second time. The run that checks it
  has no reporter who sees deleted comments; `Discussion_post` has such deletions, and
  `CountersMatch` says that `reply_num` is wrong by them, and by the restorations above, only.
* `Details!ClientEventuallyFresh`. A client whose comments came outdated from the cache
  together with the new `updated_at` is told "not modified" from then on
  (`routeApiGET.go:91`), also when the entry has long expired. The same happens if the
  comments change twice in a second. As in `Details_clients`, however often the client
  asks.
* `Sessions!DeviceLimit`. Two logins that count before either creates its device
  (`login.go:66`) leave one more than `MaxDevicesPerUser`. As in `Sessions_devices`.
  Also, the error of an eviction is dropped and the login goes on (line 68), so that each
  one that fails leaves a device more: `DevicesBounded` counts them.
  Kept if logins do not overlap between eviction and insertion, but for evictions that fail
  (`DevicesLimited`).
* `Registration!FirstUserIsSuper`. The hook makes the user with id 1 superuser
  (`hooks.go:14`); a registration that rolls back after its insert uses the id up, and
  then nobody is. No v2 users, one address, two registrations. On a site that was migrated
  with its users it is nobody but whom v2 had in that role, since the migration runs no
  hook and takes or passes over the first id (`NoSuperUserByRegistration`): as in
  `Registration_emails`, with `OldSuper` FALSE. Registrations never make two
  (`SuperUserIsOne`); v2 may have had several.
* `Registration!EmailsMatchUsers` with two unregistrations that have read one account: the
  second, which found the user before the first deleted it (`deleteAccount.go:88`), deletes
  an e-mail and no user. As in `Registration_emails`, with a second `Deleter`. Also with an
  unregistration of a v2 user's address, whose row a registration read outside its
  transaction (`createAccount.go:140`): `Asks` with `d1` about `e2`. Kept otherwise, whatever
  nonces are given (`EmailsCounted`).
* An unregistration does not compare its nonce with its e-mail (`deleteAccount.go:46`, 88, 96):
  with the nonce of another account, the e-mail is free and its user stays in force, so that
  it may be registered once more. `OneAccountPerEmail` excepts such accounts (`stranded`) and
  says that nothing else gives an e-mail two.
* `Registration!SharesNameTheirUser`. changePassword saves the shares for a user of whom
  only the e-mail is filled in (`createAccount.go:253`), so their message, which
  "can be used to decrypt the user whose id=..." (line 40), names the user 0. As in
  `Registration_emails`.
* Not a deviation, but worth knowing: `EmailsDecryptable` depends on gorm 1.20 adding no
  condition on `deleted_at` to an `UPDATE`. With one, the shares of a deleted account
  would go with the change of the password of a later account of the same
  e-mail and password; `CommitChangeLive` shows it.
* `PushMessages!RecallIsFinal`. Push and recall are two requests to the push
  service; a recall that arrives first finds nothing to delete
  (`notification.go:79` has a TODO for it). As in `PushMessages_lists`.
  If it comes after the push no row is left (`RecallDeletes`); on the device a message may
  be, by the alias of the third finding or a call that stopped half-way.
* `VerificationCodes!CodesLastTwelveHours`. gorm's `Update` of `failed_times`
  (`createAccount.go:162`) also sets `updated_at`, from which the code's age is
  taken: a wrong try lengthens the life of the code beyond the 12 hours the e-mail
  promises (`mail.go:26`). As in `VerificationCodes_lockout`.
  Kept as long as no failed try is counted (`CodesExpire`).
* `VerificationCodes!NoRepeatInFiveMinutes`. The test is for 60 seconds
  (`checkEmail.go:100`); the answer says five minutes (line 188). As above.
  What the 60 seconds come to is `MailsAreApart`, if requests do not overlap; a request that
  fails to read the row (`AskUnread`; the error is discarded at line 99) passes the limit, and
  is excepted there.

## 5. Fairness

* `PushHub`: weak fairness of each thread and of each request, which is Go's
  scheduler and its RWMutex, where a reader that waits is let in when a writer
  unlocks. Nothing is assumed of peers: a peer need not be lost, but a write
  to one that is has a deadline.
* `RequestHandlers`, `Services`: weak fairness of `Work` as a whole, that is of all handlers,
  signalling steps, the Telegram call (which the library bounds) and time together: as
  long as a goroutine can run, one does. It asks for less than fairness of each. Uploads
  need not end, and requests and commands need not come.
* `CommentCache`, `Details`: time passes and a reader that has fetched finishes. Writers
  need not come to their end, and no client need ask.
* `VerificationCodes`: time passes. Nobody has to ask, enter or succeed.
* The other modules state safety only.

## 6. Proofs

Every theorem holds for all values of the constants that satisfy the ASSUMEs of the
module, which are what the code justifies (time spans are positive, `None` is no value,
at most finitely many requests, tokens or items take part), and, where the statement says
so, under a hypothesis of its own. None uses fairness. `NextCases` splits a step into the
actions once and for all in each module. The instances of section 3, or smaller ones
(one handler, one connection for each token, a single answer), meet the hypotheses, and TLC
checked the inductive invariants on the instances of the runs before they were proved.

**PushHub** (in `PushProofs`).
* `TypeCorrect`: one step per action.
* `ClosedOnce` (ChannelClosedOnce). The invariant alone is not inductive: a
  thread between the `once` and the close may close a channel that another one
  has closed, if nothing says that the `once` let one of them pass. `OnceInv` says
  so: a channel was closed at most once and only if the `once` is taken; a thread
  at its close belongs to a client whose `once` is taken and whose channel is
  open; and there is one such thread per client.
* `TargetRegistered` (TargetStaysRegistered). `LockInv` adds that an entry of
  `clients` is a connection of that token; `remove` and `register` change the map
  only when no reader holds the lock, which is in the guards `Entered`.
* `ClosedByItsToken`, `LoneConnectionStays` (ClosedOnlyByReplacement) and `LoneDeviceNotified`
  (OnlyDeadDevicesMissed), three action properties. `LinkInv`: a goroutine comes to the
  `once` only with its peer gone or its connection closed, and `Handle` is over when its client
  is in the map; `TodoInv`: a request sends to a device it still has to notify.

**PushMessages** (in `PushProofs`).
* `ListIsAudience`: the list that `sendComment` builds has one message for everybody the
  comment concerns, with all his reasons, and none for anybody else, for any watchers in any
  order. It is an induction over the watchers. As the library's induction theorems cannot be
  used (below), it goes by the least number of watchers at which the claim fails
  (`LeastElement`, from a theorem on minimal elements of well-founded relations that has no
  operator parameter), as does the proof that the recursive definition has a value
  (`ListsDefined`).
* `MessageTypeCorrect` (MessageTypeOK), `RowsMatchAudience` (RowsAreAudience) and `OnlyWanted`
  (WantedOnly). The invariant is `MessageInv`: a comment's rows are none or those of its whole
  list (`WholeRows`), and a call that is on its way or at its loops has pushed only to who is on
  the list and asked for it when the comment was written (`SendInv`).
* `LoneMessageRight` and `RecallDeletes`: what remains of two claims of section 4.

**Services.**
* `TypeCorrect` (ServiceTypeOK): a wait ends with the timeout, as a tick needs that nobody
  can move.
* `ExitsAfterThree` (ExitNeedsThree). `CountInv`: while the process runs, the countdown, and
  every value a command has loaded, is at least 2 less the commands that are done. A lost
  update makes it higher only.
* `PostsWait` (NoFalseTimeout, an action property). `PostInv`: while a post waits, its
  context is not cancelled, and its goroutine uploads, or has left its message, or is about
  to leave it in time.

**Moderation.**
* `TransactionsIsolated` is the invariant the others rest on: the types, an open
  transaction's request, the row lock of its item, and the numbers of the reports. Step
  lemmas (`LogStep`, `Quiet`, `Holders`) then say what a commit may change: rows of
  the locked item.
* `ReportsCountOnce` (NoDuplicateReport) with `OnceInv`: the look for an earlier report is
  true until the commit. `FoldsTag` (TwoFoldsTag) rests on it, and on `FoldInv`: a fold at its commit
  has a reason of `Tags`, so that the tag it sets is not the empty one.
* `BansLimited` (LimitBounded), if the limiter's Redis does not fail: `LimitInv` counts the
  requests past `Peek` with those that are counted. With failures nothing bounds the deletions
  (section 4).
* `LogExplains` (LogExplainsState) with `ScoreInv`: a vote has counted all reports of its
  item, and besides them reports of its comments only.
* `RepliesCounted` (ReplyNumMatches) and `BansExplained` (BansMatchLog), if who can see
  deleted items does not report them (`NoLateReports`): then what a transaction found of
  its item (deleted or not) is so at its commit (`AdmittedInv`), and an item has one ban at most
  (`BanInv`). Without the hypothesis both properties fail, as section 4 says.
* `RestoredUnbanned` (UndeleteUnbans) under the same hypothesis, from `BanInv`.
* `DeletersBan` (DeleteBanBans, an action property), if the cache does not fail: then no commit
  stops half-way.
* `DeletionsLimited` and `LimitKept` (LimitRespected), if Redis does not fail: a deletion with a
  ban in the log is counted (`CountedInv`), so `LimitBounded` bounds the log, by exactly the limit
  if one transaction runs at a time.
* `BansNumbered` (BanNumberCounts, an action property), if no two transactions hold items of one
  author at a time (`AuthorsApart`, a condition on the behaviour): the number of bans that a
  transaction has read stays that of its author until it commits (`SeenInv`).
* `OwnReportsDelete`: from `LogExplainsState`, with the sum a post's own without reported comments.

**Discussion.**
* `RowsCorrect`, `TypeCorrect`: the tables are finite, ids are given once, and who has
  commented has a first comment.
* `LockCorrect`: the name, or the votes, that a transaction has read are those of the tables
  as long as it holds the post's row.
* `NamesStandForUsers` (NamesIdentify), with `NamesInv`: the n-th commenter's number is at most
  the number of commenters, so that a new one, which is one more, is nobody's; and, as names
  differ if their numbers do, `NamesDistinct`. It holds for word lists of any length:
  `NamesDefined` says that no index of `utils.go:101` leaves its list, and `NamesDistinct` that
  two numbers have two names, since quotient and remainder give the number back
  (`DivMod`, `FirstWord`).
* `CountersCount` (CountersMatch), with what `drift` counts, and `NoVoteLost` (VotesCounted) from the two invariants above.

**CommentCache, Details.**
* `CacheImplements` and `DetailsImplement` (BoundedStaleness): the refinement of `StaleReads`. The
  initial states map to its initial states (`InitMaps`) and every step to a step or a stutter
  (`StepMaps`), given `CacheInv`: the age of the entry and the time it has left, or the
  age of what a reader fetched and the time since, add up to the bound.
* `StaleByRace` (StaleOnlyByRace). `RaceInv` says which readers and entries an overlapping
  writer, or a failed deletion, has spoiled.
* `NotModifiedIsRight` (NotModifiedOnlyByRace) with `DetailInv`: `updated_at` never goes back, a
  request's row is no newer than the comments it reads after it, and a client that was not
  misled has no later `updated_at` than its comments.

**Sessions.**
* `RowsCorrect`, `TypeCorrect`: a token has one row at most.
* `TokensRunOut` (RevokedInTime) with `EntriesInv`: an entry's age and what is left of it, and
  the age of what a lookup holds, add up to the bound. No action needs to clear the cache.
* `OldSessionsEnd` (OldSessionsBounded): each login is late once, and makes one device.
* `DevicesStayFew` (DevicesBounded) with `DevicesInv`: the devices, and the logins past their
  count, together are at most the maximum, all logins but one, and the evictions that failed.
* `DevicesLimited`, if logins do not overlap between the eviction and the row of the device
  (`LoginsApart`): with `RoomInv`, such a login has room, or its eviction failed. Without
  failures it is DeviceLimit.

**Registration.**
* `RequestsIsolated` is the invariant the others rest on: what a request has at hand, ids that are
  given once, locks of written rows, and that the row a registration or a change of the password
  has found stays one of its address. An unregistration's row need not be.
* `AlwaysDecryptable` (EmailsDecryptable): from the lock of the user's row that changePassword
  writes under.
* `OneAccount` (OneAccountPerEmail), without a hypothesis. `AccountInv`: a registration past its
  insertion has the address locked, and the address of every registered user who is not
  stranded is in `emails`.
* `EmailsCounted` (EmailsMatchUsers) if no two unregistrations under way have read one account
  (`NoncesApart`, a condition on the behaviour; then the account one has read stays in force,
  `DropsInv`), and no address of a v2 user is unregistered (`OldUsersStay`). `OldRowsInv`: an
  account takes over a v2 user's row or has an id of its own. Which address an account
  has does not matter: each unregistration takes one user and one e-mail.
* `SuperUserIsOne`: of the users who did not come from v2 the role has the one with the id 1
  (`SuperInv`), and ids are given once. `NoSuperUserByRegistration`: if there were v2 users, the
  auto increment begins past the first id (`NewIdsInv`), so that the hook never acts.

**VerificationCodes.**
* `TypeCorrect`, and `CodesWereMailed` (AcceptedWasMailed). The invariant (`CodesInv`) adds what is
  between the mail and the answer: a request about to save a code has mailed it, and the code of
  the row was mailed.
* `CodesExpire` (CodesLastTwelveHours, an action property), as long as no failed try is counted:
  then the row is as old as its code (`SavedInv`).
* `MailsAreApart`, if requests for a code do not overlap (`SendersApart`), and but for requests that
  could not read the row: what the limit of `checkEmail` found is so when it mails (`AskedInv`).

**Only model-checked.** Out of the prover's reach are liveness under fairness and ENABLED
(`RequestsEnd` of both modules, `GoroutinesEnd`, `DeadClientsLeave`, `EventuallyFresh`,
`LockoutEnds`). Every other property of the passing runs is proved. Theorems on induction that
take an operator as a parameter cannot be instantiated; `ListIsAudience` shows a way round them
for a recursive function over the naturals. No operator is declared RECURSIVE. The properties
of the runs that exhibit bugs, and those of section 4, do not hold without the hypotheses named
there.

## 7. Plan

Done: the modules of section 2, in the order hub, handlers, moderation, discussion,
cache, sessions, registration, push messages, verification codes; then, over them,
details, the shutdown, commenter names, key shares, changePassword and the settings; then
the proofs of section 6.

Next, models:

1. The composition of `PushMessages` with `PushHub`: a message on its way through
   a hub whose connections change.
2. A ban during unregistration: `Moderation`'s bans with `Registration`'s users.
3. A post whose row is saved before its upload starts (`routeApiPOST.go:86`): the end of
   the process leaves it without its picture. `Services` has the end, no module the picture.

## 8. What is not modelled, and what is assumed

* `API.Close` and `NotifyDeletedUser` (no code calls them).
* Lists, search, attentions, hot posts, administrators' texts: queries and their output.
  Of `routeApiGET.go` the modules have what reads through the cache, of
  `adminCommands.go` the shutdown and the condition by which shares are found again.
* The limiters of `middlewares.go` are a library's; the deletion limit, which the code
  splits in two calls, is in `Moderation`.
* The captcha, the invitation checks and the bans that refuse an unregistration: ways to
  leave or roll back. The device token of iOS is one column of the caller's device.
* AES, Shamir's shares and public keys: `Registration` has on what they depend, not what
  they compute.
* System messages, and the push to Apple: abstracted in `PushMessages` and `PushHub`.
* Images, file formats, object store, mail and Telegram transport: calls that
  end, or fail, after any time.
* That the Telegram consumer runs whenever `enable_telegram` is set: it is started once
  (`telegram.go:18`), while the setting is watched and read again for every request.
* Start-up, configuration, logging, formatting; in `cmd/`, the migration, which runs
  alone and once, but for the users it leaves (`Registration`), the fallback, which answers everything with a request to upgrade, and the load generators.
* External: an operator who freezes an account does so once (`Sessions`); a call to
  Redis that fails has no effect; the database isolates transactions as InnoDB
  does (repeatable read), with the row locks the statements take; the update of gorm 1.20
  that undeletes a comment reaches it through an unscoped statement; that `Update` of one
  column also sets `updated_at`, and that a struct as a condition leaves its zero fields
  out, are gorm's documented behaviour.
