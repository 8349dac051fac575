# Verification of shoutit-api

TLA+ models of the parts of shoutit-api that carry state between requests, the
TLC runs that check them on small instances, and theorems about them that TLAPS
checks for all instances. Paths are relative to the repository, which is `src/`.

## 1. The system

shoutit-api is the backend of a classifieds and chat application: a Django REST
API (`src/src/shoutit`, with the apps `shoutit_credit`, `shoutit_pusher`,
`shoutit_twilio`, `shoutit_crm`) over PostgreSQL, Elasticsearch and Redis.

What makes it concurrent (`src/deploy/`, `settings.py`):

* **gunicorn** runs 4 workers in production; a worker handles one request at a
  time and is killed after 60 seconds (`gunicorn.py`).
* **No transaction spans a request.** `DATABASES` does not set
  `ATOMIC_REQUESTS`; only a few inserts are wrapped in `transaction.atomic`.
  Each ORM statement commits by itself, so requests interleave between any two
  statements, and a request that dies leaves what it has committed.
* **An ORM object is a copy of its row.** `save()` writes every column of the
  copy, `save(update_fields=...)` some, however old the copy is.
* **rq** has the queues default, mail, push, pusher, credit, push_broadcast and
  sss; circus keeps *one* `rqworker` process for each. A job that raises or whose
  process dies goes to the failed queue and is not run again.

### Components

| Component | State it keeps | Operations | Hard behaviour | What makes it correct |
|---|---|---|---|---|
| Conversations (`models/message.py`, `message_controller.py`, `message_views.py`, `serializers/conversation.py`) | the row with the arrays `admins` and `blocked`, `last_message`, the m2m table `users` | create (chat, public chat), reply, profile chat, add, remove, promote, block, unblock, PATCH, DELETE | stale copies written back, checks far from writes, death between statements | always an admin; only members are listed; a private conversation is entered by invitation; what an admin decided lasts |
| Read state (`models/message.py`, `notifications_controller.py`) | `MessageRead`, `Notification` rows, default queue | read/unread a conversation or a message, `notify_user` | a queue between message and notification, unique constraints, races of readers | acknowledged reads are stored; one notification per message; a read conversation counts as read |
| iOS badge (`pusher_controller.py`, `push_controller.py`) | push queue, badge of the device | `trigger_stats_update`, `set_ios_badge` | counted in one step, sent in another | the badge settles at the unread count |
| Pages of messages (`api/v3/pagination.py`, `message_views.py`) | none (timestamps in links), `MessageDelete` rows | first, previous, next page, delete messages | whole seconds against microseconds | order, no repetition, completeness, deleted messages hidden |
| Credit (`shoutit_credit`) | `CreditTransaction`, `ShoutPromotion`, `InvitationCode`, credit queue | rewards, promote, invitation code | check-then-act on a sum, payment and promotion in two statements | rewards once and within limits, no spending of what is not there, a payment has its promotion |
| Presence (`shoutit_pusher`) | `PusherChannel`, `PusherChannelJoin` | webhook; `check_pusher` reads it | webhooks at once and lost, batches that are sorted, deletion that cascades | whoever left is not taken for present, whoever is present is found |
| Accounts (`models/auth.py`, `user_controller.py`, `facebook_controller.py`, `gplus_controller.py`, `email_controller.py`) | users, linked accounts, confirmation tokens, mail queue | sign up, sign in with a provider, link, unlink, change and verify the address, reset, set and change the password, deactivate | addresses that the database does not keep apart, stale copies of the user, tokens that outlive the address they were made for, mails that wait | addresses and tokens shared by no more than race, links arrive, nobody is locked out, activated means verified |
| Pages (`models/page.py`, `page_controller.py`, `authentication.py`) | pages, `PageAdmin` | create, act for, add and remove admins, activate | check-then-act on admins, activation that cascades | a page keeps an admin, pages follow their owner |
| Devices, guests (`models/auth.py`, `push_controller.py`) | `APNSDevice`, `GCMDevice`, `Device` | update the tokens, enter as a guest | four statements per registration, phones handed on | one user per phone |
| Push notifications (`push_controller.py`) | push queue | `send_push` | reads presence, pages and devices while they change | a device gets a notification once, jobs come to an end |
| Shouts and index (`models/post.py`, `shout_controller.py`) | shouts, items, tags, `ShoutIndex` documents, default queue; likes, bookmarks | create, edit, delete, mute the shouts of a deactivated user, index, publish on Facebook, like | the index follows through a queue that carries copies; whole rows written back; the worker writes rows too | the index settles at what the database holds; the shouts of a deactivated user are muted |
| Listening (`listen_controller.py`) | `Listen2` | listen, stop | unique constraint | one row per pair |
| Video calls (`shoutit_twilio`) | `VideoClient` | auth, identity, call | concurrent creation, expiry | one live client per user |
| Others: discover, tags, locations, Mixpanel, media, CRM, API v2, admin site, commands | reference data, calls of services | | failures of the services | |

They interact through the database (a conversation's `users` decides whom a
message notifies; `send_push` asks for the admins of a page, the joins of a channel
and the devices of a user), through jobs (`notify_user.delay`, `send_push.delay`,
`set_ios_badge.delay`, `apply_*.delay`, `_send_verification_email.delay`) and through Django signals (`post_save` handlers run inside the
request that saves).

`PROJECT.json` lists the components with what is modelled of each, and under
`hazards` the places that are hard to test, each with the properties that watch it.

## 2. The modules

| Module | Models | Role |
|---|---|---|
| `Conversation` | one conversation and the requests that change it | detailed specification |
| `AccessList` | what a conversation promises about members, admins and blocked profiles when requests do not overlap | abstract specification |
| `SharedAccessList` | what it promises when they do | abstract specification |
| `MessageReads` | read rows, notifications, queues and badge of one conversation | detailed specification |
| `MessagePages` | a client's walk through the pages of a conversation | detailed specification |
| `Credit` | credit, rewards, invitation codes, promotions | detailed specification |
| `ShoutIndexing` | the shouts of one owner, their documents in the index and the queue between | detailed specification |
| `Accounts` | the accounts of people, their addresses, tokens, links to providers, and the mail queue | detailed specification |
| `Presence` | the webhook of Pusher and the joins it keeps | component of `Push` |
| `Pages` | pages, their admins and their activation | component of `Push` |
| `PushTokens` | devices and guests | component of `Push` |
| `Push` | the push queue over the three | composition |
| `ConversationProofs`, `MessageReadsProofs`, `MessagePagesProofs`, `CreditProofs`, `ShoutIndexingProofs`, `AccountsProofs`, `PushProofs` | | theorems about the module of that name; `PushProofs` also holds the lemmas on `Pages` |
| `PresenceProofs` | | lemmas about `Presence`, which `PushProofs` instantiates |
| `MC...` | | constants for TLC |

An **action** is the code between two database statements (or a statement and an
enqueue). A request is a record in `req` with a `phase`: what it does next. Its
local variables are further fields. `Finish` ends it and `Abort` ends it anywhere:
gunicorn's timeout, an exception of a service that the handler calls, a crash.

### Conversation

`row` is the conversation's row, `users` the m2m table, `messages` the number of
messages. `GetObject` is `get_object()`: `get_queryset` (blocked profiles do not
see the conversation), then the permission class; it copies the row into `snap`,
on which the rest of the request works, as the code does. `Validate` is
`ConversationProfileActionSerializer.to_internal_value`, with the condition of each
subclass as an operator of its own. `PromoteAdmin`, `BlockProfile`,
`UnblockProfile` and `UpdateSubject` write the columns that `update_fields` names,
from `snap`. `SendMessage`, `AddSender`, `SaveConversation` are the insert of a
message and the two writes of `post_save_message`; the last one writes *every*
column from `snap`. `ContinueChat` is the `chat` endpoint of a profile, which finds
the conversation by its users and asks neither the permission class nor `blocked`.

`AccessList` and `SharedAccessList` are the two promises. In the first an admin acts on
the list as it is. In the second he acts on a version that he has looked at: `views` are
the versions that somebody still holds, the row and the copies of the requests in
flight, and a version that was replaced cannot be looked at again. `Promote`, `Block`,
`Unblock` and `Rename` write the columns of their operation, made from such a version,
and leave the others as they are; only `Post`, a message, brings back all columns of its
version, with a newer `last_message`.

Choices worth knowing:

* The read of the row and that of `users` in `get_object` are one action. A change
  in between behaves as one right after it, since the answer is used only to
  refuse; a refused request changes nothing.
* `admins` and `blocked` are sets; the code never appends an element that is in the
  array it writes. `admins.remove` on a copy without the profile raises, and the
  handler guards it.
* A chat about a shout behaves as a chat. Location fields, icons (they go with
  `subject`) and `ConversationDelete` rows, which nothing reads, are left out.

### MessageReads

`reads[u]` is the sequence of u's `MessageRead` rows (its order is `created_at`,
which `mark_as_unread` sorts by), `notified` and `is_read` the notifications,
`jobs` and `push` the queues. The actions follow `mark_as_read`, `mark_as_deleted`,
`mark_as_unread`, the `read` endpoint of a message, `post_save_message`, and on the
worker's side `notify_user` and `set_ios_badge`, each cut at every statement.
`AddSender` adds the author and reads the contributors in one action: the only
statements that could come between concern `users`, and the author is excluded from
those notified in any case. Which profiles are blocked is `Conversation`'s concern;
here nobody is. Pusher events change no state and are left out. Requests are
numbered in the order of arrival, which loses no behaviour. A behaviour starts when
the first message has been sent and its recipients notified, with the author's next
reply in flight, so that reading, unreading and a second message meet early.

### MessagePages

Time is in ticks, `Tick` of them in a second. `Before` and `After` are the filters
with the second they add or take, `LastOf` and `FirstOf` the first page of the two
orders (`Sorted` is the `ORDER BY`, described by its result), `Visited`, `Keep` and
`KeepNotDeleted` the loop that removes elements from the list it iterates over, `LinksOf`
the two links. `Post` and `Hide` happen at any time
between two pages.

### Credit

The credit of a user is the sum over `transactions`, as in `User.credit`.
`TakeJob`, `GrantReward`, `CountUse` are the credit worker in the four `apply`
methods; the checks of a job are one action, because only this worker writes what
they read (the code's row apart, which is read once). `PromoteShout` to
`NotifyPromotion` are the promote endpoint, cut between the read of the credit, the
read of the promotions, the payment, the promotion and the notification.
`GetInvitationCode`, `DeactivateCode`, `CreateCode` are `user_invitation_code`. The
remaining terms of a reward (a complete profile) are a free choice in `TakeJob`;
`Contacts` fixes who is in whose contacts.

### ShoutIndexing

`row`, `item` and `tags` are what the database holds of a shout, `doc` its
`ShoutIndex` document, `jobs` the default queue as far as shouts go. `CreateItem`,
`InsertShout`, `AddTags` are `create_shout`; `GetShout`, `EditItem`, `ClearTags`,
`AddTags`, `SaveShout` are `edit_shout`, whose item and row are written whole from
what `get_object` read; `SaveShout` is `delete_post` too. `Deactivate`, `ListShouts`,
`MuteShout` are `user.update(is_active=False)` with its signal handler. Each of them
goes on to `GetCopy` and `SaveShoutIndex`, the two statements of `save_shout_index`.
`TakeIndexJob`, `ReadTags`, `SaveDoc`, `MarkIndexed` are the job: text, `is_muted` and
`is_disabled` come from the copy it carries, the item and the tags from the database.
`TakePublishJob` to `PublishedIndex` are `publish_shout_to_facebook`, which saves the
shout it was given: after an edit that indexes it again, after a creation it does not,
since the pickled object still has `save_shout_index = False`.

Values are request numbers: whoever wrote last. `text` stands for every column of the
row that an edit sets and the document shows, `name` for those of the item;
`description` is kept apart because an edit without a text takes it from there.
Nothing in the service activates a user again, so `un_mute_shouts` is left out.

`late` and `lost` say for which shouts the index may differ from the database when all
is quiet. `late`: the last copy that was enqueued was no longer the row, because
another request or the publishing worker wrote between the two statements of
`save_shout_index` (or a new shout was deleted before its first job was enqueued, and
that job ignores `is_disabled`). `lost`: a request died, or a job failed, with a change
to index and none came after. A later job for the shout mends both.

### Accounts

`user`, `linked`, `tokens` are the tables, `mails` the mail queue, `inbox` the links
that arrived and where. A request keeps the account it is about and in `seen` the copy
of the row that the code keeps using: `request.user`, or what `FindByEmail` read.
`SignUp` to `EnqueueMail` are `create_user` with its receivers; `SignIn`,
`FindByEmail`, `CreateLink` the two `auth_with_...`; `Link`, `CheckLinks`,
`DeleteLink` the link endpoint; `ChangeEmail`, `Resend`, `SaveEmail`, `DisableTokens`
the changes of the address; `Verify`, `ReadUser`, `Activate`, `DisableToken` the link
that is clicked, one action per statement. `Live` is `verification_link`: any enabled
token of the user, read when the job runs, while `Addressee` is of the copy that the
job carries. `SetPassword` leaves its token enabled, as the code does.

The history variables name the ways in which things can go wrong (section 3). Two of them
are about activation: `proved` are the pairs of a user and an address that a link he
followed, or the account he came with, has shown to be his; `assumed` those with which a
user was activated by linking an account, which asks for no address.

`Facebook` and `Google` differ where the code does: with several users of one address
Google's branch raises and Facebook's takes one. Addresses are model values; the code
also rewrites `@s.it` to `@shoutit.com`, where an address is changed only after it looked
for other users of it, so that two of those addresses can be the same without any
race. They are for staff and are left out.

### Presence, Pages, PushTokens and Push

`Presence`: `online` and `outbox` are Pusher's side, `channels` and `joins` the tables.
`Receive` takes a batch, and `Current` is the event that comes first among those `left`
in the order that the view sorts by (`Earlier`: by name, joins before leaves, events of
one name as received); `GetChannel`, `AddMember`,
`FindJoin`, `DeleteJoin`, `FindJoins`, `DeleteChannel` are the statements of
`add_member`, `remove_member` and `delete_channel`. Channel rows have numbers, since a
channel that is deleted and created again is another row to the joins. A batch
with an event of a channel, not of a member, ends in a `TypeError` (`uuid.UUID(None)`):
`DropBatch`, which is also a batch that never arrives.

`Pages`: `Send` is authentication with or without `Authorization-Page-Id`. `AddAdmin`
and `RemoveAdmin` are what `ObjectProfileActionSerializer` accepts, `CheckAdmin`,
`InsertAdmin`, `DeleteAdmin` what `update` does; `ActivateUser`, `FindPages`,
`ActivatePage` are `User.activate`. A `PageAdmin` row is known by the request that
inserted it, so that the same admin can be there twice, as in the database.

`PushTokens`: `DeleteOwn`, `DeletePhone`, `InsertDevice`, `InsertVersion` are the four
statements of `update_push_tokens` and its receiver; the registration ids of APNS are
unique, those of GCM are not. A guest is looked up by the token first.

`Push` instantiates the three and adds the queue. `PushToAdmins`, `CheckPusher`,
`FindDevices`, `SendPush` are `send_push`, which reads the devices a second time to send.
In a behaviour one of the three moves (`moving`) and the others are in a state they can
be in: `send_push` reads them in different statements and writes none, and no two of them
write the same table, so what one component does to a push needs no step of another.
`NotifyPage` and `NotifyPerson` stand for any request that makes `notify_user` push:
for a page while pages move, for a person while devices do. While presence moves there
are no jobs; what `CheckPusher` reads is what `NoGhost` and `NotForgotten` are about.

## 3. What is checked

| Run | Instance | Shows |
|---|---|---|
| `conversation` | 3 profiles, 4 requests, 2 at a time, both types | `AdminsNeverEmpty`, `ListsHoldMembers`, `PrivateMembership`, `ImplementsSharedList` under every interleaving and abort |
| `conversation_serial` | 5 requests, 1 at a time | `ImplementsAccessList`: requests that do not overlap implement `AccessList`, wherever they abort |
| `conversation_block` | 3 requests, 2 at a time | **violated** `BlockLasts`: a stale copy written back lifts a block |
| `message_reads` | 2 members, one with a device, 3 requests of all kinds after a first message, 2 at a time, fair workers | `AcknowledgedReads`, `NotifiedOnce`, `ReadByItsUser`, `BadgeSettles`, `NotificationsDelivered` |
| `message_reads_late` | 3 requests | **violated** `ReadLeavesNoNotification`: a notification saved after its message was read |
| `message_pages` | two of up to 5 messages per page, gaps of 1/2, 3/2 and 2 seconds | `PageInOrder`, `NoRepeats`, `SpacedWalkComplete` |
| `message_pages_deleted` | up to 4 messages | **violated** `DeletedNotShown`: of two deleted neighbours the second is shown |
| `credit` | 3 users, 1 shout, 2 options, 3 requests, 3 jobs | `OverdraftBounded`, `PromotionsBounded`, `RewardedOnce`, `ListensLimited`, `CodesCounted` |
| `credit_payment` | the same | **violated** `PaymentHasPromotion`: paid, then nothing |
| `shout_indexing` | 2 shouts, 2 requests at once, all operations, publishing on | `RowIndexed`, `ItemIndexed`, `UnmutedBounded` |
| `accounts` | 3 users, 2 addresses, an account for each at both providers, 3 requests, 2 at a time, 5 mixes of operations | `DuplicatesBounded`, `LinkDelivered`, `LoginKept`, `ActivatedVerified` |
| `push` | 2 people; 2 pages, or 2 channels with up to 4 events, or 2 phones; 3 requests, 2 at a time; fair push worker | `NoGhost`, `NotForgotten`, `AdminKept`, `PagesFollow`, `PhoneHandedOn`, `DuplicatesBounded`, `PushedOnce`, `PushesEnd` |

Each module also has its type invariant. Each property comes with a mutant in its
module: a plausible bug (a dropped check, a wrong boundary, a swapped order) with
which TLC finds the property violated in the same run.

`ImplementsSharedList` and `ImplementsAccessList` are refinements. The first holds
however many requests overlap and says what is left of the list's rules then: an admin
acts on a version that he has seen, what he writes is what one operation makes of that
one version, and it is not older than the oldest request in flight: the versions that
are still held are shared by all requests, and which of them holds which is a matter of
`Conversation`. So a block can be undone by nobody's wish, but only by a message, or by
the block or unblock of another profile, with a version from before it that some request
in flight still holds; and a profile is added to the admins or the blocked ones only if an
admin of the version asked for it, or by a message that brings him back from an older
version. The second, for one request at a time, says that then the list itself is kept.

`OverdraftBounded` and `PromotionsBounded` say exactly how far the check-then-act in
`can_promote` goes wrong: with W workers a user owes at most what W - 1 promotions
cost, and a shout is promoted at most W times. For W = 1 they say that nobody
spends what he does not have and that a shout is promoted once.

`SpacedWalkComplete` has a premise because the code needs it: links name whole
seconds and the filters add or take one, so a message less than two seconds from
the one at a page's edge may be on neither page.

`UnmutedBounded` has the same form: an edit or a deletion that overlaps the
deactivation of the owner writes `is_muted = False` back, a creation inserts it, and
each of the other W - 1 workers can do that once. With one worker all shouts are muted.

The properties of `Accounts` and of the parts of `Push` say what holds and name every
exception, as a history variable that is set where the race happens:

* `DuplicatesBounded`: an address, or the enabled tokens of a user, an admin of a page,
  the devices of a phone are there at most as often as requests run at once. With one
  worker each is unique.
* `ActivatedVerified` has three exceptions. Users who were activated by linking an account
  have the address they had then (`assumed`), which nobody has verified: the code asks for
  no relation between it and the account's (section 5). A change of the address that
  raced with a request that activates, or died half-way, may leave a user activated with
  the new address (`overtaken`). A mail that was enqueued for the old address carries, when
  it is sent, the token made for the new one, and who follows it verifies an address he may
  not have (`misdirected`).
* `LoginKept` holds unless two requests that unlink the one and the other account of a user
  are both past their check, the linking that follows an unlinking fails, or Facebook
  removes the account. So linking anew, or a request to unlink the same account, or one
  that sets the password, takes nothing away at whatever time it comes. The first exception
  is a race that the code does not prevent (section 5).
* `NotForgotten` excepts members whose events on one channel are handled at once
  (`met`), which is how the deletion of an empty channel takes a new join along, and
  those who left and came back within one batch (`resorted`).
* `AdminKept` excepts pages an admin of which was removed while another removal that rests
  on his right was under way (`contested`). Two admins who remove each other are the case
  in point: both are gone and nobody is left, which nothing in the code prevents. With a
  single worker there is always somebody, without exception (`PushAdminKeptAlone`).
* `PagesFollow` excepts a page and an admin of it if he was given the page (or the page
  was created) by a request that had read him before he was activated, or if the request
  that was to activate the page died (`outrun`).
* `PushedOnce` speaks of devices, which are rows: a phone that is registered anew is another
  device, and if it is so in another version of the API while the jobs run, the phone gets
  the push of that version too. A device is sent to twice only if it took the place of the
  one that a job had found before the job read it again to send to it (`substitutes`), which
  is the one read whose version nobody looks at. The run reaches that case; a device that
  moves up between two jobs, because an older one of the user is deleted, needs more
  registrations than the run has and is covered by the proof.
* `PushesEnd` has the premise that pages do not remain admins of each other. Without it
  TLC finds the queue never empty: nothing asks whether an admin is a person
  (`page_views.py:113` says that they are), and two pages that are admins of each other
  hand the job to and fro.

### Bounds

* *Two requests at a time.* All the races found are between two requests, or a
  request and a worker; the proofs hold for any number.
* *Three profiles*: an admin, a member, and an outsider whom only the member, once
  promoted, may invite.
  Four requests let a promotion, a block and a stale write follow each other.
* *Five messages and pages of two* give a full page with more messages on its far
  side than the next page holds. `Gap` has a message in the same second, one in the
  next second, and one two seconds away, at a `Tick` of half a second.
* *Two shouts and two requests* let each pair of operations overlap, on the same
  shout or not, with the worker in between; every shout is there at the start or
  not. The worker's own writes are a third actor.
* `MaxUsage` and `MaxListens` are 1 where the code has 10 and 3: the boundary is
  reached with two uses. `MaxJobs` and `MaxMessages` bound the input only.
* *Three users and two addresses* let two accounts share an address while a third asks
  for it. The mixes put together the operations that touch the same rows; each
  operation is in at least one, and the requests of other mixes would meet no row of
  theirs. A user has an account from the start or not, so three requests go beyond
  signing up.
* *Four events and three webhooks* let a member leave and come back, in one batch or in
  two that are handled at once, beside another member of the channel.
* *Two pages* are the least that can be admins of each other; *two phones* are one of
  each kind.
* Symmetry is used in runs without liveness properties. Where there are some, requests
  are numbered in the order of their arrival instead.
* `CHECK_DEADLOCK FALSE` everywhere: requests, jobs and messages are finite in
  number, and when all are done the system rests.

### Fairness

`FairSpec` of `MessageReads` has weak fairness of the default worker and of the push
worker, that of `Push` weak fairness of the push worker. circus starts each
(`autostart`) and restarts it when it dies, and rq blocks on its queue, so a worker
with a job does something eventually: it runs the job or the job fails. Nothing is
assumed of clients, requests, webhooks or Pusher, which may stop anywhere.

## 4. What is proved

39 theorems, for all values of the constants: any number of users, requests, shouts,
messages, pages, phones, jobs and workers, where a run has two or three of each. Every
safety property of every run of section 3 that passes is among them. All
are invariants of `Spec`, without fairness, but `NoRepeats`, which is an action property,
and two refinements.

### Assumptions

They are `ASSUME`s of the modules, which TLC evaluates for the instances it checks.

* `ConversationAssumption`: the creator is one of the participants, who are users, and
  listening relates users.
* `CreditAssumption`: a shout has an owner, prices are positive, and one option is the
  dearest (`settings.py` and the admin site define a few), which `OverdraftBounded`
  needs in order to speak of `MaxCost`.
* `MessagePagesAssumption`: a second has at least one tick, a page at least one place
  (`get_page_size` in `pagination.py` takes positive numbers only), and time moves between
  two messages.
* `AccountsAssumption`, `PushAssumption`: each account at a provider has an address,
  only users of the app are in a channel, the app knows finitely many versions of its
  API.
* *Absent values*: `Null`, `None` and `Nil` stand for a missing row, job or user and are
  none of the values that can be there. Numbers of rows are not names of requests.
* `Workers`: a natural number, positive where a bound like W - 1 is stated.

### Arguments

Almost no property is inductive alone, because what a request writes was read, or
checked, several statements before. The inductive invariant of a module therefore says,
for each phase of a request or a job, what still holds of what it has read. A step is
proved by cases, one per action. Lemmas `...Kept` cover, once for all, those that do not
touch what a part of the invariant speaks of; in most proofs that is most of them.

**Conversation** (`IInv`). `CallInv` says of every request in flight what its copy and
phase guarantee: its `admins` are not empty, its `admins` and `blocked` have been
members and its admins are remembered in `everAdmin`; when it is about to write, its
actor is one of the admins *of the copy* and is not the profile acted on (this is what
keeps an admin when two admins block each other), and the profile to be promoted or
blocked has been a member; a request that is about to add its sender to a private
conversation has a sender who was in it. `HistoryInv` ties the history variables to the
state. `CallInvGrows`: the history only grows, so what was true of an untouched request
stays true. `ConversationImplementsAccessList` is the refinement, for `Workers = 1`:
`SInv` says that the copy of the only request in flight is the row and that what it has
checked still holds, so that a write-back of the whole row is a stutter and the one
decisive statement of a request a step of `AccessList`. For more workers it is false;
`BlockLasts` is the counterexample. `ConversationImplementsSharedList` is the refinement
that does not need `Workers`: `SeenInv` says of a request in flight what it has checked
of its own copy, which stays true because a copy does not change, and that the copy's
`last_message` is older than the message it writes; `ViewsLook`, that the copies of one
step are those of the step before and the row. With `IInv` each statement of a handler
then is one action of `SharedAccessList` on the version that the request holds.

**MessageReads.** `NotifiedOnce` from `NInv`: no two requests notify of the same
message, and neither a job nor a notification exists for those whom a request still has
to notify. `ReadByItsUser` from `Asked`, what a request in flight was asked for.
`AcknowledgedReads` from `Covers`: each message of the conversation that a request found
has a row, or is on the list of those it will create rows for, or its user has marked it
as unread since. `BadgeSettles` from `BInv`: if nothing is outstanding for a user, no
change, no job and no count, the badge shows what he has not read; the count in the hand
of the push worker is the right one unless a later job follows.

**MessagePages.** The pages are described by the positions they span. `Sorted` is the
only arrangement of a set of messages in their order, so a page is an interval of those
that the filter leaves (`SortedInterval`), counted from one of its ends (`Places`: in a
rising sequence an element's place is the number of those up to it), less what the loop
takes out, which keeps the order (`KeepIs`). `TInv` is the inductive invariant: messages
are stored in the order they were written, and the links are seconds of the ends of the
page that was shown. From it `PageInOrder`, and `NoRepeats`: with the second that is taken
or added, what the previous page shows is older than all of the page with the link
(`WholeSeconds`, `PreviousIsOlder`, `NextIsNewer`). `SpacedWalkComplete` from `WInv`: on
an undisturbed walk back, whatever has not been shown is before the first message of a
full page. Where messages are two seconds apart the whole second of the link cuts off
none of them (`BeforeIsAll`), and a page that is not full is the last.

**Credit.** `CodesCounted` from `CInv`: job ids are unique, which makes the row of a
reward one of its own. `RewardedOnce` and `ListensLimited` from `RInv`: what the only
worker checked when it took the job still holds when it grants the reward.
`PromotionsBounded` from `PInv`: the promotions of a shout and the requests past the
check are at most W in number, since a request that passes found no promotion.
`OverdraftBounded` from `OInv`: among the n requests of a user that are about to pay
there is one whose price the credit covers, but for what at most W - n others have taken
off it since. Its lemmas are about the sum over a finite set (what adding and removing
an element do to it), which is defined by a fold.

**ShoutIndexing** (`ShoutsInv`). `XInv(s)`: unless a change of s was lost or a request
still has to enqueue its job, the last index job of s in the queue, or else the one in
hand, or else the document, carries the row (or s is in `late`), and those that come to
index it carry item and tags. `MuteInv`: after a deactivation, the unmuted shouts that
are not still to be muted, and the requests that may write `is_muted = False`, together
are less than W.

**Accounts.** `DuplicatesBounded` from `DInv`, by counting: the users of an address and
the requests that found it free and are about to take it are at most W together;
likewise enabled tokens and requests about to make one. `LoginKept` from `KInv`: a
request that is about to delete a link knows of another way to sign in, unless another
is past the check for the other account. `ActivatedVerified` from `VInv`: each link that
arrived and still works went to the address its user has, or is about to be disabled, or
the user is among those excepted, and a request that is about to activate vouches for the
present address, or is to link an account, when the address goes to `assumed`.
`LinkDelivered` from `LInv`: whoever is to get a link has a mail, a request that will
enqueue one, or the link.

**Push** (`PushInv`), of which three parts move one at a time. *Pages* (`PagesInv`): who
is about to be removed is not the actor, who is an admin still or the page is contested
(`AdminKept`; with one worker `PagesKInv` says that he is still, for
`PushAdminKeptAlone`); the pages of an activated user are activated or on the list of a
request that will do it (`PagesFollow`). *Presence* (`PresenceInv`): `LastTells`: the last event
of a member that is still to be sent says whether he is online; `GInv` and `NInv` say,
where none is, what the tables hold and which events the webhooks in flight still have
to handle. *Devices* (`DInv`): a phone that no two requests register has at most one
device, of its owner (`PhoneHandedOn`); `DBInv` counts as above. *The queue* (`WInv`,
`PInv`): the jobs of one notification for a person have distinct versions, ids of devices
are never used again, and a device that was sent to is `Served`: the job of its version is
over, or has sent to its kind already. So a later job finds that the device has another
version, and the device it reads to send to is the one it found, but for those in
`substitutes` (`PushedOnce`).

### What the proofs changed

Proving found two properties false beyond the bounds of the run, which TLC confirmed on
larger instances. `PagesFollow` excepted pages as a whole, by which a second admin,
activated later, escaped: it now excepts pairs of a page and a user. `PushedOnce` spoke
of the user of the devices, and was false where one moves up between two jobs; it now speaks
of each device, which is what gets a push, and needs no exception there.

### Only model-checked

* *Liveness*: `NotificationsDelivered`, `PushesEnd`. TLAPS 1.4.5 does not do fairness.
* The properties with a counterexample in section 5, which are false.

## 5. Disagreements found

The first four are counterexamples of the runs marked as violated. The other two are
exceptions of properties that hold, `assumed` in `ActivatedVerified` and `stripped` in
`LoginKept`: without the exception TLC finds the property violated.

1. `models/message.py:394` writes back the whole conversation: a block (also a
   promotion, an unblock, a new subject) made while a message is being sent is undone.
2. `models/message.py:150` returns early: a notification that arrives after its
   message was read can only be cleared by reading a later message.
3. `message_views.py:232` removes from the list it iterates over.
4. `shoutit_credit/models/shout.py:203` pays before it promotes, with nothing to
   undo it; the transaction can then not be displayed.
5. `facebook_controller.py:174` and `gplus_controller.py:90` activate a user who links an
   account, whatever address that account has; `models/auth.py:97` says of `is_activated`
   "Designates whether this user have a verified email."
6. `api/v3/serializers/profile.py:418` looks whether the other account is still linked, and
   the row is deleted in a later statement: two requests for the one and the other account
   leave a user without a password with neither, whom line 396 was to tell "You must set your
   password first."

## 6. What is not modelled, and the plan

Not modelled:

* *Services outside the repository*: what Pusher, SendGrid, Facebook, Google, Twilio,
  APNS, GCM and Elasticsearch do beyond accepting or failing. Pusher sends a webhook
  again that was not answered; the models let it be lost for good, which is worse.
* *Code that keeps no state*: searching, location look-ups, Mixpanel, media, texts of
  notifications, the auth endpoint of Pusher, broadcasts.
* *State with one write*: likes, bookmarks, contacts, video clients, categories,
  verification of a business, OAuth's access tokens. A row and its removal, kept apart by
  a unique constraint or by nothing that matters.
* *API v2* calls the same controllers and models; the admin site and the commands are
  operated by hand.

Most of the lines of the repository are of these kinds, or are migrations, settings,
serializer fields and the docstrings that make up the API's documentation. The map
therefore covers a small share of them, though most of the code in which two requests,
or a request and a job, can meet.

What would come next: `conversation_exist` over several conversations, and the commands
`index_shouts` and `flush_index`, which write the index beside the worker.
