# A verification development for the AutoMinutes backend

AutoMinutes stores meetings and their transcripts, has a language model extract
attendees, action items and a summary from a transcript, and lets users edit the
outcome. The backend is a NestJS server over MongoDB. Every request is an async
handler; between two of its awaits any other request of the same or another
server process runs. The code uses no transaction and, but for the e-mail of an
account, no unique index, so what a handler read may be stale when it writes.

The modules in this directory model the requests at that granularity: **one
action per awaited database or network call**, with what the handler holds
between its calls kept in the state of the request. Paths below are relative to
`src/src/`; `README.md:n` is the repository's own README.

## 1. Inventory

| component | state | operations | hard behaviour |
|---|---|---|---|
| Meetings (`meetings/meetings.service.ts`) | `meetings`: owner, status, date | create, update, delete, `updateStatus`, lists | deletion in several calls; owner check long before the write it protects |
| Transcripts (same file) | `transcripts`: version, `isActive`, `createdAt` | upload, select, read the active one | the active flag is moved in two calls; a fallback to the newest when no flag is set |
| Attendees (`attendees/`) | `attendees`: meeting, e-mail, `aiGenerated` | add, update, delete, lookup by e-mail | uniqueness of e-mails by lookup-then-insert |
| Action items (`action-items/`) | `actionitems`: meeting, assignee, `aiGenerated` | create, update, delete | items loaded before a regeneration deletes them |
| AI processing (`ai/ai.service.ts`) | `airesults`, the meeting's status | generate, read results | status as a lock, keep-list read before it is used, `Promise.all` with early rejection, failing calls, process death |
| Email verification (`email-verification/`) | one code per user, attempts, send count | issue, resend, consume | cooldown and limits reset only by the TTL index; attempts read before a slow comparison |
| Password reset (`password-reset/`) | one token per user, send count | request, consume | find and delete in two calls |
| Accounts (`auth/auth.service.ts`, `users/users.service.ts`) | `users`: password hash, verified flag, provider | signup, verify, login, Google sign-in, change/set/reset password | sign-in by Google racing verification, stale hash overwritten |
| Account deletion (`users/users.resolver.ts`) | all collections | `deleteAccount` | a crash part way; requests that go on meanwhile |
| Avatars (`users/users.controller.ts`, `users/storage/`) | object store, `users.avatar` | upload | two uploads at once, orphaned objects |
| Queries and pagination | none | list, filter, page | positions that shift between pages, ties in the sort order, lists that must agree |
| Mail, guards, rate limiting, bootstrap, scripts | none | | no protocol of their own |

How they interact: every handler of the first four components reaches a document
through `MeetingsService.findMeeting`, which is scoped by owner. AI processing calls
the services of meetings, attendees and action items for the *verified* meeting
and shares their collections with user edits. Sign-up and the reset of passwords
call email verification and password reset, which send mail. Account deletion
walks over all collections.

What makes each correct:

* Meetings, attendees, items: only the owner's requests change a meeting's
  documents; e-mails are unique in a meeting; deleted documents stay deleted.
* Transcripts: one active version, the one chosen last; no version is ever lost.
* AI processing: the status tells the truth (`PROCESSING` while something runs,
  `COMPLETED` when there are results) and moves along its lifecycle; regenerating
  removes what was generated before, and only that; processing ends.
* Codes and links: limits hold up to the number of overlapping requests, the newest mail works, a
  spent link is refused, and no refusal of a code is for good.
* Accounts: a session means a verified account; a take-over by Google drops the password that
  an unverified sign-up claimed, and nothing else loses a password.
* Account deletion and avatars: a removal leaves nothing and takes nothing from others; the avatar
  a user has is stored, and images nobody has are not.
* Queries: users see what is theirs, lists agree, and turning pages neither skips nor repeats more
  than the changes made meanwhile explain.

## 2. Modules

| module | what it is |
|---|---|
| `MeetingRecords` | user edits of attendees, items, transcripts and meetings |
| `AiProcessing` | extends `MeetingRecords`: generations composed with those edits |
| `MeetingLifecycle` | the abstract specification of a meeting's status |
| `Transcripts` | the versions of one meeting in detail |
| `RecordQueries` | extends `MeetingRecords`: what the lists of items, assignees and attendees answer in each state |
| `AccountRequests` | what codes and links share: requests, time, expiry, limits |
| `EmailVerification`, `PasswordReset` | each extends `AccountRequests`: one stored code, one stored token |
| `Accounts` | extends both: one account, its passwords and its sessions |
| `AccountRemoval` | `deleteAccount` and avatars, with requests that go on meanwhile |
| `MeetingQueries` | a client that turns pages while meetings change |
| `MCMeetingRecords`, `MCAiProcessing`, `MCTranscripts`, `MCAccounts`, `MCAccountRemoval`, `MCMeetingQueries` | values of the constants for TLC |
| `MeetingRecordsProofs`, `RecordQueriesProofs`, `TranscriptsProofs`, `AccountsProofs`, `AccountRemovalProofs`, `MeetingQueriesProofs` | theorems about the module they are named after and their proofs |
| `AiProcessingProofs`, `SoloProofs` | theorems about `AiProcessing`: types and status, what regenerating wipes and keeps; identities of documents, and what holds for clients that await answers |

Definitions named `X_Something` next to a definition `X`, commented "Mutant", are
plausible bugs of `X`. Nothing uses them; putting one in the place of `X` must make
a property fail, and `PROJECT.json` says which.

### MeetingRecords

`meetingStatus`, `transcribed`, `attendees` and `actionItems` are the collections.
A document's id is `<<writer, n>>`, so that ids are fresh and say who
inserted them. `edit[e]` is a request: `at` is the call it awaits, the other
fields are what the handler keeps (`doc`, the new `value`, the value `was` that it
loaded, which decides what `save()` sends).

| code | actions |
|---|---|
| `createAttendee` | `AddAttendee`, `CheckEmail`, `InsertAttendee` |
| `updateAttendee` | `UpdateAttendee` (loads), `ScopeAttendee`, `CheckEmail`, `SaveAttendee` |
| `deleteAttendee` | `DeleteAttendee` (loads), `ScopeAttendee`, `RemoveAttendee` |
| `createActionItem` | `CreateActionItem`, `InsertActionItem` |
| `updateActionItem` | `UpdateActionItem`, `FindActionItem`, `SaveActionItem` |
| `deleteActionItem` | `DeleteActionItem`, `FindActionItem`, `RemoveActionItem` |
| `setTranscript` | `SetTranscript`, `StoreTranscript` |
| `deleteMeeting` | `DeleteMeeting`, `RemoveMeeting`, `RemoveTranscripts` |

Where the first await of a handler is `findMeeting`, sending the request and that
query are one action: nothing the handler holds can change before it.

Abstractions. An attendee is its e-mail and its flag, an item its assignee and its
flag; titles, names, roles, deadlines are left out because no condition reads them
(names matter in one place, see below). `assigneeId` is stored unchecked by
the code, and so it is here: `AssigneeIds` are the values clients send, which may be ids of attendees of any
meeting, of attendees made later or deleted, or of none. `updateMeeting` changes only
fields that are left out.

### AiProcessing

`at[p]` is the call a generation awaits; its stages follow the code:

    idle > accepted > ready > kept > itemsCleared > cleared      findMeeting ... clearAiResults
      > asking > upserting > filing > saving > completing        PROCESSING is written before asking
      > completed | failing > failed | stuck                     COMPLETED, or FAILED, or neither

`Window` is the stages between the two status writes. `upsert[p]` and `filed[p]` are
the tasks `Promise.all` waits for, each a small state machine of its own: `find`, `check
again`, `insert` for an attendee, `insert` for an item. They are not bound to the
stage of their generation: once one is rejected the generation moves to `failing`, and
the others go on in `AttendeeTask` and `ItemTask`. The model's answer is a sequence
of e-mails and, for each item, the index of the attendee its assignee's name
matches (0 for none). The code compares with the stored names, which users may
change; since `Responses` is any set, every outcome of `namesMatch` is the answer
of some model.

Faults: the calls named in `Faults` may fail (`model`: unreachable, error status, empty
or unparsable text; `attendee`, `item`, `results`: a rejected insert; `status`:
a rejected write of a status). The write of `COMPLETED` is inside the `try`, so that its
rejection leads to that of `FAILED`; the write of `FAILED` is not, so that after its own rejection (`FailFails`)
the meeting stays `PROCESSING` and the generation is `stuck`, while its other tasks go on. A rejected call
before the `try` leaves the same state as a process that dies there, with no task running yet, and is covered by
`Crash`, which ends a generation in `Mortal` at any await; `stranded` remembers that it died
inside `Window`.

`before[p]` is history: the generations of the meeting that were at rest when `p` was sent, that is answered or dead and
without a running task.

### Transcripts

Versions carry `isActive` and `createdAt`; `clock` orders creation, and the time is taken
where the driver takes it, before the insert is sent. A selection keeps `loaded`, the flag on its
copy, because `save()` sends a field only when it differs from what was loaded.
A reader is the two queries of `findTranscriptByMeetingId`. `wanted`, `alone` and
`valid` are history.

### RecordQueries

No state of its own: each query of `action-items.service.ts` and `attendees.service.ts` is an operator
of the collections, so that the properties compare what the lists show in every state two
overlapping edits can produce. A `findOne` is the set of documents it may return. An account
matches an attendee by `userId` (`Linked`) or by e-mail in any letter case (`Lower`), while the duplicate checks of
`MeetingRecords` compare e-mails exactly, as the code does. The text search and the range of
dates are left out, since they only narrow lists. The handlers of these queries await
several reads; that a list mixes two moments is modelled for pages (`MeetingQueries`) only.

### AccountRequests, EmailVerification, PasswordReset, Accounts

One e-mail address: the account (`user`, or none), its code, its token, and the browser's tokens in
`session`. Requests run in `Slots`, which are used again and again, so the number of requests is not
bounded. A request that is answered without having written anything is no step.

* *Time* counts down: a record holds how long its cooldown and its expiry still are, in units of
  the cooldown, and `Tick` ages both. The TTL index is `ReapCode` and `ReapToken`, which may
  come any time after expiry.
* *Codes and tokens* are names from a finite set; a new one is any name not stored, mailed or
  held by a request, which is what a code being random means here. A client types the code of its newest mail
  or a wrong one. `tried` counts the wrong guesses made at the stored code.
* *Passwords* are `claimed` (set by the sign-up), `chosen` (set later) or none. A comparison that fails
  ends a request, so only successful ones are steps.
* `disturbed` is history: requests overlapped, a mail failed or a process died. Properties of sequences
  of requests are conditional on it. `spent` and a request's `late` remember links that set a
  password and who came after.

| code | actions |
|---|---|
| `signup` | `Signup`, `CreateUser`, `ResendCode`, `IssueCode`, `MailCode` |
| `resendVerification` | `ResendVerification`, `ResendCode`, `IssueCode`, `MailCode` |
| `verifyEmail`, `consumeCode` | `VerifyEmail`, `FindCode`, `CountGuess`, `DropCode`, `MarkEmailVerified` |
| `forgotPassword`, `requestReset` | `ForgotPassword`, `RequestReset`, `IssueLink`, `MailLink` |
| `resetPassword`, `consumeToken` | `ResetPassword`, `FindToken`, `DropToken`, `SetPasswordHash` |
| `findOrCreateGoogleUser` | `GoogleCallback`, `AdoptUser`, `JoinUser` |
| `authenticate`, `refreshToken`, `logout` | `Login`, `Refresh`, `Logout`, `TokenExpires` |
| `changePassword`, `setPassword` | `ChangePassword`, `SetPassword`, `SavePassword` |

### AccountRemoval

`users`, `meetings`, `docs` (a kind and a meeting: only presence matters) and `images` are what is stored;
`avatar[u]` is the URL in the user's document. A key holds the user's id and the time in
milliseconds. A new one is any that is not stored, in use or held by a request, which is what the time
makes it; the comparison of the two keys (`users/users.controller.ts:65`) is part of `UpdateAvatar` and refuses nothing for that reason. `owner` keeps who created a meeting, also after it is gone. A user whose
account is removed may go on sending requests that ask only for a valid token or a stored meeting.
The three deletions of `Promise.all` are `Sweep`, in any order. `overlapped`, `failed` and `erased` (which image a removal has deleted of whose account) are history.

### MeetingQueries

`meetings` is the collection, `seen` the pages turned so far. A request is the read of the meetings that
have items (if only those are wanted), the page and the count, the last two in any order;
equal dates come in any order. The client, which is not part of the repository, asks for the next page until
one comes back short. `upset` is history: which meetings came, went or moved since
the walk began. Search and status narrow the list in the way of the range and are not modelled
separately. `updateMeeting` is its save: what it loads decides nothing that matters here.

## 3. Model checking

All runs are complete explorations. Requests that are sent at most once come to an end, and so do walks
over pages, so deadlock is not an error (`CHECK_DEADLOCK FALSE` in each configuration).

| run | bounds | shows |
|---|---|---|
| `records_concurrent` | 2 meetings of 2 owners, 2 edits of all 8 kinds, one may die | `OwnerScoped`, `SavesNeverInsert` under every interleaving of two requests; `ListsAreScoped`, `MineAgree` in every state they reach, with assignees named across meetings, an attendee linked by `userId` and two spellings of an address |
| `ai_concurrent` | 2 generations and 1 edit (new item or deletion), all faults, one death, fair | `TypeOK`, `StatusExplained`, `CompletedHasResults`, `RegenerationWipes`, `ManualRecordsKept`, `ProcessingEnds` under every interleaving |
| `ai_solo` | 2 generations and 2 edits in any order without overlap, 3 different answers, inserts of items that fail | `CompletedIsWhole`, `UniqueEmails`, `FailsOnlyOnFault`, `ManualAssigneesKept`, `TranscriptsGoWithMeeting` |
| `ai_lifecycle` | 2 meetings, 2 generations by clients that await answers, overlapping deletions, uploads and reassignments, failing inserts of items and writes of the status, one death | the status implements `MeetingLifecycle`; `FiledWithinMeeting` with an attendee of the other meeting whose e-mail the answers name |
| `transcripts` | 4 requests that may overlap and die, 1 reader anywhere | `NewChoiceShown`, `AtMostOneActive`, `SoloChoiceHeals`, `ReadsAreAsked`, `VersionsKept` |
| `verification` | 2 requests at a time, 2 guesses and 2 sends allowed, 4 codes, one slot may die | `GuessLimit`, `CodeSendLimit`, `NewestCodeWorks`, `SessionsAreVerified`, `ClaimDropped`, `PasswordKept`, `CodeReopens` |
| `passwords` | 2 requests at a time, 2 sends allowed, 6 tokens, one slot may die | `NewestLinkWorks`, `SpentLinkRefused` |
| `removal` | 2 users of whom one uploads, 1 meeting, 3 images, 2 requests at a time that may die, a store that fails | `AvatarStored`, `NoOrphanImages`, `RemovalIsComplete`, `UserGoesLast`, `OthersUntouched` |
| `queries` | up to 3 meetings on 3 dates and one of somebody else, pages of 1 and 2, 2 changes | `NothingSkipped`, `NothingRepeated`, `WalkIsWhole` |

Why the bounds are enough to be interesting. A race of this code is between a read
and a write of one handler and one write of another: two requests show it, a third
one (generation, edit) sees the consequence. Two e-mails suffice to tell equal from
different; an answer with two attendees and two items makes tasks overlap and lets one fail
while another is in flight. A regeneration needs two generations. Four
transcript requests allow creation, two uploads and a selection, or two that overlap, one that heals and a
deletion. Where `Slots` are reused there is no bound on how many requests are sent: the limits of the code (5 guesses, 5 sends)
are made smaller so that they are reached, and there are enough codes and tokens that a new one
is always there. Three images are the one stored and those of two overlapping uploads. A
deletion and a creation suffice to shift a page both ways.

`ai_solo` assumes clients that await their answers because its properties fail otherwise
(section 4), and the premises of `NewChoiceShown`, `AtMostOneActive`, `ReadsAreAsked`, and of the
properties that name `disturbed`, `overlapped` or `upset`, are there for the same reason: the others say what
remains true under overlap and faults.

The runs `ai_two_at_once`, `ai_reassigned` and `transcripts_reselect` end in a counterexample (section 4).

### Fairness

`FairSpec` asks weak fairness of `RunStep(p)` for each generation and of nothing else:
neither requests nor edits need ever be sent. The event loop runs every continuation
that is ready; a database call answers or fails; `fetch` to the model has no time limit in the
code, but the HTTP client under it gives up after its default timeout, which is `ModelFails`.
Fairness is for the generation as a whole: its tasks end in finitely many steps. A
process that dies takes no further step and a generation whose write of `FAILED` was rejected is over; `ProcessingEnds` excepts the
meetings of such generations.

`Accounts!FairSpec` asks that time passes (`Tick`) and that the TTL index runs (`ReapCode`, `ReapToken`;
MongoDB's reaper runs every minute). Nothing is asked of clients, and requests in flight need never end: `CodeReopens`
holds although processes die. Without the index it fails, which is what its mutant shows: the comment that it is "garbage collection only"
(`email-verification/schemas/email-verification.schema.ts:31`) is right about expiry and not about `sendCount`.

## 4. Where the code and its documents disagree

Each of the following is a run whose property states what the repository says.

* `ai_two_at_once`: the status is read (`ai/ai.service.ts:97`) two queries and two deletions
  before it is written (line 105), so two generations run at once.
* `ai_reassigned`: `updateActionItem` does not touch `aiGenerated`, so an item a user
  reassigned is deleted by the next generation, against `README.md:19`.
* `transcripts_reselect`: selecting the version that is active clears its flag, and the `save()` of
  a copy that was loaded active writes nothing: the newest version is shown instead.

Further limits, found by giving the same modules other constants or by dropping a premise:

* Only the handler that wrote `PROCESSING` leaves it. If its process dies, or its write of `FAILED` is rejected
  (`ai/ai.service.ts:112`, outside the `try`), every later request is
  refused for good (`ProcessingEnds` without its exception).
* `Promise.all` rejects first and its other inserts land later, possibly after the next generation has
  cleared, against `README.md:19`. `RegenerationWipes` and `CompletedIsWhole` therefore speak of generations whose last task has ended.
* No handler looks for the attendee an `assigneeId` names (`action-items/action-items.service.ts:127`, `:148`). A user who sends the id of somebody
  else's attendee is shown that attendee with the item (`ListsAreScoped` says that nobody else is), and an id that finds none shows none.
* `UniqueEmails` fails when additions overlap (`SoloEdits = FALSE`), and in a single generation
  whose answer names an e-mail twice; in another order that answer makes the duplicate
  check reject and the generation fail.
* `ManualAssigneesKept` fails when an item is added between the collection of keep-ids
  and the deletion of attendees. It speaks of assignees of the item's own meeting: keep-ids are collected per meeting, so
  regenerating a meeting removes an AI-made attendee whom only a manual item of another meeting names.
* `AtMostOneActive` without its premise fails for two overlapping uploads.
* `ReadsAreAsked` without its premise fails: once an older version has been selected, a reader in the gap
  of the next upload or selection falls back to the newest version.
* Deleting a meeting leaves its attendees, items and results
  (`meetings/meetings.service.ts:136` notes that it should not), and an upload whose owner check
  came before the deletion stores a transcript after it.
* Overlapping resends, or a guess that deletes the record while a new code is issued, leave the
  newest mail without a code that works (`NewestCodeWorks` without its premise); the same holds for links.
* Two requests that both find a reset token before either deletes it both set a password, although the
  second is meant to hear that the link "has already been used" (`password-reset/password-reset.service.ts:101`).
* A sign-in by Google that found the account before it was verified by code drops the
  password of an account that is verified by then (`PasswordKept` without its premise).
* `changePassword` saves over a password that was reset while it compared, and of two `setPassword` both succeed.
* Requests that overlap the removal of their account leave documents no request can reach, and a token that outlives the
  account can still create a meeting without an owner (`RemovalIsComplete`, `UserGoesLast` without their premises). A removal that dies
  after its meetings are deleted leaves their attendees, items and results for good: the second try does not find their ids.
* Two avatar uploads that overlap, or one that dies, leave an image nobody has. A removal that dies after it deleted the
  avatar (`users/users.resolver.ts:83`) leaves a user whose avatar is missing, until the next upload or the next try.
* Meetings with equal dates may be repeated or skipped from page to page. Of the others, one may be skipped when
  another goes and repeated when another comes while the pages are turned (`NothingSkipped` and `NothingRepeated` with the premises exchanged). A client that stops by `totalCount` instead of a short page may miss
  a meeting: the count may be older than the page.
* The page of a meeting shows the items of one attendee of the meeting who is the user, the list of all meetings those of
  each of anywhere. They differ where the user is several attendees of a meeting - by `userId` and e-mail, by two spellings of the
  address, which the exact duplicate check tells apart (`attendees/attendees.service.ts:35`), or by two overlapping additions - and where an
  item is assigned to an attendee of another meeting who is the user.
* A process that dies between the deletions and the write of `PROCESSING` leaves a meeting
  `COMPLETED` whose items are gone.

## 5. Proofs

TLAPS proves for all values of the constants, so for any number of
meetings, users, requests, answers, limits and periods:

| theorem | module | states |
|---|---|---|
| `RecordsTyped` | `MeetingRecordsProofs` | `RecordsSpec => []RecordsTypeOK` |
| `OwnerScopedHolds` | | `RecordsSpec => OwnerScoped` |
| `SavesInsertNothing` | | `RecordsSpec => SavesNeverInsert` |
| `ListsAreScopedHolds` | `RecordQueriesProofs` | `RecordsSpec => []ListsAreScoped` |
| `MineAgreeHolds` | | `RecordsSpec => []MineAgree` |
| `Typed` | `AiProcessingProofs` | `Spec => []TypeOK` |
| `StatusIsExplained` | | `Spec => []StatusExplained` |
| `CompletedShowsResults` | | `Spec => []CompletedHasResults` |
| `WipedStaysWiped` | | `Spec => []RegenerationWipes` |
| `ManualIsKept` | | `Spec => ManualRecordsKept` |
| `FiledWithin` | `SoloProofs` | `Spec => []FiledWithinMeeting` |
| `AssigneesKept` | | `SoloEdits => (Spec => ManualAssigneesKept)` |
| `TranscriptsGo` | | `SoloEdits`, no edit dies: `Spec => []TranscriptsGoWithMeeting` |
| `EmailsStayUnique` | | `MergeAssumed => (Spec => []UniqueEmails)` |
| `NoFaultNoFailure` | | `MergeAssumed => (Spec => []FailsOnlyOnFault)` |
| `FollowsLifecycle` | | `SoloRuns => (Spec => LifecycleSpec)`, the refinement |
| `CompletedAreWhole` | | `WholeAssumed => (Spec => []CompletedIsWhole)` |
| `TranscriptsTyped` | `TranscriptsProofs` | `Spec => []TypeOK` |
| `VersionsAreKept` | | `Spec => VersionsKept` |
| `AtMostOneIsActive` | | `Spec => []AtMostOneActive` |
| `SoloChoiceHealsIt` | | `Spec => []SoloChoiceHeals` |
| `NewChoiceIsShown` | | `Spec => []NewChoiceShown` |
| `ReadsAreWhatWasAsked` | | `Spec => []ReadsAreAsked` |
| `AccountsTyped` | `AccountsProofs` | `Spec => []TypeOK` |
| `GuessLimitHolds` | | `Spec => []GuessLimit` |
| `CodeSendLimitHolds` | | `Spec => []CodeSendLimit` |
| `SessionsAreVerifiedHolds` | | `Spec => []SessionsAreVerified` |
| `ClaimDroppedHolds` | | `Spec => []ClaimDropped` |
| `SpentLinkRefusedHolds` | | `Spec => []SpentLinkRefused` |
| `NewestCodeWorksHolds` | | `Spec => []NewestCodeWorks` |
| `NewestLinkWorksHolds` | | `Spec => []NewestLinkWorks` |
| `PasswordIsKept` | | `Spec => PasswordKept` |
| `RemovalTyped` | `AccountRemovalProofs` | `Spec => []TypeOK` |
| `OthersUntouchedHolds` | | `Spec => OthersUntouched` |
| `UserGoesLastHolds` | | `Spec => []UserGoesLast` |
| `AvatarStoredHolds` | | `Spec => []AvatarStored` |
| `NoOrphans` | | `Spec => []NoOrphanImages` |
| `RemovalsAreComplete` | | `Spec => []RemovalIsComplete` |
| `WalkHolds` | `MeetingQueriesProofs` | `Spec => []WalkInv` |
| `NothingSkippedHolds` | | `Spec => []NothingSkipped` |
| `NothingRepeatedHolds` | | `Spec => []NothingRepeated` |
| `WalkIsWholeHolds` | | `Spec => []WalkIsWhole` |

### Assumptions

`RecordsAssumption`, `AiAssumption`, `TranscriptsAssumption`, `RequestsAssumption`,
`CodesAssumption`, `TokensAssumption`, `AccountsAssumption`, `RemovalAssumption` and `QueriesAssumption` are evaluated
by TLC in the runs of their modules. They say that the constants have the right types, that `Null` is none
of the values, that an answer's items refer to its attendees, that finitely many requests run at once and a user has finitely
many meetings, and of the
documents stored at first what the database and the earlier use of the same code guarantee: finitely many, ids
(`_id`) that differ, made by none of the requests to come. Items stored at first may be assigned to anybody. An attendee
is linked to at most one user.

Six theorems of `SoloProofs` are conditional, because what they state fails otherwise (section 4):

* `SoloRuns`, `SoloEdits`: clients await an answer before they send the next request. `TranscriptsGo` also needs that no edit
  dies (`Mortal \cap Edits = {}`): a deletion that does leaves the transcripts.
* `MergeAssumed` adds that inserting an attendee does not fail, that the model names no e-mail twice in an answer
  (`DistinctAnswers`; one that does makes two tasks insert it), and that the attendees stored at first have
  different e-mails.
* `WholeAssumed` assumes awaiting clients, no dying generation, and no user who deletes an attendee or an
  item, since a `COMPLETED` meeting then shows less than the answer for that reason. All calls may fail.

`ai_solo` is an instance of all of them, `ai_lifecycle` one of `SoloRuns` with edits that overlap generations, deaths and rejected inserts.

### Inductive invariants

* *Types.* `RecordsTypeOK` is not inductive: a write uses `doc` and `meeting`, which are
  optional fields. `EditShape` says which are present at each stage. For
  generations `RunsShape` adds that an idle one has no task, that a started one has a
  meeting, and that tasks and answer have the same length and refer to each other. The type
  invariants of `Transcripts`, `Accounts` and `AccountRemoval` are proved and therefore not run.
* *Identity and scope of documents.* An id is `<<writer, n>>`, used once: `Integrity` follows it from the insert
  to every request that holds it (`EditMade`), so that ids are unique, what a request loaded has the
  meeting its owner check was made on, and no later document takes an id that was used. `OwnerScoped`, the lists and
  `SavesNeverInsert` (a save replaces one document of one id or none) rest on it.
* *Lists.* Items and attendees are listed by meetings the user owns. `AskedInv`: the assignee of an item is an id its owner sent, or the
  item had at first; an update that is about to be saved holds the id its own user sent, and `Integrity` says that the item it
  saves to is of a meeting of that user. `MineAgree` follows from the two lookups: where the page shows less, its attendee and another one match the user.
* *Status.* `StatusExplained` is inductive with the types: `SetStatus` writes `PROCESSING` only
  with the step into `Window`, and every step out of it writes another status, or strands the
  generation or leaves it stuck. With several generations of one meeting in `Window`, the
  one that ends overwrites the status of the others; the invariant is an implication for that reason.
* *Results.* `ResultsSaved`: a generation that is `completing` has stored its results, which
  nothing removes.
* *Wiping.* A task could store a record of an earlier generation after a later one
  has cleared, and does if the earlier one failed and was not at rest. For those that were,
  `Joined` (no task is left once `Promise.all` has resolved), `BeforeAtRest` (what is at rest stays so)
  and `RunsMakeAi` (what generations store is AI-made, so the deletion
  matches it) make `RegenerationWipes` inductive.
* *Manual records.* The deletions filter by the flag; edits are excluded because each
  changes `edit` (`GotoMoves`, `EditMoves`).
* *Tasks.* `RunIdentities` is `Integrity` for generations: an attendee or item of one is what its task stored, and an item
  is filed with the attendee its task's predecessor returned, of the same meeting. `FiledSound` adds that the assignee of a filed item nobody
  reassigned is such an id, so that no document made later can turn it into an attendee of another meeting.
* *Keep-list.* `KeptInside`: until the attendees are cleared, the assignees of the meeting's manual items are in `keep`. It needs that no edit
  runs meanwhile (`EditTurns`), not that generations take turns.
* *Merging.* `MergeInv` follows the lookup to the insert: between them nobody else inserts, so an e-mail found free is free
  (`TasksInside`, `EmailsFree`). Two tasks of one generation have different e-mails. Hence no duplicate check rejects.
* *Refinement.* The job of a meeting is the generation between its two status writes. `Claimed` and `RunTurns` make it unique, so that
  `JobOf` chooses it; each of the two writes is an action of `MeetingLifecycle`, a deletion its `Delete`, a death
  a stutter, and every other step leaves status and job alone.
* *Whole results.* `WholeAt`: but for the moment between the clearing and the write of `PROCESSING`, a `COMPLETED` meeting is shown whole by its last generation;
  `Preceded` orders generations, `Stored` says that what one in flight has stored and filed is there, with every assignee it chose. That
  nothing of the earlier ones is left is the invariant of *Wiping*.
* *Versions.* `Sound` relates the version a request holds to its stage. `SoloInv`: without overlap one request is open, and
  between its two writes none is active. `HealInv` says of the request sent last that it ran alone, whatever was left
  before. `ChoiceInv` says that between requests the active version is the wanted one, and `ReadInv` that a reader who found none active is
  in the gap of an upload, whose newest version is the wanted one or the one uploaded.
* *Guesses.* That `tried` exceeds the limit by the overlap only is not inductive: it says nothing of the
  guesses that have been compared and not yet counted. `GuessInv` counts them: with `Guessers` the requests that found
  the stored code and still have to count their guess, `Cardinality(Guessers) <= tried <= attempts +
  Cardinality(Guessers)`. A request becomes a guesser only while `attempts` is below the limit, and the
  increment moves one guess from the second term to the first.
* *Sends.* `SendInv` bounds the sends recorded plus the requests that passed the check and are about to
  issue by `MAX_CODES + Cardinality(Slots) - 1`; an issue turns one of the latter into one of the former, or
  starts the count again.
* *Sessions.* `SessionInv` is the conjunction of the two properties: an account never becomes unverified while it is
  stored, and each way to a token goes through the flag.
* *Spent links.* `SpentInv`: the token that set a password last is stored no more, nor is the token of a request that came after it or is about to
  set a password; so a late request finds nothing. A new link differs from all of them, because a new token differs from everything known.
* *Newest code and link.* `SerialInv` (`InOrder`): what is stored is in the newest mail, or held by the one request that is about
  to mail it. It also says that without overlap only an unverified account is being adopted, which is `PasswordKept`.
* *Removal of others' documents.* `Scoped`: the ids that a removal holds are those of meetings its user created, which
  stays so because the creator of a meeting never changes.
* *Order of a removal.* `SerialInv`, for requests that did not overlap: one is in flight, its user is stored, the ids a
  removal found cover the meetings of its user, and none is left once they have been deleted. So the
  user is the last to go. `DocumentsInv` adds that a document without a meeting is one that the removal in flight still deletes.
* *Avatars.* `AvatarInv`: an image stored for an upload that has not updated the user yet is nobody's avatar (`Fresh`), and the image a
  request is going to delete is the avatar of nobody but its own user, and after the update of nobody at all (`Private`). An upload's image leaves `erased` when it is stored,
  so a missing avatar is always one that its own user's removal deleted. `ImagesInv` counts, without overlap, the images on their way.

* *Walks.* What was shown says nothing of the pages to come; how many meetings are listed before one does (`Ahead`). `SkipInv`: while
  nothing goes, a meeting listed all along and not shown yet has at least `Position` meetings before it, which is where the next page
  starts; what comes only adds to them. `RepeatInv`: while nothing comes, a meeting shown has fewer, and what goes only
  takes some away. So the next page, cut at `Position`, leaves out none of the former and holds none of the latter.
  `SortedIs` says that without equal dates `Ahead` of the i-th of a sorted list has i - 1 members,
  `PageIs` which of them `SkipLimit` cuts out. `Found` is about the two reads of a request with `hasTodos`: the ids found first cover what has been
  listed all along. `WholeInv` adds, until something changes, the order of what was shown and the count; the first change ends it.

### Only model-checked

`ProcessingEnds` and `CodeReopens`: liveness stays with TLC, the installed provers handle neither fairness nor
`ENABLED`. Every other property of the passing runs is a theorem, some under the assumptions above.

## 6. Plan

1. *Done:* `MeetingRecords`, `AiProcessing` with `MeetingLifecycle`, `Transcripts`; `EmailVerification`,
   `PasswordReset` and `Accounts`; `AccountRemoval`; `RecordQueries` and `MeetingQueries`; theorems for every safety
   property the runs check.
2. Composition of `AccountRemoval` with `AiProcessing`: a generation that runs while its meeting's account is removed.

## 7. Not modelled

Bootstrap and configuration (wiring) and the one-off scripts (run by hand on an idle database; the seed script stores
meetings that are `PROCESSING` without a generation, which later requests find refused). Mail transport and
templates, token signing, rate limiting by address, prompts and the parsing of answers beyond success and
failure are library calls or wording. `updateProfile` changes names only. Of the queries, the text search
is abstracted as said above.
