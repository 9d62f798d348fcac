---------------------------- MODULE AccountRemoval -----------------------------
(***************************************************************************)
(* Removing an account with all it owns (deleteAccount), the avatars in    *)
(* the object store, and the requests that go on meanwhile.  A request     *)
(* needs a valid access token, which outlives the account; nothing else    *)
(* tells createMeeting that its owner is gone.                             *)
(***************************************************************************)
EXTENDS Naturals, FiniteSets

CONSTANTS
  Users, Meetings,   \* meetings are created at most once: ids are fresh
  Images,            \* bound: the keys in use at once; a new key has the user and the
                     \* time in it and is no other's
  Slots,             \* requests in flight at once
  Uploaders,         \* bound: the users that upload avatars
  AddedKinds,        \* kinds of documents that users add to a meeting
  Mortal,            \* slots whose process may die between two calls
  StorageFails,      \* TRUE: the object store may reject a call
  External,          \* the URL of a picture that Google hosts
  Null

Kinds == {"attendee", "item", "result", "transcript"}

ASSUME RemovalAssumption ==
  /\ AddedKinds \subseteq Kinds /\ Uploaders \subseteq Users
  /\ Mortal \subseteq Slots
  /\ StorageFails \in BOOLEAN
  /\ {Null, External} \cap (Users \cup Meetings \cup Images) = {}

VARIABLES
  users,        \* the users stored
  avatar,       \* the URL of a user's avatar, as the image it refers to; Null for none
  owner,        \* the owner a meeting was created with; Null: not created yet
  meetings,     \* the meetings stored
  docs,         \* the documents stored about meetings
  images,       \* the images stored
  req,          \* what each request awaits and holds
  overlapped,   \* history: requests have overlapped, or outlived their account
  failed,       \* history: a process died, or the object store failed
  erased        \* history: <<user, image>>: images deleted by a removal of the user's account

data == <<users, avatar, owner, meetings, docs, images>>
vars == <<data, req, overlapped, failed, erased>>

Document == [kind : Kinds, meeting : Meetings]
Request == [at : {"idle", "transcribing", "adding", "uploading", "updating", "cleaning", "listing",
                  "clearing", "untranscribing", "sweeping", "unhosting", "removing"},
            user : Users \cup {Null},
            meeting : Meetings \cup {Null},
            image : Images \cup {Null},     \* the avatar to delete in the end
            new : Images \cup {Null},       \* the image uploaded
            kinds : SUBSET Kinds,           \* the deletions or insertions in flight
            ids : SUBSET Meetings]          \* the meetings to remove

Idle == [at |-> "idle", user |-> Null, meeting |-> Null, image |-> Null, new |-> Null,
         kinds |-> {}, ids |-> {}]

Init ==
  /\ users = Users /\ avatar = [u \in Users |-> External]
  /\ owner = [m \in Meetings |-> Null] /\ meetings = {} /\ docs = {}
  /\ images = {}
  /\ req = [r \in Slots |-> Idle]
  /\ overlapped = FALSE /\ failed = FALSE /\ erased = {}

Quiet == \A r \in Slots : req[r].at = "idle"
Of(ids, kinds) == {d \in docs : d.meeting \in ids /\ d.kind \in kinds}
\* Mutant: R2_PUBLIC_URL is not the prefix of the URLs.
KeyFromUrl_None(a) == Null
KeyFromUrl(a) == IF a \in Images THEN a ELSE Null
Owned(u) == {m \in Meetings : owner[m] = u}

Send(r, q) ==
  /\ req[r].at = "idle"
  /\ req' = [req EXCEPT ![r] = q]
  /\ overlapped' = (overlapped \/ ~Quiet \/ q.user \notin users)
  /\ UNCHANGED <<failed, erased>>

Await(r, where) == req' = [req EXCEPT ![r].at = where] /\ UNCHANGED <<overlapped, erased>>
Answer(r) == req' = [req EXCEPT ![r] = Idle] /\ UNCHANGED <<overlapped, erased>>

(***************************************************************************)
(* Requests that add                                                       *)
(***************************************************************************)
\* The meeting, and then its transcript if there is one.
CreateMeeting(r, u, m) ==
  /\ owner[m] = Null
  /\ owner' = [owner EXCEPT ![m] = u] /\ meetings' = meetings \cup {m}
  /\ \E ks \in SUBSET {"transcript"} :
       Send(r, [Idle EXCEPT !.at = "transcribing", !.user = u, !.meeting = m, !.kinds = ks])
  /\ UNCHANGED <<users, avatar, docs, images>>

\* Every other insertion begins with findMeeting.
AddDocument(r, u, m, k) ==
  /\ m \in meetings /\ owner[m] = u
  /\ Send(r, [Idle EXCEPT !.at = "adding", !.user = u, !.meeting = m, !.kinds = {k}])
  /\ UNCHANGED data

Inserted(q) == [kind : q.kinds, meeting : {q.meeting}]

InsertDocument(r) ==
  /\ req[r].at \in {"transcribing", "adding"}
  /\ docs' = docs \cup Inserted(req[r])
  /\ Answer(r)
  /\ UNCHANGED <<users, avatar, owner, meetings, images, failed>>

(***************************************************************************)
(* Avatars                                                                 *)
(***************************************************************************)
\* uploadAvatar: findById, for the avatar that the new one replaces.
UploadAvatar(r, u) ==
  /\ u \in users \cap Uploaders
  /\ Send(r, [Idle EXCEPT !.at = "uploading", !.user = u, !.image = KeyFromUrl(avatar[u])])
  /\ UNCHANGED data

InUse == images \cup {avatar[u] : u \in Users} \cup UNION {{req[s].image, req[s].new} : s \in Slots}

StoreImage(r) ==
  /\ req[r].at = "uploading"
  /\ \/ \E i \in Images \ InUse :
          /\ images' = images \cup {i}
          /\ req' = [req EXCEPT ![r].at = "updating", ![r].new = i]
          /\ erased' = {e \in erased : e[2] # i}
          /\ UNCHANGED <<overlapped, failed>>
     \/ StorageFails /\ failed' = TRUE /\ Answer(r) /\ UNCHANGED images
  /\ UNCHANGED <<users, avatar, owner, meetings, docs>>

UpdateAvatar(r) ==
  LET q == req[r] IN
  /\ q.at = "updating"
  /\ IF q.user \in users
     THEN /\ avatar' = [avatar EXCEPT ![q.user] = q.new]
          /\ IF q.image # Null /\ q.image # q.new THEN Await(r, "cleaning") ELSE Answer(r)
     ELSE UNCHANGED avatar /\ Answer(r)
  /\ UNCHANGED <<users, owner, meetings, docs, images, failed>>

\* Mutant: the new image is deleted in place of the one it replaces.
Superseded_New(q) == q.new
Superseded(q) == q.image

\* A failure of the object store to delete is only logged.
DeleteImage(i) ==
  \/ images' = images \ {i} /\ UNCHANGED failed
  \/ StorageFails /\ failed' = TRUE /\ UNCHANGED images

CleanAvatar(r) ==
  /\ req[r].at = "cleaning"
  /\ DeleteImage(Superseded(req[r]))
  /\ Answer(r)
  /\ UNCHANGED <<users, avatar, owner, meetings, docs>>

(***************************************************************************)
(* deleteAccount                                                           *)
(***************************************************************************)
\* Mutant: removes the user first.
DeleteAccount_UserFirst(r, u) ==
  /\ u \in users
  /\ Send(r, [Idle EXCEPT !.at = "listing", !.user = u, !.image = KeyFromUrl(avatar[u])])
  /\ users' = users \ {u}
  /\ UNCHANGED <<avatar, owner, meetings, docs, images>>

\* findById.
DeleteAccount(r, u) ==
  /\ u \in users
  /\ Send(r, [Idle EXCEPT !.at = "listing", !.user = u, !.image = KeyFromUrl(avatar[u])])
  /\ UNCHANGED data

ListMeetings(r) ==
  /\ req[r].at = "listing"
  /\ req' = [req EXCEPT ![r].at = "clearing", ![r].ids = meetings \cap Owned(req[r].user)]
  /\ UNCHANGED <<data, overlapped, failed, erased>>

RemoveMeetings(r) ==
  /\ req[r].at = "clearing"
  /\ meetings' = meetings \ req[r].ids
  /\ Await(r, "untranscribing")
  /\ UNCHANGED <<users, avatar, owner, docs, images, failed>>

RemoveTranscripts(r) ==
  /\ req[r].at = "untranscribing"
  /\ docs' = docs \ Of(req[r].ids, {"transcript"})
  /\ req' = [req EXCEPT ![r].at = "sweeping", ![r].kinds = {"attendee", "item", "result"}]
  /\ UNCHANGED <<users, avatar, owner, meetings, images, overlapped, failed, erased>>

\* Mutants: an empty list of ids means no filter; documents are found by the
\* meetings that are still stored.
Swept_All(ids, k) == {d \in docs : d.kind = k /\ (ids = {} \/ d.meeting \in ids)}
Swept_Stored(ids, k) == Of(ids \cap meetings, {k})
Swept(ids, k) == Of(ids, {k})

\* The three deletions of Promise.all, in any order.
Sweep(r) ==
  LET q == req[r] IN
  /\ q.at = "sweeping"
  /\ \E k \in q.kinds :
       /\ docs' = docs \ Swept(q.ids, k)
       /\ req' = [req EXCEPT ![r].kinds = @ \ {k},
                             ![r].at = IF q.kinds # {k} THEN @
                                       ELSE IF q.image # Null THEN "unhosting" ELSE "removing"]
  /\ UNCHANGED <<users, avatar, owner, meetings, images, overlapped, failed, erased>>

RemoveAvatar(r) ==
  /\ req[r].at = "unhosting"
  /\ DeleteImage(req[r].image)
  /\ req' = [req EXCEPT ![r].at = "removing"]
  /\ erased' = erased \cup {<<req[r].user, i>> : i \in {req[r].image} \ images'}
  /\ UNCHANGED <<users, avatar, owner, meetings, docs, overlapped>>

RemoveUser(r) ==
  /\ req[r].at = "removing"
  /\ users' = users \ {req[r].user}
  /\ Answer(r)
  /\ UNCHANGED <<avatar, owner, meetings, docs, images, failed>>

Lose(r) ==
  /\ r \in Mortal /\ req[r].at # "idle"
  /\ failed' = TRUE
  /\ Answer(r)
  /\ UNCHANGED data

(***************************************************************************)
(* Specification                                                           *)
(***************************************************************************)
Next ==
  \E r \in Slots :
    \/ \E u \in Users :
         \/ UploadAvatar(r, u) \/ DeleteAccount(r, u)
         \/ \E m \in Meetings :
              CreateMeeting(r, u, m) \/ \E k \in AddedKinds : AddDocument(r, u, m, k)
    \/ InsertDocument(r) \/ StoreImage(r) \/ UpdateAvatar(r) \/ CleanAvatar(r)
    \/ ListMeetings(r) \/ RemoveMeetings(r) \/ RemoveTranscripts(r) \/ Sweep(r)
    \/ RemoveAvatar(r) \/ RemoveUser(r) \/ Lose(r)

Spec == Init /\ [][Next]_vars
-------------------------------------------------------------------------------
(***************************************************************************)
(* Properties                                                              *)
(***************************************************************************)
\* Type invariant.
TypeOK ==
  /\ users \subseteq Users /\ avatar \in [Users -> Images \cup {Null, External}]
  /\ owner \in [Meetings -> Users \cup {Null}]
  /\ meetings \subseteq Meetings /\ docs \subseteq Document /\ images \subseteq Images
  /\ req \in [Slots -> Request]
  /\ {overlapped, failed} \subseteq BOOLEAN /\ erased \subseteq Users \X Images

\* However uploads and removals overlap, die and fail, the avatar of every user
\* is an image that is there: an upload deletes only an image that another had
\* replaced before (users.controller.ts:55-65).  The one image that may be
\* missing is one that a removal of this very account deleted before it died
\* (users.resolver.ts:83); an image uploaded since is there.
AvatarStored ==
  \A u \in users : avatar[u] \in Images \ images => <<u, avatar[u]>> \in erased

\* Without overlap and failures no image is orphaned: the previous one goes with
\* each upload and the last one with the account (README.md:34,
\* users.controller.ts:62, users.resolver.ts:82-83).
NoOrphanImages ==
  ~overlapped /\ ~failed /\ Quiet => images = {avatar[u] : u \in users} \cap Images

\* Nor does a removed account leave a document of any kind behind
\* (users.resolver.ts:75-85).
RemovalIsComplete ==
  ~overlapped /\ ~failed => \A u \in Users \ users : Owned(u) \cap meetings = {} /\ Of(Owned(u), Kinds) = {}

\* The user goes last: wherever removals die, and however often they are tried
\* again, as long as requests do not overlap there is no meeting whose owner is gone.
UserGoesLast == ~overlapped => \A m \in meetings : owner[m] \in users

\* Whatever overlaps or dies, a document or a meeting disappears only while the
\* account of its own owner is being removed (meetings.service.ts:186-195).
OthersUntouched ==
  [][\A m \in Meetings :
       \/ Of({m}, Kinds) \subseteq docs' /\ (m \in meetings => m \in meetings')
       \/ \E r \in Slots : req[r].user = owner[m]
            /\ req[r].at \in {"clearing", "untranscribing", "sweeping"}]_vars
===============================================================================
