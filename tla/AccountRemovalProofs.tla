------------------------- MODULE AccountRemovalProofs -------------------------
(***************************************************************************)
(* Proofs about AccountRemoval, for every set of users, meetings, images   *)
(* and requests in flight.                                                 *)
(***************************************************************************)
EXTENDS AccountRemoval, TLAPS

Stages == {"idle", "transcribing", "adding", "uploading", "updating", "cleaning", "listing",
           "clearing", "untranscribing", "sweeping", "unhosting", "removing"}

\* A request under way knows its user, and what the call it awaits needs.
WellFormed(q) ==
  q.at # "idle" =>
    /\ q.user \in Users
    /\ q.at \in {"transcribing", "adding"} => q.meeting \in Meetings
    /\ q.at = "updating" => q.new \in Images
    /\ q.at = "unhosting" => q.image \in Images

\* The meetings a removal deletes, with all that is about them, are its user's.
Deleting(q) == q.at \in {"clearing", "untranscribing", "sweeping"}
Scoped == \A r \in Slots : Deleting(req[r]) => \A m \in req[r].ids : owner[m] = req[r].user

TypeInv == TypeOK /\ \A r \in Slots : WellFormed(req[r])
IInv == TypeInv /\ Scoped

\* A request that becomes another one leaves all of them well-formed.
LEMMA Becomes ==
  ASSUME TypeInv, NEW r \in Slots, NEW q \in Request, WellFormed(q),
         req' = [req EXCEPT ![r] = q]
  PROVE  req' \in [Slots -> Request] /\ \A s \in Slots : WellFormed(req'[s])
BY DEF TypeInv, TypeOK

LEMMA Sends ==
  ASSUME TypeInv, NEW r \in Slots, NEW q \in Request, WellFormed(q), Send(r, q)
  PROVE  /\ req' \in [Slots -> Request] /\ \A s \in Slots : WellFormed(req'[s])
         /\ {overlapped', failed'} \subseteq BOOLEAN /\ erased' \subseteq Users \X Images
<1>1. req' = [req EXCEPT ![r] = q]  BY DEF Send
<1>2. overlapped' \in BOOLEAN  BY DEF Send, TypeInv, TypeOK
<1> QED  BY <1>1, <1>2, Becomes DEF Send, TypeInv, TypeOK

LEMMA Answers ==
  ASSUME TypeInv, NEW r \in Slots, Answer(r)
  PROVE  /\ req' \in [Slots -> Request] /\ \A s \in Slots : WellFormed(req'[s])
         /\ overlapped' \in BOOLEAN /\ erased' \subseteq Users \X Images
<1>1. Idle \in Request /\ WellFormed(Idle)  BY DEF Idle, Request, WellFormed
<1> QED  BY <1>1, Becomes DEF Answer, TypeInv, TypeOK

LEMMA Awaits ==
  ASSUME TypeInv, NEW r \in Slots, NEW s \in Stages \ {"transcribing", "adding", "updating", "unhosting"},
         req[r].at # "idle", Await(r, s)
  PROVE  /\ req' \in [Slots -> Request] /\ \A t \in Slots : WellFormed(req'[t])
         /\ overlapped' \in BOOLEAN /\ erased' \subseteq Users \X Images
<1> DEFINE q == [req[r] EXCEPT !.at = s]
<1>1. req[r] \in Request /\ WellFormed(req[r])  BY DEF TypeInv, TypeOK
<1>2. q \in Request  BY <1>1 DEF Request, Stages
<1>3. WellFormed(q)  BY <1>1 DEF WellFormed, Request
<1>4. req' = [req EXCEPT ![r] = q]  BY DEF Await, TypeInv, TypeOK
<1> HIDE DEF q
<1> QED  BY <1>2, <1>3, <1>4, Becomes DEF Await, TypeInv, TypeOK
-------------------------------------------------------------------------------
LEMMA InitShape == Init => IInv
<1>1. Idle \in Request /\ WellFormed(Idle) /\ ~Deleting(Idle)
  BY DEF Idle, Request, WellFormed, Deleting
<1> SUFFICES ASSUME Init PROVE IInv  OBVIOUS
<1>2. \A r \in Slots : req[r] = Idle  BY DEF Init
<1>3. req \in [Slots -> Request]  BY <1>1 DEF Init
<1>4. TypeOK  BY <1>3 DEF Init, TypeOK
<1> QED  BY <1>1, <1>2, <1>4 DEF IInv, TypeInv, Scoped

LEMMA CreateMeetingShape ==
  ASSUME TypeInv, NEW r \in Slots, NEW u \in Users, NEW m \in Meetings, CreateMeeting(r, u, m)
  PROVE  TypeInv'
<1>1. PICK ks \in SUBSET {"transcript"} :
        Send(r, [Idle EXCEPT !.at = "transcribing", !.user = u, !.meeting = m, !.kinds = ks])
  BY DEF CreateMeeting
<1> DEFINE q == [Idle EXCEPT !.at = "transcribing", !.user = u, !.meeting = m, !.kinds = ks]
<1>2. q \in Request /\ WellFormed(q)  BY DEF Idle, Request, WellFormed, Kinds
<1> HIDE DEF q
<1>3. Send(r, q)  BY <1>1 DEF q
<1>4. owner' \in [Meetings -> Users \cup {Null}] /\ meetings' \subseteq Meetings
  BY DEF CreateMeeting, TypeInv, TypeOK
<1> QED  BY <1>2, <1>3, <1>4, Sends DEF CreateMeeting, TypeInv, TypeOK

LEMMA AddDocumentShape ==
  ASSUME TypeInv, NEW r \in Slots, NEW u \in Users, NEW m \in Meetings, NEW k \in AddedKinds,
         AddDocument(r, u, m, k)
  PROVE  TypeInv'
<1> DEFINE q == [Idle EXCEPT !.at = "adding", !.user = u, !.meeting = m, !.kinds = {k}]
<1>1. q \in Request /\ WellFormed(q)
  BY RemovalAssumption DEF Idle, Request, WellFormed
<1>2. Send(r, q)  BY DEF AddDocument
<1> HIDE DEF q
<1> QED  BY <1>1, <1>2, Sends DEF AddDocument, data, TypeInv, TypeOK

LEMMA InsertDocumentShape ==
  ASSUME TypeInv, NEW r \in Slots, InsertDocument(r)
  PROVE  TypeInv'
<1>1. Inserted(req[r]) \subseteq Document
  BY DEF InsertDocument, Inserted, Document, TypeInv, TypeOK, WellFormed, Request
<1>2. docs' \subseteq Document  BY <1>1 DEF InsertDocument, TypeInv, TypeOK
<1> QED  BY <1>2, Answers DEF InsertDocument, TypeInv, TypeOK

LEMMA UploadAvatarShape ==
  ASSUME TypeInv, NEW r \in Slots, NEW u \in Users, UploadAvatar(r, u)
  PROVE  TypeInv'
<1> DEFINE q == [Idle EXCEPT !.at = "uploading", !.user = u, !.image = KeyFromUrl(avatar[u])]
<1>1. KeyFromUrl(avatar[u]) \in Images \cup {Null}  BY DEF KeyFromUrl, TypeInv, TypeOK
<1>2. q \in Request /\ WellFormed(q)  BY <1>1 DEF Idle, Request, WellFormed
<1>3. Send(r, q)  BY DEF UploadAvatar
<1> HIDE DEF q
<1> QED  BY <1>2, <1>3, Sends DEF UploadAvatar, data, TypeInv, TypeOK

LEMMA DeleteAccountShape ==
  ASSUME TypeInv, NEW r \in Slots, NEW u \in Users, DeleteAccount(r, u)
  PROVE  TypeInv'
<1> DEFINE q == [Idle EXCEPT !.at = "listing", !.user = u, !.image = KeyFromUrl(avatar[u])]
<1>1. KeyFromUrl(avatar[u]) \in Images \cup {Null}  BY DEF KeyFromUrl, TypeInv, TypeOK
<1>2. q \in Request /\ WellFormed(q)  BY <1>1 DEF Idle, Request, WellFormed
<1>3. Send(r, q)  BY DEF DeleteAccount
<1> HIDE DEF q
<1> QED  BY <1>2, <1>3, Sends DEF DeleteAccount, data, TypeInv, TypeOK

LEMMA StoreImageShape ==
  ASSUME TypeInv, NEW r \in Slots, StoreImage(r)
  PROVE  TypeInv'
<1>1. CASE StorageFails /\ failed' = TRUE /\ Answer(r) /\ UNCHANGED images
  BY <1>1, Answers DEF StoreImage, TypeInv, TypeOK
<1>2. CASE \E i \in Images \ InUse :
             /\ images' = images \cup {i}
             /\ req' = [req EXCEPT ![r].at = "updating", ![r].new = i]
             /\ erased' = {e \in erased : e[2] # i}
             /\ UNCHANGED <<overlapped, failed>>
  <2>1. PICK i \in Images : /\ images' = images \cup {i}
                            /\ req' = [req EXCEPT ![r].at = "updating", ![r].new = i]
                            /\ erased' = {e \in erased : e[2] # i}
                            /\ UNCHANGED <<overlapped, failed>>
    BY <1>2
  <2> DEFINE q == [req[r] EXCEPT !.at = "updating", !.new = i]
  <2>2. req[r] \in Request /\ WellFormed(req[r]) /\ req[r].at = "uploading"
    BY DEF StoreImage, TypeInv, TypeOK
  <2>3. q \in Request /\ WellFormed(q)  BY <2>2 DEF Request, WellFormed
  <2>4. req' = [req EXCEPT ![r] = q]  BY <2>1 DEF TypeInv, TypeOK
  <2> HIDE DEF q
  <2> QED  BY <2>1, <2>3, <2>4, Becomes DEF StoreImage, TypeInv, TypeOK
<1> QED  BY <1>1, <1>2 DEF StoreImage

LEMMA UpdateAvatarShape ==
  ASSUME TypeInv, NEW r \in Slots, UpdateAvatar(r)
  PROVE  TypeInv'
<1>1. req[r].at = "updating" /\ req[r].new \in Images
  BY DEF UpdateAvatar, TypeInv, WellFormed
<1>2. avatar' \in [Users -> Images \cup {Null, External}]
  BY <1>1 DEF UpdateAvatar, TypeInv, TypeOK
<1>3. Await(r, "cleaning") \/ Answer(r)  BY DEF UpdateAvatar
<1>4. "cleaning" \in Stages \ {"transcribing", "adding", "updating", "unhosting"}  BY DEF Stages
<1>5. /\ req' \in [Slots -> Request] /\ \A t \in Slots : WellFormed(req'[t])
      /\ overlapped' \in BOOLEAN /\ erased' \subseteq Users \X Images
  BY <1>1, <1>3, <1>4, Awaits, Answers
<1> QED  BY <1>2, <1>5 DEF UpdateAvatar, TypeInv, TypeOK

LEMMA CleanAvatarShape ==
  ASSUME TypeInv, NEW r \in Slots, CleanAvatar(r)
  PROVE  TypeInv'
<1>1. images' \subseteq Images /\ failed' \in BOOLEAN
  BY DEF CleanAvatar, DeleteImage, TypeInv, TypeOK
<1> QED  BY <1>1, Answers DEF CleanAvatar, TypeInv, TypeOK

LEMMA ListMeetingsShape ==
  ASSUME TypeInv, NEW r \in Slots, ListMeetings(r)
  PROVE  TypeInv'
<1> DEFINE q == [req[r] EXCEPT !.at = "clearing", !.ids = meetings \cap Owned(req[r].user)]
<1>1. req[r] \in Request /\ WellFormed(req[r]) /\ req[r].at = "listing"
  BY DEF ListMeetings, TypeInv, TypeOK
<1>2. Owned(req[r].user) \subseteq Meetings  BY DEF Owned
<1>3. q \in Request /\ WellFormed(q)  BY <1>1, <1>2 DEF Request, WellFormed
<1>4. req' = [req EXCEPT ![r] = q]  BY DEF ListMeetings, TypeInv, TypeOK
<1> HIDE DEF q
<1> QED  BY <1>3, <1>4, Becomes DEF ListMeetings, data, TypeInv, TypeOK

LEMMA RemoveMeetingsShape ==
  ASSUME TypeInv, NEW r \in Slots, RemoveMeetings(r)
  PROVE  TypeInv'
<1>1. "untranscribing" \in Stages \ {"transcribing", "adding", "updating", "unhosting"}  BY DEF Stages
<1>2. req[r].at # "idle"  BY DEF RemoveMeetings
<1> QED  BY <1>1, <1>2, Awaits DEF RemoveMeetings, TypeInv, TypeOK

LEMMA RemoveTranscriptsShape ==
  ASSUME TypeInv, NEW r \in Slots, RemoveTranscripts(r)
  PROVE  TypeInv'
<1> DEFINE q == [req[r] EXCEPT !.at = "sweeping", !.kinds = {"attendee", "item", "result"}]
<1>1. req[r] \in Request /\ WellFormed(req[r]) /\ req[r].at = "untranscribing"
  BY DEF RemoveTranscripts, TypeInv, TypeOK
<1>2. q \in Request /\ WellFormed(q)  BY <1>1 DEF Request, WellFormed, Kinds
<1>3. req' = [req EXCEPT ![r] = q]  BY DEF RemoveTranscripts, TypeInv, TypeOK
<1> HIDE DEF q
<1>4. docs' \subseteq Document  BY DEF RemoveTranscripts, TypeInv, TypeOK
<1> QED  BY <1>2, <1>3, <1>4, Becomes DEF RemoveTranscripts, TypeInv, TypeOK

LEMMA SweepShape ==
  ASSUME TypeInv, NEW r \in Slots, Sweep(r)
  PROVE  TypeInv'
<1>1. PICK k \in req[r].kinds :
        /\ docs' = docs \ Swept(req[r].ids, k)
        /\ req' = [req EXCEPT ![r].kinds = @ \ {k},
                              ![r].at = IF req[r].kinds # {k} THEN @
                                        ELSE IF req[r].image # Null THEN "unhosting" ELSE "removing"]
  BY DEF Sweep
<1> DEFINE s == IF req[r].kinds # {k} THEN req[r].at
                ELSE IF req[r].image # Null THEN "unhosting" ELSE "removing"
           q == [req[r] EXCEPT !.kinds = req[r].kinds \ {k}, !.at = s]
<1>2. req[r] \in Request /\ WellFormed(req[r]) /\ req[r].at = "sweeping"
  BY DEF Sweep, TypeInv, TypeOK
<1>3. q \in Request /\ WellFormed(q)
  <2>1. s = "unhosting" => req[r].image \in Images  BY <1>2 DEF Request
  <2> QED  BY <1>2, <2>1 DEF Request, WellFormed
<1>4. req' = [req EXCEPT ![r] = q]  BY <1>1 DEF TypeInv, TypeOK
<1> HIDE DEF q
<1>5. docs' \subseteq Document  BY <1>1 DEF TypeInv, TypeOK
<1> QED  BY <1>3, <1>4, <1>5, Becomes DEF Sweep, TypeInv, TypeOK

LEMMA RemoveAvatarShape ==
  ASSUME TypeInv, NEW r \in Slots, RemoveAvatar(r)
  PROVE  TypeInv'
<1> DEFINE q == [req[r] EXCEPT !.at = "removing"]
<1>1. req[r] \in Request /\ WellFormed(req[r]) /\ req[r].at = "unhosting"
  BY DEF RemoveAvatar, TypeInv, TypeOK
<1>2. q \in Request /\ WellFormed(q) /\ req[r].user \in Users  BY <1>1 DEF Request, WellFormed
<1>3. req' = [req EXCEPT ![r] = q]  BY DEF RemoveAvatar, TypeInv, TypeOK
<1> HIDE DEF q
<1>4. images' \subseteq Images /\ failed' \in BOOLEAN
  BY DEF RemoveAvatar, DeleteImage, TypeInv, TypeOK
<1>5. erased' \subseteq Users \X Images
  BY <1>1, <1>2 DEF RemoveAvatar, WellFormed, TypeInv, TypeOK
<1> QED  BY <1>2, <1>3, <1>4, <1>5, Becomes DEF RemoveAvatar, TypeInv, TypeOK
-------------------------------------------------------------------------------
LEMMA NextShape == TypeInv /\ [Next]_vars => TypeInv'
<1> SUFFICES ASSUME TypeInv, [Next]_vars PROVE TypeInv'  OBVIOUS
<1>1. CASE UNCHANGED vars  BY <1>1 DEF vars, data, TypeInv, TypeOK
<1>2. ASSUME NEW r \in Slots, RemoveUser(r) PROVE TypeInv'
  BY <1>2, Answers DEF RemoveUser, TypeInv, TypeOK
<1>3. ASSUME NEW r \in Slots, Lose(r) PROVE TypeInv'
  BY <1>3, Answers DEF Lose, data, TypeInv, TypeOK
<1> QED
  BY <1>1, <1>2, <1>3, CreateMeetingShape, AddDocumentShape, InsertDocumentShape,
     UploadAvatarShape, StoreImageShape, UpdateAvatarShape, CleanAvatarShape,
     DeleteAccountShape, ListMeetingsShape, RemoveMeetingsShape, RemoveTranscriptsShape,
     SweepShape, RemoveAvatarShape DEF Next

\* Type correctness: the users, the records about meetings, the images and the
\* requests keep their types whatever requests overlap, die or fail.
THEOREM RemovalTyped == Spec => []TypeOK
<1>1. Init => TypeInv  BY InitShape DEF IInv
<1>2. TypeInv => TypeOK  BY DEF TypeInv
<1> QED  BY <1>1, <1>2, NextShape, PTL DEF Spec
-------------------------------------------------------------------------------
\* A step that neither starts a request nor lists meetings, nor gives a meeting
\* another owner, keeps every removal to its user's meetings.
LEMMA ScopedKept ==
  ASSUME TypeInv, Scoped, NEW r \in Slots,
         \/ req'[r] = Idle
         \/ /\ Deleting(req'[r]) => Deleting(req[r])
            /\ req'[r].ids = req[r].ids /\ req'[r].user = req[r].user,
         \A s \in Slots \ {r} : req'[s] = req[s],
         UNCHANGED owner
  PROVE  Scoped'
<1>1. ~Deleting(Idle)  BY DEF Deleting, Idle
<1>2. ASSUME NEW s \in Slots, Deleting(req'[s]), NEW m \in req'[s].ids
      PROVE  owner'[m] = req'[s].user
  <2>1. CASE s = r  BY <1>1, <1>2, <2>1 DEF Scoped
  <2>2. CASE s # r  BY <1>2, <2>2 DEF Scoped
  <2> QED  BY <2>1, <2>2
<1> QED  BY <1>2 DEF Scoped, Deleting

\* Starting a request.
LEMMA ScopedSent ==
  ASSUME TypeInv, Scoped, NEW r \in Slots, NEW q, Send(r, q), ~Deleting(q),
         \A m \in Meetings : owner[m] # Null => owner'[m] = owner[m]
  PROVE  Scoped'
<1>1. ASSUME NEW s \in Slots, Deleting(req'[s]), NEW m \in req'[s].ids
      PROVE  owner'[m] = req'[s].user
  <2>1. req' = [req EXCEPT ![r] = q] /\ req \in [Slots -> Request]  BY DEF Send, TypeInv, TypeOK
  <2>2. s # r /\ req'[s] = req[s]  BY <1>1, <2>1
  <2>3. m \in Meetings /\ owner[m] = req[s].user /\ req[s].user \in Users
    BY <1>1, <2>1, <2>2 DEF Scoped, TypeInv, WellFormed, Deleting, Request
  <2>4. owner[m] # Null  BY <2>3, RemovalAssumption
  <2> QED  BY <2>2, <2>3, <2>4
<1> QED  BY <1>1 DEF Scoped, Deleting

LEMMA NextScoped == IInv /\ [Next]_vars => Scoped'
<1> SUFFICES ASSUME IInv, [Next]_vars PROVE Scoped'  OBVIOUS
<1>a. TypeInv /\ Scoped /\ req \in [Slots -> Request]  BY DEF IInv, TypeInv, TypeOK
<1>0. CASE UNCHANGED vars  BY <1>0, <1>a DEF vars, data, Scoped, Deleting
<1> SUFFICES ASSUME NEW r \in Slots, Next,
                    \/ \E u \in Users : UploadAvatar(r, u) \/ DeleteAccount(r, u)
                         \/ \E m \in Meetings : CreateMeeting(r, u, m)
                              \/ \E k \in AddedKinds : AddDocument(r, u, m, k)
                    \/ InsertDocument(r) \/ StoreImage(r) \/ UpdateAvatar(r) \/ CleanAvatar(r)
                    \/ ListMeetings(r) \/ RemoveMeetings(r) \/ RemoveTranscripts(r) \/ Sweep(r)
                    \/ RemoveAvatar(r) \/ RemoveUser(r) \/ Lose(r)
             PROVE  Scoped'
  BY <1>0 DEF Next
<1>1. ASSUME NEW u \in Users, NEW m \in Meetings, CreateMeeting(r, u, m) PROVE Scoped'
  <2>1. PICK ks \in SUBSET {"transcript"} :
          Send(r, [Idle EXCEPT !.at = "transcribing", !.user = u, !.meeting = m, !.kinds = ks])
    BY <1>1 DEF CreateMeeting
  <2>2. \A n \in Meetings : owner[n] # Null => owner'[n] = owner[n]
    BY <1>1, <1>a DEF CreateMeeting, TypeInv, TypeOK
  <2>3. ~Deleting([Idle EXCEPT !.at = "transcribing", !.user = u, !.meeting = m, !.kinds = ks])
    BY DEF Deleting, Idle
  <2> QED  BY <2>1, <2>2, <2>3, <1>a, ScopedSent
<1>2. ASSUME NEW u \in Users, NEW m \in Meetings, NEW k \in AddedKinds, AddDocument(r, u, m, k)
      PROVE  Scoped'
  <2>1. ~Deleting([Idle EXCEPT !.at = "adding", !.user = u, !.meeting = m, !.kinds = {k}])
    BY DEF Deleting, Idle
  <2> QED  BY <1>2, <2>1, <1>a, ScopedSent DEF AddDocument, data
<1>3. ASSUME NEW u \in Users, UploadAvatar(r, u) PROVE Scoped'
  <2>1. ~Deleting([Idle EXCEPT !.at = "uploading", !.user = u, !.image = KeyFromUrl(avatar[u])])
    BY DEF Deleting, Idle
  <2> QED  BY <1>3, <2>1, <1>a, ScopedSent DEF UploadAvatar, data
<1>4. ASSUME NEW u \in Users, DeleteAccount(r, u) PROVE Scoped'
  <2>1. ~Deleting([Idle EXCEPT !.at = "listing", !.user = u, !.image = KeyFromUrl(avatar[u])])
    BY DEF Deleting, Idle
  <2> QED  BY <1>4, <2>1, <1>a, ScopedSent DEF DeleteAccount, data
<1>5. CASE ListMeetings(r)
  <2>1. req' = [req EXCEPT ![r].at = "clearing", ![r].ids = meetings \cap Owned(req[r].user)]
        /\ UNCHANGED owner
    BY <1>5 DEF ListMeetings, data
  <2>2. \A m \in Owned(req[r].user) : owner[m] = req[r].user  BY DEF Owned
  <2>3. req'[r].ids = meetings \cap Owned(req[r].user) /\ req'[r].user = req[r].user
    BY <2>1, <1>a DEF Request
  <2>4. \A s \in Slots \ {r} : req'[s] = req[s]  BY <2>1, <1>a
  <2>5. ASSUME NEW s \in Slots, Deleting(req'[s]), NEW m \in req'[s].ids
        PROVE  owner'[m] = req'[s].user
    <3>1. CASE s = r  BY <2>1, <2>2, <2>3, <2>5, <3>1
    <3>2. CASE s # r  BY <2>1, <2>4, <2>5, <3>2, <1>a DEF Scoped
    <3> QED  BY <3>1, <3>2
  <2> QED  BY <2>5 DEF Scoped, Deleting
<1>6. CASE \/ InsertDocument(r) \/ CleanAvatar(r) \/ RemoveUser(r) \/ Lose(r)
  <2>1. req' = [req EXCEPT ![r] = Idle] /\ UNCHANGED owner
    BY <1>6 DEF InsertDocument, CleanAvatar, RemoveUser, Lose, Answer, data
  <2> QED  BY <2>1, <1>a, ScopedKept
<1>7. CASE StoreImage(r) \/ UpdateAvatar(r)
  <2>1. UNCHANGED owner  BY <1>7 DEF StoreImage, UpdateAvatar
  <2>2. req[r].at \in {"uploading", "updating"}  BY <1>7 DEF StoreImage, UpdateAvatar
  <2>3. \/ req' = [req EXCEPT ![r] = Idle]
        \/ req' = [req EXCEPT ![r].at = "cleaning"]
        \/ \E i \in Images : req' = [req EXCEPT ![r].at = "updating", ![r].new = i]
    BY <1>7 DEF StoreImage, UpdateAvatar, Await, Answer
  <2>4. \A s \in Slots \ {r} : req'[s] = req[s]  BY <2>3, <1>a
  <2>5. req'[r] = Idle \/ (~Deleting(req'[r]) /\ req'[r].ids = req[r].ids /\ req'[r].user = req[r].user)
    BY <2>3, <1>a DEF Deleting, Request
  <2> QED  BY <2>1, <2>4, <2>5, <1>a, ScopedKept
<1>8. CASE RemoveMeetings(r) \/ RemoveTranscripts(r) \/ RemoveAvatar(r)
  <2>1. UNCHANGED owner  BY <1>8 DEF RemoveMeetings, RemoveTranscripts, RemoveAvatar
  <2>2. \/ Deleting(req[r]) /\ req' = [req EXCEPT ![r].at = "untranscribing"]
        \/ Deleting(req[r]) /\ req' = [req EXCEPT ![r].at = "sweeping", ![r].kinds = {"attendee", "item", "result"}]
        \/ req' = [req EXCEPT ![r].at = "removing"]
    BY <1>8 DEF RemoveMeetings, RemoveTranscripts, RemoveAvatar, Await, Deleting
  <2>3. \A s \in Slots \ {r} : req'[s] = req[s]  BY <2>2, <1>a
  <2>4. /\ Deleting(req'[r]) => Deleting(req[r])
        /\ req'[r].ids = req[r].ids /\ req'[r].user = req[r].user
    BY <2>2, <1>a DEF Deleting, Request
  <2> QED  BY <2>1, <2>3, <2>4, <1>a, ScopedKept
<1>9. CASE Sweep(r)
  <2>1. UNCHANGED owner /\ Deleting(req[r])  BY <1>9 DEF Sweep, Deleting
  <2>2. PICK k \in Kinds, s \in Stages :
          req' = [req EXCEPT ![r].kinds = @ \ {k}, ![r].at = s]
    BY <1>9, <1>a DEF Sweep, Request, Stages
  <2>3. \A t \in Slots \ {r} : req'[t] = req[t]  BY <2>2, <1>a
  <2>4. req'[r].ids = req[r].ids /\ req'[r].user = req[r].user  BY <2>2, <1>a DEF Request
  <2> QED  BY <2>1, <2>3, <2>4, <1>a, ScopedKept
<1> QED  BY <1>1, <1>2, <1>3, <1>4, <1>5, <1>6, <1>7, <1>8, <1>9

\* Another user's records: wherever removals and insertions overlap or die,
\* only the removal of the owner deletes a meeting or what is about it.
THEOREM OthersUntouchedHolds == Spec => OthersUntouched
<1> DEFINE Lost(m) == ~(Of({m}, Kinds) \subseteq docs' /\ (m \in meetings => m \in meetings'))
           Removing(m) == \E r \in Slots : req[r].user = owner[m]
                            /\ req[r].at \in {"clearing", "untranscribing", "sweeping"}
<1>1. Init => IInv  BY InitShape
<1>2. IInv /\ [Next]_vars => IInv'  BY NextShape, NextScoped DEF IInv
<1>3. IInv /\ [Next]_vars =>
        [\A m \in Meetings :
           \/ Of({m}, Kinds) \subseteq docs' /\ (m \in meetings => m \in meetings')
           \/ Removing(m)]_vars
  <2> SUFFICES ASSUME IInv, Next, NEW m \in Meetings, Lost(m) PROVE Removing(m)
    OBVIOUS
  <2>1. PICK d \in docs \cup {Null} :
          \/ d \in Of({m}, Kinds) /\ d \notin docs'
          \/ m \in meetings /\ m \notin meetings'
    BY DEF Of
  <2>2. PICK r \in Slots :
          \/ RemoveMeetings(r) /\ m \in req[r].ids
          \/ (RemoveTranscripts(r) \/ Sweep(r)) /\ d \in Of({m}, Kinds) /\ d \notin docs'
    BY <2>1 DEF Next, UploadAvatar, DeleteAccount, CreateMeeting, AddDocument, InsertDocument,
       StoreImage, UpdateAvatar, CleanAvatar, ListMeetings, RemoveMeetings, RemoveTranscripts,
       Sweep, RemoveAvatar, RemoveUser, Lose, data, Of
  <2>3. m \in req[r].ids  BY <2>2 DEF RemoveTranscripts, Sweep, Swept, Of
  <2>4. Deleting(req[r])  BY <2>2 DEF RemoveMeetings, RemoveTranscripts, Sweep, Deleting
  <2>5. owner[m] = req[r].user  BY <2>3, <2>4 DEF IInv, Scoped
  <2> QED  BY <2>4, <2>5 DEF Deleting
<1> QED  BY <1>1, <1>2, <1>3, PTL DEF Spec, OthersUntouched
-------------------------------------------------------------------------------
(***************************************************************************)
(* Requests that do not overlap.  One is in flight at most, its user is    *)
(* stored, and once it has deleted meetings the user has none left.        *)
(***************************************************************************)
Cleared(q) == q.at \in {"untranscribing", "sweeping", "unhosting", "removing"}
SerialInv ==
  ~overlapped =>
    /\ \A m \in meetings : owner[m] \in users
    /\ \A r, s \in Slots : req[r].at # "idle" /\ req[s].at # "idle" => r = s
    /\ \A r \in Slots : req[r].at # "idle" => req[r].user \in users
    /\ \A r \in Slots : req[r].at = "clearing" => meetings \cap Owned(req[r].user) \subseteq req[r].ids
    /\ \A r \in Slots : Cleared(req[r]) => meetings \cap Owned(req[r].user) = {}

LEMMA InitSerial == Init => SerialInv
BY DEF Init, SerialInv, Idle, Cleared

\* A request that starts while none is in flight.
LEMMA SerialSent ==
  ASSUME TypeInv, SerialInv, NEW r \in Slots, NEW q, Send(r, q), q.user \in Users,
         q.at \notin {"clearing", "untranscribing", "sweeping", "unhosting", "removing"},
         UNCHANGED users,
         \/ UNCHANGED <<owner, meetings>>
         \/ \E m \in Meetings : /\ meetings' = meetings \cup {m}
                                /\ owner[m] = Null /\ owner' = [owner EXCEPT ![m] = q.user]
  PROVE  SerialInv'
<1> SUFFICES ASSUME ~overlapped' PROVE SerialInv'  BY DEF SerialInv
<1>1. ~overlapped /\ Quiet /\ q.user \in users /\ req' = [req EXCEPT ![r] = q]  BY DEF Send
<1>2. \A s \in Slots \ {r} : req'[s].at = "idle"  BY <1>1 DEF Quiet, TypeInv, TypeOK
<1>3. req'[r] = q  BY <1>1 DEF TypeInv, TypeOK
<1>4. \A m \in meetings' : owner'[m] \in users'  BY <1>1 DEF SerialInv, TypeInv, TypeOK
<1> QED  BY <1>1, <1>2, <1>3, <1>4 DEF SerialInv, Cleared

\* A request that goes on or is answered, and deletes no user or meeting.
LEMMA SerialMoved ==
  ASSUME TypeInv, SerialInv, NEW r \in Slots, req[r].at # "idle", UNCHANGED <<users, owner, meetings>>,
         \A s \in Slots \ {r} : req'[s] = req[s], overlapped' = overlapped,
         \/ req'[r].at = "idle"
         \/ /\ req'[r].user = req[r].user
            /\ req'[r].at = "clearing" => req'[r].ids = meetings \cap Owned(req[r].user)
            /\ Cleared(req'[r]) => Cleared(req[r])
  PROVE  SerialInv'
<1> SUFFICES ASSUME ~overlapped' PROVE SerialInv'  BY DEF SerialInv
<1>1. \A s \in Slots : req'[s].at # "idle" => s = r  BY DEF SerialInv
<1> QED  BY <1>1 DEF SerialInv, Owned, Cleared

LEMMA SerialRemoved ==
  ASSUME TypeInv, SerialInv, NEW r \in Slots, RemoveMeetings(r) \/ RemoveUser(r)
  PROVE  SerialInv'
<1> SUFFICES ASSUME ~overlapped' PROVE SerialInv'  BY DEF SerialInv
<1>1. ~overlapped /\ req[r].at \in {"clearing", "removing"}
  BY DEF RemoveMeetings, RemoveUser, Await, Answer
<1>2. \A s \in Slots \ {r} : req[s].at = "idle" /\ req'[s] = req[s]
  BY <1>1 DEF SerialInv, RemoveMeetings, RemoveUser, Await, Answer, TypeInv, TypeOK
<1>3. CASE RemoveMeetings(r)
  <2>1. /\ meetings' = meetings \ req[r].ids /\ UNCHANGED <<users, owner>>
        /\ req' = [req EXCEPT ![r].at = "untranscribing"]
    BY <1>3 DEF RemoveMeetings, Await
  <2>2. req'[r].user = req[r].user /\ req'[r].at = "untranscribing"
    BY <2>1 DEF TypeInv, TypeOK, Request
  <2>3. meetings \cap Owned(req[r].user) \subseteq req[r].ids /\ req[r].user \in users
    BY <1>1, <1>3 DEF SerialInv, RemoveMeetings
  <2>4. meetings' \cap Owned(req[r].user)' = {}  BY <2>1, <2>2, <2>3 DEF Owned
  <2> QED  BY <1>1, <1>2, <2>1, <2>2, <2>3, <2>4 DEF SerialInv, Cleared
<1>4. CASE RemoveUser(r)
  <2>1. users' = users \ {req[r].user} /\ req' = [req EXCEPT ![r] = Idle] /\ UNCHANGED <<owner, meetings>>
    BY <1>4 DEF RemoveUser, Answer
  <2>2. req'[r].at = "idle"  BY <2>1 DEF TypeInv, TypeOK, Idle
  <2>3. meetings \cap Owned(req[r].user) = {}  BY <1>1, <1>4 DEF SerialInv, Cleared, RemoveUser
  <2>4. \A m \in meetings' : owner'[m] \in users'
    BY <1>1, <2>1, <2>3 DEF SerialInv, Owned, TypeInv, TypeOK
  <2> QED  BY <1>2, <2>2, <2>4 DEF SerialInv, Cleared
<1> QED  BY <1>3, <1>4

LEMMA NextSerial == TypeInv /\ SerialInv /\ [Next]_vars => SerialInv'
<1> SUFFICES ASSUME TypeInv, SerialInv, [Next]_vars PROVE SerialInv'  OBVIOUS
<1>a. req \in [Slots -> Request]  BY DEF TypeInv, TypeOK
<1>0. CASE UNCHANGED vars  BY <1>0 DEF vars, data, SerialInv, Owned, Cleared
<1> SUFFICES ASSUME NEW r \in Slots,
                    \/ \E u \in Users : UploadAvatar(r, u) \/ DeleteAccount(r, u)
                         \/ \E m \in Meetings : CreateMeeting(r, u, m)
                              \/ \E k \in AddedKinds : AddDocument(r, u, m, k)
                    \/ InsertDocument(r) \/ StoreImage(r) \/ UpdateAvatar(r) \/ CleanAvatar(r)
                    \/ ListMeetings(r) \/ RemoveMeetings(r) \/ RemoveTranscripts(r) \/ Sweep(r)
                    \/ RemoveAvatar(r) \/ RemoveUser(r) \/ Lose(r)
             PROVE  SerialInv'
  BY <1>0 DEF Next
<1>1. CASE \E u \in Users : \/ UploadAvatar(r, u) \/ DeleteAccount(r, u)
                            \/ \E m \in Meetings, k \in AddedKinds : AddDocument(r, u, m, k)
  <2>1. \E q : /\ Send(r, q) /\ q.user \in Users /\ UNCHANGED data
               /\ q.at \in {"uploading", "listing", "adding"}
    <3>1. ASSUME NEW u \in Users, UploadAvatar(r, u) \/ DeleteAccount(r, u)
          PROVE  \E s \in {"uploading", "listing"} : \E i :
                   Send(r, [Idle EXCEPT !.at = s, !.user = u, !.image = i]) /\ UNCHANGED data
      BY <3>1 DEF UploadAvatar, DeleteAccount
    <3>2. ASSUME NEW u \in Users, NEW s \in {"uploading", "listing"}, NEW i
          PROVE  [Idle EXCEPT !.at = s, !.user = u, !.image = i].at = s
                   /\ [Idle EXCEPT !.at = s, !.user = u, !.image = i].user = u
      BY DEF Idle
    <3>3. CASE \E u \in Users : UploadAvatar(r, u) \/ DeleteAccount(r, u)
      <4>1. PICK u \in Users, s \in {"uploading", "listing"} : \E i :
              Send(r, [Idle EXCEPT !.at = s, !.user = u, !.image = i]) /\ UNCHANGED data
        BY <3>1, <3>3
      <4>2. PICK i : Send(r, [Idle EXCEPT !.at = s, !.user = u, !.image = i]) /\ UNCHANGED data
        BY <4>1
      <4> WITNESS [Idle EXCEPT !.at = s, !.user = u, !.image = i]
      <4> QED  BY <3>2, <4>2
    <3>4. CASE \E u \in Users, m \in Meetings, k \in AddedKinds : AddDocument(r, u, m, k)
      <4>1. PICK u \in Users, m \in Meetings, k \in AddedKinds : AddDocument(r, u, m, k)  BY <3>4
      <4> DEFINE q == [Idle EXCEPT !.at = "adding", !.user = u, !.meeting = m, !.kinds = {k}]
      <4>2. q.at = "adding" /\ q.user = u  BY DEF Idle
      <4> QED  BY <4>1, <4>2 DEF AddDocument
    <3> QED  BY <1>1, <3>3, <3>4
  <2> QED  BY <2>1, SerialSent DEF data
<1>2. CASE \E u \in Users, m \in Meetings : CreateMeeting(r, u, m)
  <2>1. PICK u \in Users, m \in Meetings : \E ks :
          /\ Send(r, [Idle EXCEPT !.at = "transcribing", !.user = u, !.meeting = m, !.kinds = ks])
          /\ owner[m] = Null /\ owner' = [owner EXCEPT ![m] = u]
          /\ meetings' = meetings \cup {m} /\ UNCHANGED users
    BY <1>2 DEF CreateMeeting
  <2>a. PICK ks :
          /\ Send(r, [Idle EXCEPT !.at = "transcribing", !.user = u, !.meeting = m, !.kinds = ks])
          /\ owner[m] = Null /\ owner' = [owner EXCEPT ![m] = u]
          /\ meetings' = meetings \cup {m} /\ UNCHANGED users
    BY <2>1
  <2> DEFINE q == [Idle EXCEPT !.at = "transcribing", !.user = u, !.meeting = m, !.kinds = ks]
  <2>2. q.at = "transcribing" /\ q.user = u  BY DEF Idle
  <2> HIDE DEF q
  <2>3. Send(r, q)  BY <2>a DEF q
  <2> QED  BY <2>a, <2>2, <2>3, SerialSent
<1>3. CASE InsertDocument(r) \/ CleanAvatar(r) \/ Lose(r)
  <2>1. /\ req' = [req EXCEPT ![r] = Idle] /\ UNCHANGED <<users, owner, meetings, overlapped>>
        /\ req[r].at # "idle"
    BY <1>3 DEF InsertDocument, CleanAvatar, Lose, Answer, data
  <2>2. req'[r].at = "idle" /\ \A s \in Slots \ {r} : req'[s] = req[s]  BY <2>1, <1>a DEF Idle
  <2> QED  BY <2>1, <2>2, SerialMoved
<1>4. CASE StoreImage(r) \/ UpdateAvatar(r)
  <2>1. /\ UNCHANGED <<users, owner, meetings, overlapped>>
        /\ req[r].at # "idle"
        /\ \/ req' = [req EXCEPT ![r] = Idle]
           \/ req' = [req EXCEPT ![r].at = "cleaning"]
           \/ \E i \in Images : req' = [req EXCEPT ![r].at = "updating", ![r].new = i]
    BY <1>4 DEF StoreImage, UpdateAvatar, Await, Answer
  <2>2. \A s \in Slots \ {r} : req'[s] = req[s]  BY <2>1, <1>a
  <2>3. \/ req'[r].at = "idle"
        \/ req'[r].at \in {"cleaning", "updating"} /\ req'[r].user = req[r].user
    BY <2>1, <1>a DEF Idle, Request
  <2> QED  BY <2>1, <2>2, <2>3, SerialMoved DEF Cleared
<1>5. CASE ListMeetings(r)
  <2>1. /\ UNCHANGED <<users, owner, meetings, overlapped>> /\ req[r].at # "idle"
        /\ req' = [req EXCEPT ![r].at = "clearing", ![r].ids = meetings \cap Owned(req[r].user)]
    BY <1>5 DEF ListMeetings, data
  <2>2. \A s \in Slots \ {r} : req'[s] = req[s]  BY <2>1, <1>a
  <2>3. /\ req'[r].at = "clearing" /\ req'[r].user = req[r].user
        /\ req'[r].ids = meetings \cap Owned(req[r].user)
    BY <2>1, <1>a DEF Request
  <2> QED  BY <2>1, <2>2, <2>3, SerialMoved DEF Cleared
<1>6. CASE RemoveTranscripts(r) \/ RemoveAvatar(r) \/ Sweep(r)
  <2>1. PICK s \in {"sweeping", "unhosting", "removing"} : \E ks :
          /\ UNCHANGED <<users, owner, meetings, overlapped>>
          /\ Cleared(req[r])
          /\ req' = [req EXCEPT ![r].at = s, ![r].kinds = ks]
    <3>1. CASE RemoveTranscripts(r)  BY <3>1 DEF RemoveTranscripts, Cleared
    <3>2. CASE RemoveAvatar(r)
      <4>1. req' = [req EXCEPT ![r].at = "removing", ![r].kinds = req[r].kinds]
        BY <3>2, <1>a DEF RemoveAvatar, Request
      <4> QED  BY <3>2, <4>1 DEF RemoveAvatar, Cleared
    <3>3. CASE Sweep(r)
      <4>1. PICK k \in req[r].kinds, s \in {"sweeping", "unhosting", "removing"} :
              req' = [req EXCEPT ![r].kinds = req[r].kinds \ {k}, ![r].at = s]
        BY <3>3, <1>a DEF Sweep
      <4>2. req' = [req EXCEPT ![r].at = s, ![r].kinds = req[r].kinds \ {k}]  BY <4>1, <1>a DEF Request
      <4> QED  BY <3>3, <4>2 DEF Sweep, Cleared
    <3> QED  BY <1>6, <3>1, <3>2, <3>3
  <2>a. PICK ks : req' = [req EXCEPT ![r].at = s, ![r].kinds = ks]  BY <2>1
  <2>2. \A t \in Slots \ {r} : req'[t] = req[t]  BY <2>a, <1>a
  <2>3. req'[r].at = s /\ req'[r].user = req[r].user  BY <2>a, <1>a DEF Request
  <2>4. req[r].at # "idle" /\ req'[r].at # "clearing"  BY <2>1, <2>3 DEF Cleared
  <2> QED  BY <2>1, <2>2, <2>3, <2>4, SerialMoved
<1> QED  BY <1>1, <1>2, <1>3, <1>4, <1>5, <1>6, SerialRemoved

\* Removals that die anywhere and are tried again, but never overlap, leave no
\* meeting without its owner: the user is deleted last.
THEOREM UserGoesLastHolds == Spec => []UserGoesLast
<1>1. Init => TypeInv /\ SerialInv  BY InitShape, InitSerial DEF IInv
<1>2. TypeInv /\ SerialInv /\ [Next]_vars => (TypeInv /\ SerialInv)'  BY NextShape, NextSerial
<1>3. TypeInv /\ SerialInv => UserGoesLast  BY DEF SerialInv, UserGoesLast
<1> QED  BY <1>1, <1>2, <1>3, PTL DEF Spec
-------------------------------------------------------------------------------
(***************************************************************************)
(* Avatars.  An image that an upload has stored is nobody's avatar and     *)
(* nobody deletes it; a request knows no avatar of another user, and what  *)
(* it is about to clean is no avatar any more.                             *)
(***************************************************************************)
Private(r) ==
  \A u \in Users : avatar[u] \in Images /\ avatar[u] = req[r].image =>
    u = req[r].user /\ req[r].at # "cleaning"
Fresh(r) ==
  /\ req[r].new \in images
  /\ \A u \in Users : avatar[u] # req[r].new
  /\ \A s \in Slots : /\ req[s].image # req[r].new
                      /\ s # r /\ req[s].at = "updating" => req[s].new # req[r].new

AvatarInv ==
  /\ AvatarStored
  /\ \A u, v \in Users : avatar[u] \in Images /\ avatar[u] = avatar[v] => u = v
  /\ \A r \in Slots : Private(r)
  /\ \A r \in Slots : req[r].at = "updating" => Fresh(r)


\* What one request does.
StepOf(r) ==
  \/ \E u \in Users :
       \/ UploadAvatar(r, u) \/ DeleteAccount(r, u)
       \/ \E m \in Meetings :
            CreateMeeting(r, u, m) \/ \E k \in AddedKinds : AddDocument(r, u, m, k)
  \/ InsertDocument(r) \/ StoreImage(r) \/ UpdateAvatar(r) \/ CleanAvatar(r)
  \/ ListMeetings(r) \/ RemoveMeetings(r) \/ RemoveTranscripts(r) \/ Sweep(r)
  \/ RemoveAvatar(r) \/ RemoveUser(r) \/ Lose(r)

LEMMA StepIsOf == Next => \E r \in Slots : StepOf(r)
BY DEF Next, StepOf

\* A request begins, asking for a user, and knows no other avatar than the user's.
Begun(q) ==
  /\ q.user \in Users /\ q.new = Null
  /\ \/ q.at \in {"transcribing", "adding"} /\ q.image = Null
     \/ q.at \in {"uploading", "listing"} /\ q.image = KeyFromUrl(avatar[q.user])

LEMMA Begins ==
  ASSUME TypeInv, NEW r \in Slots, NEW u \in Users,
         \/ UploadAvatar(r, u) \/ DeleteAccount(r, u)
         \/ \E m \in Meetings :
              CreateMeeting(r, u, m) \/ \E k \in AddedKinds : AddDocument(r, u, m, k)
  PROVE  /\ Begun(req'[r]) /\ UNCHANGED <<users, avatar, docs, images, failed, erased>>
         /\ req[r].at = "idle" /\ \A s \in Slots \ {r} : req'[s] = req[s]
         /\ overlapped' = (overlapped \/ ~Quiet \/ req'[r].user \notin users)
<1> DEFINE Goal(q) == Begun(q) /\ Send(r, q)
<1>1. \E q : Goal(q)
  <2>1. ASSUME UploadAvatar(r, u) PROVE \E q : Goal(q)
    <3> DEFINE q == [Idle EXCEPT !.at = "uploading", !.user = u, !.image = KeyFromUrl(avatar[u])]
    <3>1. Begun(q)  BY DEF Begun, Idle
    <3> QED  BY <2>1, <3>1 DEF UploadAvatar
  <2>2. ASSUME DeleteAccount(r, u) PROVE \E q : Goal(q)
    <3> DEFINE q == [Idle EXCEPT !.at = "listing", !.user = u, !.image = KeyFromUrl(avatar[u])]
    <3>1. Begun(q)  BY DEF Begun, Idle
    <3> QED  BY <2>2, <3>1 DEF DeleteAccount
  <2>3. ASSUME NEW m \in Meetings, CreateMeeting(r, u, m) PROVE \E q : Goal(q)
    <3>1. PICK ks :
            Send(r, [Idle EXCEPT !.at = "transcribing", !.user = u, !.meeting = m, !.kinds = ks])
      BY <2>3 DEF CreateMeeting
    <3> DEFINE q == [Idle EXCEPT !.at = "transcribing", !.user = u, !.meeting = m, !.kinds = ks]
    <3>2. Begun(q)  BY DEF Begun, Idle
    <3> QED  BY <3>1, <3>2
  <2>4. ASSUME NEW m \in Meetings, NEW k \in AddedKinds, AddDocument(r, u, m, k)
        PROVE  \E q : Goal(q)
    <3> DEFINE q == [Idle EXCEPT !.at = "adding", !.user = u, !.meeting = m, !.kinds = {k}]
    <3>1. Begun(q)  BY DEF Begun, Idle
    <3> QED  BY <2>4, <3>1 DEF AddDocument
  <2> QED  BY <2>1, <2>2, <2>3, <2>4
<1>2. PICK q : Goal(q)  BY <1>1
<1>3. req' = [req EXCEPT ![r] = q] /\ req'[r] = q  BY <1>2 DEF Send, TypeInv, TypeOK
<1>4. UNCHANGED <<users, avatar, docs, images>>
  BY DEF UploadAvatar, DeleteAccount, CreateMeeting, AddDocument, data
<1> QED  BY <1>2, <1>3, <1>4 DEF Send, TypeInv, TypeOK

LEMMA OthersWait ==
  ASSUME TypeInv, NEW r \in Slots, StepOf(r)
  PROVE  \A s \in Slots \ {r} : req'[s] = req[s]
<1>1. req \in [Slots -> Request]  BY DEF TypeInv, TypeOK
<1>2. CASE InsertDocument(r) \/ StoreImage(r) \/ UpdateAvatar(r) \/ CleanAvatar(r)
           \/ RemoveMeetings(r) \/ RemoveUser(r) \/ Lose(r)
  BY <1>1, <1>2
     DEF InsertDocument, StoreImage, UpdateAvatar, CleanAvatar, RemoveMeetings, RemoveUser, Lose,
         Answer, Await
<1>3. CASE ListMeetings(r) \/ RemoveTranscripts(r) \/ Sweep(r) \/ RemoveAvatar(r)
  BY <1>1, <1>3 DEF ListMeetings, RemoveTranscripts, Sweep, RemoveAvatar
<1> QED  BY <1>2, <1>3, Begins DEF StepOf

\* A request that goes on knows the user and the avatar it knew.
LEMMA GoesOn ==
  ASSUME TypeInv, NEW r \in Slots,
         \/ InsertDocument(r) \/ ListMeetings(r) \/ RemoveMeetings(r) \/ RemoveTranscripts(r)
         \/ Sweep(r) \/ RemoveUser(r) \/ Lose(r)
  PROVE  /\ UNCHANGED <<avatar, images, overlapped, erased>> /\ users' \subseteq users
         /\ req[r].at # "idle"
         /\ \/ req'[r] = Idle
            \/ /\ req'[r].image = req[r].image /\ req'[r].user = req[r].user
               /\ req'[r].at \in {"clearing", "untranscribing", "sweeping", "unhosting", "removing"}
<1>1. req \in [Slots -> Request]  BY DEF TypeInv, TypeOK
<1>2. CASE InsertDocument(r) \/ RemoveUser(r) \/ Lose(r)
  BY <1>1, <1>2 DEF InsertDocument, RemoveUser, Lose, Answer, data
<1>3. CASE RemoveMeetings(r)
  BY <1>1, <1>3 DEF RemoveMeetings, Await, Request
<1>4. CASE ListMeetings(r) \/ RemoveTranscripts(r)
  BY <1>1, <1>4 DEF ListMeetings, RemoveTranscripts, data, Request
<1>5. CASE Sweep(r)
  <2>1. PICK k \in req[r].kinds, s \in {"sweeping", "unhosting", "removing"} :
          req' = [req EXCEPT ![r].kinds = req[r].kinds \ {k}, ![r].at = s]
    BY <1>1, <1>5 DEF Sweep
  <2>2. req'[r].at = s /\ req'[r].image = req[r].image /\ req'[r].user = req[r].user
    BY <1>1, <2>1 DEF Request
  <2> QED  BY <1>5, <2>2 DEF Sweep
<1> QED  BY <1>2, <1>3, <1>4, <1>5
-------------------------------------------------------------------------------
LEMMA AvatarsKept ==
  ASSUME TypeInv, AvatarInv, NEW r \in Slots, \A s \in Slots \ {r} : req'[s] = req[s],
         UNCHANGED <<avatar, images, erased>>, users' \subseteq users,
         req'[r].at \notin {"updating", "cleaning"},
         \/ req'[r].image = Null
         \/ req'[r].image = req[r].image /\ req'[r].user = req[r].user
         \/ req'[r].image = KeyFromUrl(avatar[req'[r].user]) /\ req'[r].user \in Users
  PROVE  AvatarInv'
<1>1. Null \notin Images  BY RemovalAssumption
<1>2. AvatarStored'  BY DEF AvatarInv, AvatarStored
<1>3. ASSUME NEW s \in Slots PROVE Private(s)'
  <2>1. CASE s = r  BY <1>1, <2>1 DEF AvatarInv, Private, KeyFromUrl
  <2>2. CASE s # r  BY <2>2 DEF AvatarInv, Private
  <2> QED  BY <2>1, <2>2
<1>4. ASSUME NEW s \in Slots, req'[s].at = "updating" PROVE Fresh(s)'
  <2>1. s # r /\ req'[s] = req[s] /\ Fresh(s) /\ req[s].new \in Images
    BY <1>4 DEF AvatarInv, TypeInv, WellFormed
  <2>2. req'[r].image # req[s].new  BY <1>1, <2>1 DEF Fresh, KeyFromUrl
  <2> QED  BY <2>1, <2>2 DEF Fresh
<1> QED  BY <1>2, <1>3, <1>4 DEF AvatarInv

\* An upload stores its image under a key that nothing refers to.
LEMMA StoreAvatar ==
  ASSUME TypeInv, AvatarInv, NEW r \in Slots, StoreImage(r)
  PROVE  AvatarInv'
<1>0. req \in [Slots -> Request]  BY DEF TypeInv, TypeOK
<1>1. CASE Answer(r) /\ UNCHANGED images
  <2>1. req'[r].image = Null /\ req'[r].at = "idle" /\ \A s \in Slots \ {r} : req'[s] = req[s]
    BY <1>0, <1>1 DEF Answer, Idle
  <2> QED  BY <1>1, <2>1, AvatarsKept DEF StoreImage, Answer
<1>2. CASE \E i \in Images \ InUse :
             /\ images' = images \cup {i}
             /\ req' = [req EXCEPT ![r].at = "updating", ![r].new = i]
             /\ erased' = {e \in erased : e[2] # i}
             /\ UNCHANGED <<overlapped, failed>>
  <2>1. PICK i \in Images \ InUse :
          /\ images' = images \cup {i}
          /\ req' = [req EXCEPT ![r].at = "updating", ![r].new = i]
          /\ erased' = {e \in erased : e[2] # i}
          /\ UNCHANGED <<overlapped, failed>>
    BY <1>2
  <2>2. /\ req'[r].at = "updating" /\ req'[r].new = i
        /\ req'[r].image = req[r].image /\ req'[r].user = req[r].user
        /\ \A s \in Slots \ {r} : req'[s] = req[s]
    BY <1>0, <2>1 DEF Request
  <2>3. /\ \A u \in Users : avatar[u] # i
        /\ \A s \in Slots : req[s].image # i /\ req[s].new # i
    BY <2>1 DEF InUse
  <2>4. UNCHANGED <<users, avatar>>  BY DEF StoreImage
  <2>5. AvatarStored'
    <3>1. ASSUME NEW u \in users, avatar[u] \in Images \ images'
          PROVE  <<u, avatar[u]>> \in erased'
      <4>1. u \in Users /\ <<u, avatar[u]>> \in erased
        BY <2>1, <3>1 DEF AvatarInv, AvatarStored, TypeInv, TypeOK
      <4> QED  BY <2>1, <2>3, <4>1
    <3> QED  BY <2>4, <3>1 DEF AvatarStored
  <2>6. ASSUME NEW s \in Slots PROVE Private(s)'
    <3>1. CASE s = r  BY <2>2, <2>4, <3>1 DEF AvatarInv, Private
    <3>2. CASE s # r  BY <2>2, <2>4, <3>2 DEF AvatarInv, Private
    <3> QED  BY <3>1, <3>2
  <2>7. ASSUME NEW s \in Slots, req'[s].at = "updating" PROVE Fresh(s)'
    <3>1. \A t \in Slots : req'[t].image = req[t].image /\ (t # r => req'[t] = req[t])
      BY <2>2
    <3>2. CASE s = r
      <4>1. \A t \in Slots : req'[t].image # i /\ (t # r => req'[t].new # i)
        BY <2>3, <3>1
      <4>2. i \in images' /\ req'[s].new = i /\ avatar' = avatar  BY <2>1, <2>2, <2>4, <3>2
      <4> QED  BY <2>3, <3>2, <4>1, <4>2 DEF Fresh
    <3>3. CASE s # r
      <4>1. Fresh(s) /\ req'[s] = req[s]  BY <2>2, <2>7, <3>3 DEF AvatarInv
      <4>2. req[s].new # i /\ req[s].new \in images' /\ avatar' = avatar
        BY <2>1, <2>3, <2>4, <4>1 DEF Fresh
      <4>3. \A t \in Slots : /\ req'[t].image # req[s].new
                             /\ t # s /\ req'[t].at = "updating" => req'[t].new # req[s].new
        BY <2>2, <3>1, <4>1, <4>2 DEF Fresh
      <4> QED  BY <4>1, <4>2, <4>3 DEF Fresh
    <3> QED  BY <3>2, <3>3
  <2> QED  BY <2>4, <2>5, <2>6, <2>7 DEF AvatarInv
<1> QED  BY <1>1, <1>2 DEF StoreImage

\* It becomes the avatar; the one it replaces is nobody's then.
LEMMA ReplaceAvatar ==
  ASSUME TypeInv, AvatarInv, NEW r \in Slots, UpdateAvatar(r)
  PROVE  AvatarInv'
<1>0. req \in [Slots -> Request] /\ avatar \in [Users -> Images \cup {Null, External}]
  BY DEF TypeInv, TypeOK
<1>1. /\ req[r].at = "updating" /\ req[r].user \in Users /\ req[r].new \in Images /\ Fresh(r)
      /\ UNCHANGED <<users, images, erased>>
  BY DEF UpdateAvatar, Await, Answer, AvatarInv, TypeInv, WellFormed
<1>2. CASE Answer(r) /\ UNCHANGED avatar
  <2>1. req'[r].image = Null /\ req'[r].at = "idle" /\ \A s \in Slots \ {r} : req'[s] = req[s]
    BY <1>0, <1>2 DEF Answer, Idle
  <2> QED  BY <1>1, <1>2, <2>1, AvatarsKept
<1>3. CASE avatar' = [avatar EXCEPT ![req[r].user] = req[r].new] /\ (Await(r, "cleaning") \/ Answer(r))
  <2>1. /\ \A s \in Slots \ {r} : req'[s] = req[s]
        /\ \/ req'[r].at = "cleaning" /\ req'[r].image = req[r].image /\ req'[r].user = req[r].user
           \/ req'[r].at = "idle" /\ req'[r].image = Null
    BY <1>0, <1>3 DEF Await, Answer, Idle, Request
  <2>2. /\ avatar'[req[r].user] = req[r].new
        /\ \A u \in Users \ {req[r].user} : avatar'[u] = avatar[u]
    BY <1>0, <1>1, <1>3
  <2>3. AvatarStored'
    BY <1>1, <2>2 DEF AvatarInv, AvatarStored, Fresh, TypeInv, TypeOK
  <2>4. \A u, v \in Users : avatar'[u] \in Images /\ avatar'[u] = avatar'[v] => u = v
    BY <1>1, <2>2 DEF AvatarInv, Fresh
  <2>5. ASSUME NEW s \in Slots PROVE Private(s)'
    <3>1. Private(s) /\ req[s].image # req[r].new  BY <1>1 DEF AvatarInv, Fresh
    <3>2. CASE s = r
      <4>1. \A u \in Users : avatar'[u] \in Images => avatar'[u] # req[r].image
        BY <2>2, <3>1, <3>2 DEF Private
      <4> QED  BY <2>1, <3>2, <4>1, RemovalAssumption DEF Private
    <3>3. CASE s # r  BY <2>1, <2>2, <3>1, <3>3 DEF Private
    <3> QED  BY <3>2, <3>3
  <2>6. ASSUME NEW s \in Slots, req'[s].at = "updating" PROVE Fresh(s)'
    <3>1. s # r /\ req'[s] = req[s] /\ Fresh(s)  BY <2>1, <2>6 DEF AvatarInv
    <3>2. req[s].new # req[r].new /\ req[s].new \in Images
      BY <1>1, <2>6, <3>1 DEF Fresh, TypeInv, WellFormed
    <3>3. req'[r].image # req[s].new  BY <2>1, <3>1, <3>2, RemovalAssumption DEF Fresh
    <3> QED  BY <1>1, <2>1, <2>2, <3>1, <3>2, <3>3 DEF Fresh
  <2> QED  BY <2>3, <2>4, <2>5, <2>6 DEF AvatarInv
<1> QED  BY <1>2, <1>3 DEF UpdateAvatar

\* What is deleted is nobody's avatar, or that of the account being removed.
LEMMA DeleteAvatar ==
  ASSUME TypeInv, AvatarInv, NEW r \in Slots, CleanAvatar(r) \/ RemoveAvatar(r)
  PROVE  AvatarInv'
<1>0. req \in [Slots -> Request] /\ images \subseteq Images  BY DEF TypeInv, TypeOK
<1>1. /\ UNCHANGED <<users, avatar>> /\ erased \subseteq erased'
      /\ images' = images \/ images' = images \ {req[r].image}
      /\ \A s \in Slots \ {r} : req'[s] = req[s]
      /\ \/ req'[r].at = "idle" /\ req'[r].image = Null
         \/ req'[r].at = "removing" /\ req'[r].image = req[r].image /\ req'[r].user = req[r].user
    BY <1>0 DEF CleanAvatar, RemoveAvatar, DeleteImage, Superseded, Answer, Idle, Request
<1>2. \A u \in users : avatar[u] \in Images \ images' /\ avatar[u] = req[r].image =>
        <<u, avatar[u]>> \in erased'
  <2>1. CASE CleanAvatar(r)
    BY <2>1 DEF CleanAvatar, AvatarInv, Private, TypeInv, TypeOK
  <2>2. CASE RemoveAvatar(r)
    BY <2>2 DEF RemoveAvatar, AvatarInv, Private, TypeInv, TypeOK
  <2> QED  BY <2>1, <2>2
<1>3. AvatarStored'  BY <1>1, <1>2 DEF AvatarInv, AvatarStored
<1>4. ASSUME NEW s \in Slots PROVE Private(s)'
  <2>1. CASE s = r  BY <1>1, <2>1, RemovalAssumption DEF AvatarInv, Private
  <2>2. CASE s # r  BY <1>1, <2>2 DEF AvatarInv, Private
  <2> QED  BY <2>1, <2>2
<1>5. ASSUME NEW s \in Slots, req'[s].at = "updating" PROVE Fresh(s)'
  <2>1. s # r /\ req'[s] = req[s] /\ Fresh(s) /\ req[s].new \in Images
    BY <1>1, <1>5 DEF AvatarInv, TypeInv, WellFormed
  <2>2. req'[r].image # req[s].new  BY <1>1, <2>1, RemovalAssumption DEF Fresh
  <2> QED  BY <1>1, <2>1, <2>2 DEF Fresh
<1> QED  BY <1>1, <1>3, <1>4, <1>5 DEF AvatarInv

LEMMA NextAvatar == TypeInv /\ AvatarInv /\ [Next]_vars => AvatarInv'
<1> SUFFICES ASSUME TypeInv, AvatarInv, [Next]_vars PROVE AvatarInv'  OBVIOUS
<1>1. CASE UNCHANGED vars
  BY <1>1 DEF vars, data, AvatarInv, AvatarStored, Private, Fresh
<1>2. ASSUME NEW r \in Slots, StepOf(r) PROVE AvatarInv'
  <2>1. \A s \in Slots \ {r} : req'[s] = req[s]  BY <1>2, OthersWait
  <2>2. CASE \E u \in Users :
               \/ UploadAvatar(r, u) \/ DeleteAccount(r, u)
               \/ \E m \in Meetings :
                    CreateMeeting(r, u, m) \/ \E k \in AddedKinds : AddDocument(r, u, m, k)
    <3>1. Begun(req'[r]) /\ UNCHANGED <<users, avatar, images, erased>>  BY <2>2, Begins
    <3>2. req'[r].at \notin {"updating", "cleaning"}  BY <3>1 DEF Begun
    <3> QED  BY <2>1, <3>1, <3>2, AvatarsKept DEF Begun
  <2>3. CASE \/ InsertDocument(r) \/ ListMeetings(r) \/ RemoveMeetings(r) \/ RemoveTranscripts(r)
             \/ Sweep(r) \/ RemoveUser(r) \/ Lose(r)
    <3>1. req'[r].at \notin {"updating", "cleaning"}  BY <2>3, GoesOn DEF Idle
    <3>2. \/ req'[r].image = Null
          \/ req'[r].image = req[r].image /\ req'[r].user = req[r].user
      BY <2>3, GoesOn DEF Idle
    <3>3. UNCHANGED <<avatar, images, erased>> /\ users' \subseteq users  BY <2>3, GoesOn
    <3> QED  BY <2>1, <3>1, <3>2, <3>3, AvatarsKept
  <2> QED  BY <1>2, <2>2, <2>3, StoreAvatar, ReplaceAvatar, DeleteAvatar DEF StepOf
<1> QED  BY <1>1, <1>2, StepIsOf

LEMMA InitAvatar == Init => AvatarInv
BY RemovalAssumption DEF Init, AvatarInv, AvatarStored, Private, Fresh, Idle

\* However uploads and removals overlap, die and fail, a user's avatar is an
\* image that is there, or one that a removal of this very account deleted
\* (users.controller.ts:55-65, users.resolver.ts:83).
THEOREM AvatarStoredHolds == Spec => []AvatarStored
<1>1. Init => TypeInv /\ AvatarInv  BY InitShape, InitAvatar DEF IInv
<1>2. TypeInv /\ AvatarInv /\ [Next]_vars => (TypeInv /\ AvatarInv)'  BY NextShape, NextAvatar
<1>3. AvatarInv => AvatarStored  BY DEF AvatarInv
<1> QED  BY <1>1, <1>2, <1>3, PTL DEF Spec
-------------------------------------------------------------------------------
(***************************************************************************)
(* Images.  Without overlap and failures the images are the avatars of the *)
(* users, but for the one a removal has deleted, and the one an upload has *)
(* stored or replaced.                                                     *)
(***************************************************************************)
Leaving(q) == {q[r].user : r \in {s \in Slots : q[s].at = "removing"}}
Pending(q) == {q[r].new : r \in {s \in Slots : q[s].at = "updating"}}
                \cup {q[r].image : r \in {s \in Slots : q[s].at = "cleaning"}}
Hosted(us) == {avatar[u] : u \in us} \cap Images
HoldsAvatar(q) ==
  q.at \in {"uploading", "updating", "listing", "clearing", "untranscribing", "sweeping", "unhosting"}

ImagesInv ==
  ~overlapped /\ ~failed =>
    /\ images = Hosted(users \ Leaving(req)) \cup Pending(req)
    /\ \A r \in Slots : HoldsAvatar(req[r]) => req[r].image = KeyFromUrl(avatar[req[r].user])
    /\ \A r \in Slots : req[r].at \in {"cleaning", "unhosting"} => req[r].image # Null

\* Which images are on their way when one request is in flight at most.
LEMMA OfOne ==
  ASSUME NEW q, NEW r \in Slots, \A s \in Slots \ {r} : q[s].at = "idle"
  PROVE  /\ Leaving(q) = IF q[r].at = "removing" THEN {q[r].user} ELSE {}
         /\ Pending(q) = IF q[r].at = "updating" THEN {q[r].new}
                         ELSE IF q[r].at = "cleaning" THEN {q[r].image} ELSE {}
BY DEF Leaving, Pending

LEMMA HostedWithout ==
  ASSUME TypeInv, AvatarInv, NEW u \in users
  PROVE  /\ Hosted(users \ {u}) = Hosted(users) \ {avatar[u]}
         /\ KeyFromUrl(avatar[u]) # Null =>
              avatar[u] = KeyFromUrl(avatar[u]) /\ avatar[u] \in Hosted(users)
         /\ KeyFromUrl(avatar[u]) = Null => Hosted(users \ {u}) = Hosted(users)
<1>1. users \subseteq Users /\ Null \notin Images  BY RemovalAssumption DEF TypeInv, TypeOK
<1>2. Hosted(users \ {u}) = Hosted(users) \ {avatar[u]}  BY <1>1 DEF Hosted, AvatarInv
<1>3. KeyFromUrl(avatar[u]) = Null => avatar[u] \notin Images  BY <1>1 DEF KeyFromUrl
<1> QED  BY <1>1, <1>2, <1>3 DEF Hosted, KeyFromUrl

\* A step without overlap and failure: nothing else is in flight.
LEMMA Undisturbed ==
  ASSUME TypeInv, SerialInv, NEW r \in Slots, StepOf(r), ~overlapped', ~failed'
  PROVE  /\ ~overlapped /\ ~failed /\ \A s \in Slots \ {r} : req[s].at = "idle" /\ req'[s] = req[s]
         /\ req[r].at # "idle" => req[r].user \in users
<1>1. CASE \E u \in Users :
             \/ UploadAvatar(r, u) \/ DeleteAccount(r, u)
             \/ \E m \in Meetings :
                  CreateMeeting(r, u, m) \/ \E k \in AddedKinds : AddDocument(r, u, m, k)
  BY <1>1, Begins DEF Quiet
<1>2. CASE \/ InsertDocument(r) \/ StoreImage(r) \/ UpdateAvatar(r) \/ CleanAvatar(r)
           \/ ListMeetings(r) \/ RemoveMeetings(r) \/ RemoveTranscripts(r) \/ Sweep(r)
           \/ RemoveAvatar(r) \/ RemoveUser(r) \/ Lose(r)
  <2>1. overlapped' = overlapped /\ req[r].at # "idle"
    BY <1>2
       DEF InsertDocument, StoreImage, UpdateAvatar, CleanAvatar, ListMeetings, RemoveMeetings,
           RemoveTranscripts, Sweep, RemoveAvatar, RemoveUser, Lose, Answer, Await
  <2>2. ~failed
    BY <1>2
       DEF InsertDocument, StoreImage, UpdateAvatar, CleanAvatar, DeleteImage, ListMeetings,
           RemoveMeetings, RemoveTranscripts, Sweep, RemoveAvatar, RemoveUser, Lose
  <2> QED  BY <2>1, <2>2, OthersWait DEF SerialInv
<1> QED  BY <1>1, <1>2 DEF StepOf

\* The invariant for a request that is alone.
ImagesOf(q) ==
  /\ images = Hosted(users \ (IF q.at = "removing" THEN {q.user} ELSE {}))
                \cup (IF q.at = "updating" THEN {q.new}
                      ELSE IF q.at = "cleaning" THEN {q.image} ELSE {})
  /\ HoldsAvatar(q) => q.image = KeyFromUrl(avatar[q.user])
  /\ q.at \in {"cleaning", "unhosting"} => q.image # Null

LEMMA ImagesStep ==
  ASSUME TypeInv, SerialInv, AvatarInv, ImagesInv, NEW r \in Slots, StepOf(r)
  PROVE  ImagesInv'
<1> SUFFICES ASSUME ~overlapped', ~failed' PROVE ImagesInv'  BY DEF ImagesInv
<1>a. /\ ~overlapped /\ ~failed /\ \A s \in Slots \ {r} : req[s].at = "idle" /\ req'[s] = req[s]
      /\ req[r].at # "idle" => req[r].user \in users
  BY Undisturbed
<1>b. req \in [Slots -> Request] /\ avatar \in [Users -> Images \cup {Null, External}]
      /\ users \subseteq Users /\ Null \notin Images
  BY RemovalAssumption DEF TypeInv, TypeOK
<1>c. ImagesOf(req[r])
  <2>1. /\ Leaving(req) = IF req[r].at = "removing" THEN {req[r].user} ELSE {}
        /\ Pending(req) = IF req[r].at = "updating" THEN {req[r].new}
                          ELSE IF req[r].at = "cleaning" THEN {req[r].image} ELSE {}
    BY <1>a, OfOne
  <2> QED  BY <1>a, <2>1 DEF ImagesInv, ImagesOf
<1>d. SUFFICES (ImagesOf(req[r]))'
  <2>1. /\ Leaving(req') = IF req'[r].at = "removing" THEN {req'[r].user} ELSE {}
        /\ Pending(req') = IF req'[r].at = "updating" THEN {req'[r].new}
                           ELSE IF req'[r].at = "cleaning" THEN {req'[r].image} ELSE {}
    BY <1>a, OfOne
  <2>2. ASSUME NEW s \in Slots, s # r
        PROVE  ~HoldsAvatar(req'[s]) /\ req'[s].at \notin {"cleaning", "unhosting"}
    BY <1>a, <2>2 DEF HoldsAvatar
  <2> QED  BY <1>d, <2>1, <2>2 DEF ImagesInv, ImagesOf, Leaving, Pending
<1> USE DEF ImagesOf, HoldsAvatar
<1>1. CASE \E u \in Users :
             \/ UploadAvatar(r, u) \/ DeleteAccount(r, u)
             \/ \E m \in Meetings :
                  CreateMeeting(r, u, m) \/ \E k \in AddedKinds : AddDocument(r, u, m, k)
  <2>1. Begun(req'[r]) /\ req[r].at = "idle" /\ UNCHANGED <<users, avatar, images>>  BY <1>1, Begins
  <2> QED  BY <1>c, <2>1 DEF Begun, Hosted
<1>2. CASE ListMeetings(r) \/ RemoveMeetings(r) \/ RemoveTranscripts(r) \/ InsertDocument(r)
  <2>1. /\ UNCHANGED <<users, avatar, images>>
        /\ \/ req'[r] = Idle /\ req[r].at \in {"transcribing", "adding"}
           \/ /\ req'[r].image = req[r].image /\ req'[r].user = req[r].user
              /\ req'[r].at \in {"clearing", "untranscribing", "sweeping"}
              /\ req[r].at \in {"listing", "clearing", "untranscribing"}
    BY <1>2, <1>b
       DEF ListMeetings, RemoveMeetings, RemoveTranscripts, InsertDocument, Answer, Await, data,
           Request
  <2>2. Idle.at = "idle"  BY DEF Idle
  <2> QED  BY <1>c, <2>1, <2>2 DEF Hosted
<1>3. CASE Sweep(r)
  <2>1. /\ UNCHANGED <<users, avatar, images>> /\ req[r].at = "sweeping"
        /\ req'[r].image = req[r].image /\ req'[r].user = req[r].user
        /\ \/ req'[r].at = "sweeping"
           \/ req'[r].at = "unhosting" /\ req[r].image # Null
           \/ req'[r].at = "removing" /\ req[r].image = Null
    <3>1. PICK k \in req[r].kinds :
            req' = [req EXCEPT ![r].kinds = @ \ {k},
                               ![r].at = IF req[r].kinds # {k} THEN @
                                         ELSE IF req[r].image # Null THEN "unhosting" ELSE "removing"]
      BY <1>3 DEF Sweep
    <3> QED  BY <1>3, <1>b, <3>1 DEF Sweep, Request
  <2>2. req[r].user \in users /\ req[r].image = KeyFromUrl(avatar[req[r].user])  BY <1>a, <1>c, <2>1
  <2>3. req[r].image = Null => Hosted(users \ {req[r].user}) = Hosted(users)
    BY <2>2, HostedWithout
  <2>4. images = Hosted(users)  BY <1>c, <2>1
  <2>5. \A us : Hosted(us)' = Hosted(us)  BY <2>1 DEF Hosted
  <2> QED  BY <1>c, <2>1, <2>2, <2>3, <2>4 DEF Hosted
<1>4. CASE RemoveAvatar(r)
  <2>1. /\ UNCHANGED <<users, avatar>> /\ images' = images \ {req[r].image}
        /\ req[r].at = "unhosting" /\ req'[r].at = "removing" /\ req'[r].user = req[r].user
    BY <1>4, <1>b DEF RemoveAvatar, DeleteImage, Request
  <2>2. req[r].user \in users /\ req[r].image = KeyFromUrl(avatar[req[r].user]) /\ req[r].image # Null
    BY <1>a, <1>c, <2>1
  <2>3. images' = Hosted(users \ {req[r].user})  BY <1>c, <2>1, <2>2, HostedWithout
  <2> QED  BY <2>1, <2>3 DEF Hosted
<1>5. CASE RemoveUser(r)
  <2>1. /\ UNCHANGED <<avatar, images>> /\ users' = users \ {req[r].user}
        /\ req[r].at = "removing" /\ req'[r] = Idle /\ Idle.at = "idle"
    BY <1>5, <1>b DEF RemoveUser, Answer, Idle
  <2> QED  BY <1>c, <2>1 DEF Hosted
<1>6. CASE StoreImage(r)
  <2>1. /\ UNCHANGED <<users, avatar>> /\ req[r].at = "uploading"
        /\ \E i \in Images : /\ images' = images \cup {i}
                             /\ req' = [req EXCEPT ![r].at = "updating", ![r].new = i]
    BY <1>6 DEF StoreImage
  <2>2. /\ req'[r].at = "updating" /\ images' = images \cup {req'[r].new}
        /\ req'[r].image = req[r].image /\ req'[r].user = req[r].user
    BY <1>b, <2>1 DEF Request
  <2>3. images' = Hosted(users) \cup {req'[r].new}  BY <1>c, <2>1, <2>2
  <2>4. req'[r].image = KeyFromUrl(avatar[req'[r].user])  BY <1>c, <2>1, <2>2
  <2> QED  BY <2>1, <2>2, <2>3, <2>4 DEF Hosted
<1>7. CASE UpdateAvatar(r)
  <2> DEFINE u == req[r].user
             i == req[r].image
             j == req[r].new
  <2>1. /\ u \in users /\ req[r].at = "updating" /\ j \in Images /\ i = KeyFromUrl(avatar[u])
        /\ images = Hosted(users) \cup {j}
    BY <1>a, <1>c, <1>7 DEF UpdateAvatar, TypeInv, WellFormed
  <2>2. /\ UNCHANGED <<users, images>> /\ avatar' = [avatar EXCEPT ![u] = j]
        /\ IF i # Null THEN Await(r, "cleaning") ELSE Answer(r)
    <3>1. i # j  BY <2>1 DEF AvatarInv, Fresh
    <3> QED  BY <1>7, <2>1, <3>1 DEF UpdateAvatar
  <2> HIDE DEF u, i, j
  <2>3. Hosted(users)' = Hosted(users \ {u}) \cup {j}
    <3>1. avatar'[u] = j /\ \A v \in users \ {u} : avatar'[v] = avatar[v]  BY <1>b, <2>1, <2>2
    <3> QED  BY <2>1, <2>2, <3>1 DEF Hosted
  <2>4. CASE i # Null
    <3>1. /\ req'[r].at = "cleaning" /\ req'[r].image = i
      BY <1>b, <2>2, <2>4 DEF Await, Request, i
    <3>2. images' = Hosted(users)' \cup {i}  BY <2>1, <2>2, <2>3, <2>4, HostedWithout
    <3> QED  BY <2>4, <3>1, <3>2 DEF Hosted
  <2>5. CASE i = Null
    <3>1. req'[r].at = "idle"  BY <1>b, <2>2, <2>5 DEF Answer, Idle
    <3>2. images' = Hosted(users)'  BY <2>1, <2>2, <2>3, <2>5, HostedWithout
    <3> QED  BY <3>1, <3>2 DEF Hosted
  <2> QED  BY <2>4, <2>5
<1>8. CASE CleanAvatar(r)
  <2>1. /\ UNCHANGED <<users, avatar>> /\ images' = images \ {req[r].image}
        /\ req[r].at = "cleaning" /\ req'[r].at = "idle"
    BY <1>8, <1>b DEF CleanAvatar, DeleteImage, Superseded, Answer, Idle
  <2>2. req[r].image \notin Hosted(users)
    BY <1>b, <2>1 DEF AvatarInv, Private, Hosted
  <2> QED  BY <1>c, <2>1, <2>2 DEF Hosted
<1>9. ~Lose(r)  BY DEF Lose
<1> QED  BY <1>1, <1>2, <1>3, <1>4, <1>5, <1>6, <1>7, <1>8, <1>9 DEF StepOf

\* Without overlap and failures no image is orphaned, through any sequence of
\* uploads and removals of accounts (users.controller.ts:62, users.resolver.ts:82-83).
THEOREM NoOrphans == Spec => []NoOrphanImages
<1> DEFINE Inv == TypeInv /\ SerialInv /\ AvatarInv /\ ImagesInv
<1>1. Init => Inv
  <2>1. Init => ImagesInv
    BY RemovalAssumption DEF Init, ImagesInv, Hosted, Leaving, Pending, HoldsAvatar, Idle
  <2> QED  BY <2>1, InitShape, InitSerial, InitAvatar DEF IInv
<1>2. Inv /\ [Next]_vars => Inv'
  <2> SUFFICES ASSUME Inv, [Next]_vars PROVE ImagesInv'  BY NextShape, NextSerial, NextAvatar
  <2>1. CASE UNCHANGED vars
    BY <2>1 DEF vars, data, ImagesInv, Hosted, Leaving, Pending, HoldsAvatar, KeyFromUrl
  <2>2. CASE Next  BY <2>2, StepIsOf, ImagesStep
  <2> QED  BY <2>1, <2>2
<1>3. Inv => NoOrphanImages
  <2> SUFFICES ASSUME ImagesInv, ~overlapped, ~failed, Quiet
               PROVE  images = {avatar[u] : u \in users} \cap Images
    BY DEF NoOrphanImages
  <2>1. Leaving(req) = {} /\ Pending(req) = {}  BY DEF Quiet, Leaving, Pending
  <2> QED  BY <2>1 DEF ImagesInv, Hosted
<1> QED  BY <1>1, <1>2, <1>3, PTL DEF Spec
-------------------------------------------------------------------------------
(***************************************************************************)
(* Documents.  Without overlap and failures each is about a meeting that   *)
(* is stored, or the removal that deleted the meeting will delete it.      *)
(***************************************************************************)
Going(q, d) ==
  /\ q.at \in {"untranscribing", "sweeping"} /\ d.meeting \in q.ids
  /\ q.at = "sweeping" => d.kind \in q.kinds

DocumentsInv ==
  ~overlapped /\ ~failed =>
    /\ \A d \in docs : d.meeting \in meetings \/ \E r \in Slots : Going(req[r], d)
    /\ \A r \in Slots : req[r].at \in {"transcribing", "adding"} => req[r].meeting \in meetings

LEMMA DocumentsStep ==
  ASSUME TypeInv, SerialInv, DocumentsInv, NEW r \in Slots, StepOf(r)
  PROVE  DocumentsInv'
<1> SUFFICES ASSUME ~overlapped', ~failed' PROVE DocumentsInv'  BY DEF DocumentsInv
<1>a. ~overlapped /\ ~failed /\ \A s \in Slots \ {r} : req[s].at = "idle" /\ req'[s] = req[s]
  BY Undisturbed
<1>b. req \in [Slots -> Request] /\ docs \subseteq Document
  BY DEF TypeInv, TypeOK
<1>c. /\ \A d \in docs : d.meeting \in meetings \/ Going(req[r], d)
      /\ req[r].at \in {"transcribing", "adding"} => req[r].meeting \in meetings
  BY <1>a DEF DocumentsInv, Going
<1>d. SUFFICES /\ \A d \in docs' : d.meeting \in meetings' \/ Going(req'[r], d)
               /\ req'[r].at \in {"transcribing", "adding"} => req'[r].meeting \in meetings'
  BY <1>a, <1>d DEF DocumentsInv
<1>1. CASE \E u \in Users : UploadAvatar(r, u) \/ DeleteAccount(r, u)
  <2>1. /\ req[r].at = "idle" /\ req'[r].at \in {"uploading", "listing"}
        /\ UNCHANGED <<docs, meetings>>
    BY <1>1, <1>b DEF UploadAvatar, DeleteAccount, Send, Idle, data
  <2> QED  BY <1>c, <2>1 DEF Going
<1>2. CASE \E u \in Users, m \in Meetings :
             CreateMeeting(r, u, m) \/ \E k \in AddedKinds : AddDocument(r, u, m, k)
  <2>1. /\ req[r].at = "idle" /\ req'[r].at \in {"transcribing", "adding"}
        /\ req'[r].meeting \in meetings'
        /\ docs' = docs /\ meetings \subseteq meetings'
    <3>1. PICK u \in Users, m \in Meetings :
            CreateMeeting(r, u, m) \/ \E k \in AddedKinds : AddDocument(r, u, m, k)
      BY <1>2
    <3>2. PICK s \in {"transcribing", "adding"}, ks \in {{k} : k \in AddedKinds} \cup SUBSET {"transcript"} :
            Send(r, [Idle EXCEPT !.at = s, !.user = u, !.meeting = m, !.kinds = ks])
      BY <3>1 DEF CreateMeeting, AddDocument
    <3>3. /\ req[r].at = "idle"
          /\ req'[r] = [Idle EXCEPT !.at = s, !.user = u, !.meeting = m, !.kinds = ks]
      BY <1>b, <3>2 DEF Send
    <3>4. req'[r].at = s /\ req'[r].meeting = m  BY <3>3 DEF Idle
    <3>5. m \in meetings' /\ docs' = docs /\ meetings \subseteq meetings'
      BY <3>1 DEF CreateMeeting, AddDocument, data
    <3> QED  BY <3>3, <3>4, <3>5
  <2> QED  BY <1>c, <2>1 DEF Going
<1>3. CASE InsertDocument(r)
  <2>1. /\ req[r].at \in {"transcribing", "adding"} /\ docs' = docs \cup Inserted(req[r])
        /\ meetings' = meetings /\ req'[r] = Idle /\ Idle.at = "idle"
    BY <1>3, <1>b DEF InsertDocument, Answer, Idle
  <2>2. \A d \in Inserted(req[r]) : d.meeting \in meetings  BY <1>c, <2>1 DEF Inserted
  <2> QED  BY <1>c, <2>1, <2>2 DEF Going
<1>4. CASE StoreImage(r) \/ UpdateAvatar(r) \/ CleanAvatar(r) \/ ListMeetings(r)
  <2>1. /\ UNCHANGED <<docs, meetings>> /\ req[r].at \notin {"untranscribing", "sweeping"}
        /\ req'[r].at \notin {"transcribing", "adding"}
    BY <1>4, <1>b
       DEF StoreImage, UpdateAvatar, CleanAvatar, ListMeetings, Answer, Await, Idle, data, Request
  <2> QED  BY <1>c, <2>1 DEF Going
<1>5. CASE RemoveMeetings(r)
  <2>1. /\ docs' = docs /\ meetings' = meetings \ req[r].ids /\ req[r].at = "clearing"
        /\ req'[r].at = "untranscribing" /\ req'[r].ids = req[r].ids
    BY <1>5, <1>b DEF RemoveMeetings, Await, Request
  <2> QED  BY <1>c, <2>1 DEF Going
<1>6. CASE RemoveTranscripts(r)
  <2>1. /\ docs' = docs \ Of(req[r].ids, {"transcript"}) /\ meetings' = meetings
        /\ req[r].at = "untranscribing" /\ req'[r].at = "sweeping" /\ req'[r].ids = req[r].ids
        /\ req'[r].kinds = {"attendee", "item", "result"}
    BY <1>6, <1>b DEF RemoveTranscripts, Request
  <2>2. \A d \in docs : d.kind \in Kinds  BY <1>b DEF Document
  <2> QED  BY <1>c, <2>1, <2>2 DEF Going, Of, Kinds
<1>7. CASE Sweep(r)
  <2>1. PICK k \in req[r].kinds :
          /\ docs' = docs \ Swept(req[r].ids, k)
          /\ req' = [req EXCEPT ![r].kinds = @ \ {k},
                                ![r].at = IF req[r].kinds # {k} THEN @
                                          ELSE IF req[r].image # Null THEN "unhosting" ELSE "removing"]
    BY <1>7 DEF Sweep
  <2>2. /\ req[r].at = "sweeping" /\ meetings' = meetings /\ req'[r].ids = req[r].ids
        /\ req'[r].kinds = req[r].kinds \ {k}
        /\ req'[r].at = IF req[r].kinds # {k} THEN "sweeping"
                        ELSE IF req[r].image # Null THEN "unhosting" ELSE "removing"
    BY <1>7, <1>b, <2>1 DEF Sweep, Request
  <2>3. ASSUME NEW d \in docs', d.meeting \notin meetings PROVE Going(req'[r], d)
    <3>1. d \in docs /\ d \notin Swept(req[r].ids, k)  BY <2>1, <2>3
    <3>2. d.meeting \in req[r].ids /\ d.kind \in req[r].kinds  BY <1>c, <2>2, <2>3, <3>1 DEF Going
    <3>3. d.kind # k  BY <3>1, <3>2 DEF Swept, Of
    <3> QED  BY <2>2, <3>2, <3>3 DEF Going
  <2> QED  BY <2>2, <2>3
<1>8. CASE RemoveAvatar(r) \/ RemoveUser(r)
  <2>1. /\ UNCHANGED <<docs, meetings>> /\ req[r].at \notin {"untranscribing", "sweeping"}
        /\ req'[r].at \notin {"transcribing", "adding"}
    BY <1>8, <1>b DEF RemoveAvatar, RemoveUser, Answer, Idle, Request
  <2> QED  BY <1>c, <2>1 DEF Going
<1>9. ~Lose(r)  BY DEF Lose
<1> QED  BY <1>1, <1>2, <1>3, <1>4, <1>5, <1>6, <1>7, <1>8, <1>9 DEF StepOf

\* Without overlap and failures a removed account leaves no meeting and no
\* document of any kind behind (users.resolver.ts:75-85).
THEOREM RemovalsAreComplete == Spec => []RemovalIsComplete
<1> DEFINE Inv == IInv /\ SerialInv /\ DocumentsInv
<1>1. Init => Inv
  <2>1. Init => DocumentsInv  BY DEF Init, DocumentsInv, Idle
  <2> QED  BY <2>1, InitShape, InitSerial
<1>2. Inv /\ [Next]_vars => Inv'
  <2> SUFFICES ASSUME Inv, [Next]_vars PROVE DocumentsInv'
    BY NextShape, NextScoped, NextSerial DEF IInv
  <2>1. CASE UNCHANGED vars  BY <2>1 DEF vars, data, DocumentsInv, Going
  <2>2. CASE Next  BY <2>2, StepIsOf, DocumentsStep DEF IInv
  <2> QED  BY <2>1, <2>2
<1>3. Inv => RemovalIsComplete
  <2> SUFFICES ASSUME Inv, ~overlapped, ~failed, NEW u \in Users \ users
               PROVE  Owned(u) \cap meetings = {} /\ Of(Owned(u), Kinds) = {}
    BY DEF RemovalIsComplete
  <2>1. Owned(u) \cap meetings = {}  BY DEF SerialInv, Owned
  <2>2. ASSUME NEW d \in docs, d.meeting \in Owned(u) PROVE FALSE
    <3>1. PICK r \in Slots : Going(req[r], d)  BY <2>1, <2>2 DEF DocumentsInv
    <3>2. owner[d.meeting] = req[r].user  BY <3>1 DEF Going, Deleting, IInv, Scoped
    <3>3. req[r].user \in users  BY <3>1 DEF Going, SerialInv
    <3> QED  BY <2>2, <3>2, <3>3 DEF Owned
  <2> QED  BY <2>1, <2>2 DEF Of
<1> QED  BY <1>1, <1>2, <1>3, PTL DEF Spec
===============================================================================
