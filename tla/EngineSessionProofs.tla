------------------------- MODULE EngineSessionProofs -------------------------
(***************************************************************************)
(* Proofs about EngineSession, for every kind of session, every number of  *)
(* devices, links, face submissions and faults, and every deadline: the    *)
(* types, who may write, that nothing is stored past the deadline, and     *)
(* what decides a session.                                                 *)
(***************************************************************************)
EXTENDS EngineSession, TLAPS, SequenceTheorems, FiniteSetTheorems

----------------------------------------------------------------------------
(* The types.                                                              *)

SlotType  == [tok : Tokens, inactive : BOOLEAN, stale : BOOLEAN]
GrantType == [id : 0..kind.links, exp : Nat, used : BOOLEAN]
FaceType  == [n : 0..MaxAttempts, ok : BOOLEAN, by : Tokens]
CallType  == [pc : {"idle", "verify", "spent", "refunded"}, tok : Tokens, n : 0..MaxAttempts]
SubType   == [pc : {"idle", "built"}, tok : Tokens, n : 0..MaxAttempts, ok : BOOLEAN,
              to : {"none", "approved", "rejected", "needs_review"}]
Methods   == {"idem", "yivi", "browser", "pending"}
SessType  == [status : Statuses, method : Methods, exp : 0..MaxLifetime, ended : 0..MaxNow,
              slot : [Roles -> SlotType], grant : [Roles -> GrantType],
              reserved : 0..MaxAttempts, doc : {"none", "mrz", "chip"}, chip : Tokens,
              face : FaceType, photo : BOOLEAN, pics : BOOLEAN, shown : BOOLEAN,
              result : [n : 0..MaxAttempts, ok : BOOLEAN]]

Typed ==
  /\ now \in 0..MaxNow /\ kind \in Kinds
  /\ sess \in SessType
  /\ issued \in Seq([role : Roles, grant : 0..kind.links]) /\ Len(issued) <= kind.devices
  /\ minted \in 0..kind.links
  /\ call \in [Calls -> CallType]
  /\ sub \in [Submitters -> SubType]
  /\ \A p \in Submitters : sub[p].pc = "built" => sub[p].to # "none"
  /\ waiting \in BOOLEAN /\ raced \in BOOLEAN
  /\ void \subseteq 0..kind.links
  /\ queued \in BOOLEAN /\ telling \in {"no", "told", "read"}
  /\ seen \in Statuses /\ faults \in 0..kind.faults

(* The bounds and the kind of session are what the assumption says.        *)
LEMMA KindTypes ==
  ASSUME kind \in Kinds
  PROVE  /\ kind.method \in Methods /\ kind.photo \in BOOLEAN /\ kind.keep \in BOOLEAN
         /\ kind.outcome \in {"approved", "rejected", "needs_review"}
         /\ kind.devices \in Nat /\ kind.links \in Nat /\ kind.faces \in Nat /\ kind.faults \in Nat
         /\ kind.told \in BOOLEAN
         /\ kind.method = "idem" => kind.links > 0
BY SessionAssumption DEF Methods

LEMMA BoundTypes ==
  /\ MaxAttempts \in Nat /\ CreateTTL \in Nat /\ OpenTTL \in Nat /\ MaxLifetime \in Nat
  /\ GrantTTL \in Nat /\ Retention \in Nat /\ MaxNow \in Nat /\ MaxAttempts > 0
BY SessionAssumption

(* A session with one part of it replaced is a session.                    *)
LEMMA Parts ==
  ASSUME NEW s \in SessType
  PROVE  /\ \A x \in Statuses : [s EXCEPT !.status = x] \in SessType
         /\ \A x \in Methods : [s EXCEPT !.method = x] \in SessType
         /\ \A x \in 0..MaxLifetime : [s EXCEPT !.exp = x] \in SessType
         /\ \A x \in 0..MaxNow : [s EXCEPT !.ended = x] \in SessType
         /\ \A x \in [Roles -> SlotType] : [s EXCEPT !.slot = x] \in SessType
         /\ \A x \in [Roles -> GrantType] : [s EXCEPT !.grant = x] \in SessType
         /\ \A x \in 0..MaxAttempts : [s EXCEPT !.reserved = x] \in SessType
         /\ \A x \in {"none", "mrz", "chip"} : [s EXCEPT !.doc = x] \in SessType
         /\ \A x \in Tokens : [s EXCEPT !.chip = x] \in SessType
         /\ \A x \in FaceType : [s EXCEPT !.face = x] \in SessType
         /\ \A x \in BOOLEAN : [s EXCEPT !.photo = x] \in SessType
         /\ \A x \in BOOLEAN : [s EXCEPT !.pics = x] \in SessType
         /\ \A x \in BOOLEAN : [s EXCEPT !.shown = x] \in SessType
         /\ \A x \in [n : 0..MaxAttempts, ok : BOOLEAN] : [s EXCEPT !.result = x] \in SessType
BY DEF SessType

LEMMA Transits ==
  ASSUME NEW s \in Statuses
  PROVE  /\ s \in {"created", "opened", "in_progress", "needs_review"} <=> "cancelled" \in Transitions[s]
         /\ Transitions[s] \subseteq Statuses
BY DEF Transitions, Statuses, Running, Terminal

LEMMA SetStatusTyped ==
  ASSUME Typed, NEW s \in SessType, NEW to \in Statuses
  PROVE  /\ SetStatus(s, to) \in SessType
         /\ InProgress(s) \in SessType
<1>1. \A x \in Statuses, e \in 0..MaxNow : [s EXCEPT !.status = x, !.ended = e] \in SessType
  BY DEF SessType
<1>2. ASSUME NEW x \in Statuses
      PROVE  SetStatus(s, x) \in SessType
  <2>1. s.ended \in 0..MaxNow /\ now \in 0..MaxNow
    BY DEF SessType, Typed
  <2> QED  BY <1>1, <2>1 DEF SetStatus
<1>3. "in_progress" \in Statuses  BY DEF Statuses, Running
<1> QED  BY <1>2, <1>3 DEF InProgress

LEMMA StoredTyped ==
  ASSUME Typed, NEW s \in SessType
  PROVE  ForStorage(s) \in SessType
<1>1. NoFace \in FaceType  BY BoundTypes, KindTypes DEF NoFace, FaceType, Tokens, Typed
<1>2. 0 \in Tokens  BY KindTypes DEF Tokens, Typed
<1>3. [s EXCEPT !.doc = "none", !.chip = 0, !.face = NoFace, !.photo = FALSE, !.pics = FALSE] \in SessType
  BY <1>1, <1>2 DEF SessType
<1> QED  BY <1>3 DEF ForStorage

LEMMA FreshTyped ==
  ASSUME Typed
  PROVE  Fresh \in SessType
<1>1. sess \in SessType /\ "expired" \in Statuses  BY DEF Typed, Statuses, Terminal
<1> QED  BY <1>1, SetStatusTyped, StoredTyped DEF Fresh

----------------------------------------------------------------------------
(* What the steps store.  A step that does more than note the deadline     *)
(* found the session before it.                                            *)

Open   == sess.status \in Running /\ ~IsExpired(sess)

Quiet  == sess' = sess
Lapses == sess.status # "gone" /\ sess' = ForStorage(Fresh)
Erases == (DeleteSession \/ RemoveFinished) /\ sess' = Erased

Claims(r)    == Open /\ ClaimHandover(r) /\ sess' = OpenLocked(Redeem(sess, r))
Mints(r)     == /\ Open /\ (MintByWallet \/ \E t \in 1..Len(issued) : MintByDevice(t, r))
                /\ sess' = MintHandover(sess, r)
Returns(t)   == Open /\ DeviceActive(t) /\ sess' = Back(sess, issued[t].role)
Flags(r)     == /\ OpenForDevices(sess)
                /\ \E i, o \in BOOLEAN : sess' = [sess EXCEPT !.slot[r].inactive = i, !.slot[r].stale = o]
                /\ UNCHANGED <<issued, minted, void>>
Starts       == Open /\ sess' = InProgress(sess)
Scans        == Open /\ sess' = InProgress([sess EXCEPT !.doc = "mrz"])
Chips(t)     == /\ Open /\ SubmitNFC(t)
                /\ sess' = InProgress([sess EXCEPT !.chip = t, !.doc = "chip", !.pics = TRUE])
Spends(c, t) == Open /\ ReserveFace(c, t) /\ sess' = [sess EXCEPT !.reserved = Reserved(sess) + 1]
Lands(c, ok) == /\ Open /\ FaceAnswered(c, ok) /\ StepWriteCheck(sess, call[c].tok, "face", TRUE)
                /\ sess' = InProgress([sess EXCEPT !.face = [n |-> call[c].n, ok |-> ok, by |-> call[c].tok],
                                                   !.pics = TRUE])
Refunds(c)   == /\ FaceFailed(c) /\ sess.status # "gone" /\ Refundable(Fresh, call[c].n)
                /\ sess' = ForStorage([Fresh EXCEPT !.reserved = call[c].n - 1])
Decides(p)   == /\ Open /\ Finish(p) /\ StillBuiltOf(sess, sub[p])
                /\ sess' = ForStorage([Settle(sess, sub[p].to) EXCEPT
                                         !.result = [n |-> sub[p].n, ok |-> sub[p].ok],
                                         !.shown = Keeps(sub[p].to)])
Photos       == Open /\ DocumentPhoto /\ sess' = InProgress([sess EXCEPT !.photo = TRUE])
Rejects      == /\ Open /\ FailDocumentScan
                /\ sess' = [Settle(sess, "rejected") EXCEPT !.pics = kind.keep]
Refers       == /\ SettleReference /\ ~IsExpired(sess) /\ sess.status \in Running \cup {"needs_review"}
                /\ sess' = ForStorage([Settle(sess, sub["yivi"].to) EXCEPT
                                         !.result = [n |-> sub["yivi"].n, ok |-> sub["yivi"].ok],
                                         !.shown = Keeps(sub["yivi"].to)])
Reviews(to)  == /\ DecideReview(to) /\ sess.status = "needs_review"
                /\ sess' = DropFacePhotos(SetStatus(sess, to))
Chooses(m)   == Open /\ ChooseMethod(m) /\ sess.method = "pending" /\ sess' = [sess EXCEPT !.method = m]
Cancels      == /\ CancelSession /\ ~IsExpired(sess) /\ sess.status \in Running \cup {"needs_review"}
                /\ sess' = ForStorage(SetStatus(sess, "cancelled"))

LEMMA Unexpired ==
  ASSUME Fresh.status \in Running \cup {"needs_review"}, sess \in SessType
  PROVE  Fresh = sess /\ ~IsExpired(sess) /\ sess.status \in Running \cup {"needs_review"}
<1>1. IsExpired(sess) => Fresh.status = "expired"
  BY DEF Fresh, ForStorage, SetStatus, SessType
<1> QED  BY <1>1 DEF Fresh, Running

LEMMA OpenFresh ==
  ASSUME OpenForDevices(Fresh), sess \in SessType
  PROVE  Fresh = sess /\ Open
BY Unexpired DEF OpenForDevices, Open, Running

(* Nothing is cleared of a session that goes on or has an outcome.         *)
LEMMA StoredWhole ==
  ASSUME NEW s, s.status \notin {"expired", "cancelled"}
  PROVE  ForStorage(s) = s
BY DEF ForStorage

LEMMA RunningWhole ==
  ASSUME NEW s \in SessType, s.status \in Running
  PROVE  ForStorage(s) = s /\ ForStorage(InProgress(s)) = InProgress(s)
         /\ InProgress(s).status \in Running
<1>1. InProgress(s).status \in Running
  BY DEF InProgress, SetStatus, SessType, Running
<1> QED  BY <1>1, StoredWhole DEF Running

(* What noting the deadline leaves.                                        *)
LEMMA Lapsed ==
  ASSUME Typed
  PROVE  LET f == ForStorage(Fresh)
         IN  /\ Fresh.reserved = sess.reserved /\ f.reserved = sess.reserved
             /\ f.slot = sess.slot /\ f.grant = sess.grant /\ f.method = sess.method
             /\ f.exp = sess.exp /\ f.result = sess.result /\ f.shown = sess.shown
             /\ f.status = (IF IsExpired(sess) THEN "expired" ELSE sess.status)
             /\ f.status \notin {"expired", "cancelled"} => f = sess /\ Fresh = sess
             /\ f.status \in {"expired", "cancelled"} =>
                  /\ f.doc = "none" /\ f.chip = 0 /\ f.face = NoFace /\ ~f.photo /\ ~f.pics
                  /\ Fresh.face = NoFace \/ Fresh = sess
<1>1. sess \in SessType  BY DEF Typed
<1>2. CASE IsExpired(sess)
  <2> DEFINE e == IF "expired" \in Terminal /\ sess.status # "expired" THEN now ELSE sess.ended
             x == [sess EXCEPT !.status = "expired", !.ended = e]
             y == [x EXCEPT !.doc = "none", !.chip = 0, !.face = NoFace, !.photo = FALSE, !.pics = FALSE]
  <2>1. SetStatus(sess, "expired") = x  BY DEF SetStatus
  <2>2. x.status = "expired" /\ y.status = "expired"  BY <1>1 DEF SessType
  <2>3. Fresh = y  BY <1>2, <2>1, <2>2 DEF Fresh, ForStorage
  <2>4. ForStorage(Fresh) =
          [y EXCEPT !.doc = "none", !.chip = 0, !.face = NoFace, !.photo = FALSE, !.pics = FALSE]
    BY <2>2, <2>3 DEF ForStorage
  <2>5. /\ y.reserved = sess.reserved /\ y.slot = sess.slot /\ y.grant = sess.grant
        /\ y.method = sess.method /\ y.exp = sess.exp /\ y.result = sess.result
        /\ y.shown = sess.shown /\ y.face = NoFace
        /\ [y EXCEPT !.doc = "none", !.chip = 0, !.face = NoFace, !.photo = FALSE, !.pics = FALSE] = y
        /\ y.doc = "none" /\ y.chip = 0 /\ ~y.photo /\ ~y.pics
    BY <1>1 DEF SessType
  <2> HIDE DEF y
  <2> QED  BY <1>2, <2>2, <2>3, <2>4, <2>5
<1>3. CASE ~IsExpired(sess)
  <2>1. Fresh = sess  BY <1>3 DEF Fresh
  <2> QED  BY <1>1, <1>3, <2>1 DEF ForStorage, SessType
<1> QED  BY <1>2, <1>3

SessStep ==
  \/ Quiet \/ Lapses \/ Erases
  \/ \E r \in Roles : Claims(r) \/ Mints(r) \/ Flags(r)
  \/ \E t \in 1..Len(issued) : Returns(t) \/ Chips(t) \/ \E c \in Calls : Spends(c, t)
  \/ \E c \in Calls : Lands(c, TRUE) \/ Lands(c, FALSE) \/ Refunds(c)
  \/ \E p \in {"app", "browser"} : Decides(p)
  \/ Starts \/ Scans \/ Photos \/ Rejects \/ Refers \/ Cancels
  \/ \E to \in {"approved", "rejected"} : Reviews(to)
  \/ \E m \in {"idem", "yivi"} : Chooses(m)

LEMMA IssuedTypes ==
  ASSUME Typed, NEW t \in 1..Len(issued)
  PROVE  issued[t].role \in Roles /\ issued[t].grant \in 0..kind.links /\ t \in Tokens /\ t > 0
<1>1. issued \in Seq([role : Roles, grant : 0..kind.links])  BY DEF Typed
<1>2. issued[t] \in [role : Roles, grant : 0..kind.links]  BY <1>1, ElementOfSeq
<1>3. Len(issued) \in Nat /\ Len(issued) <= kind.devices /\ kind.devices \in Nat
  BY <1>1, LenProperties, KindTypes DEF Typed
<1> QED  BY <1>2, <1>3 DEF Tokens

LEMMA DevicesMove ==
  ASSUME Typed, Devices
  PROVE  \/ \E r \in Roles : Claims(r) \/ Mints(r) \/ Flags(r)
         \/ \E t \in 1..Len(issued) : Returns(t)
<1>1. sess \in SessType  BY DEF Typed
<1>2. ASSUME NEW r \in Roles, ClaimHandover(r)
      PROVE  Claims(r)
  <2>1. Fresh = sess /\ Open  BY <1>1, <1>2, OpenFresh DEF ClaimHandover
  <2>2. sess' = ForStorage(OpenLocked(Redeem(sess, r)))
    BY <1>2, <2>1 DEF ClaimHandover, Update
  <2>3. OpenLocked(Redeem(sess, r)).status \in Running
    <3>1. Redeem(sess, r).status = sess.status  BY <1>1 DEF Redeem, SessType
    <3>2. Redeem(sess, r).status = "created" =>
            OpenLocked(Redeem(sess, r)).status = "opened"
      BY <1>1 DEF OpenLocked, SetStatus, Redeem, SessType
    <3> QED  BY <2>1, <3>1, <3>2 DEF OpenLocked, Open, Running
  <2> QED  BY <1>2, <2>1, <2>2, <2>3, StoredWhole DEF Claims, Running
<1>3. ASSUME NEW r \in Roles, MintByWallet \/ \E t \in 1..Len(issued) : MintByDevice(t, r),
             r = "native" \/ ~MintByWallet
      PROVE  Mints(r)
  <2>1. Fresh = sess /\ Open
    BY <1>1, <1>3, OpenFresh DEF MintByWallet, MintByDevice, CheckAppWrite
  <2>2. sess' = ForStorage(MintHandover(sess, r))
    BY <1>3, <2>1 DEF MintByWallet, MintByDevice, Update
  <2>3. MintHandover(sess, r).status = sess.status
    BY <1>1 DEF MintHandover, SessType
  <2> QED  BY <1>3, <2>1, <2>2, <2>3, StoredWhole DEF Mints, Open, Running
<1>4. ASSUME NEW t \in 1..Len(issued), DeviceActive(t)
      PROVE  Returns(t)
  <2>1. Fresh = sess /\ Open
    BY <1>1, <1>4, OpenFresh DEF DeviceActive, CheckAppWrite
  <2>2. sess' = ForStorage(Back(sess, issued[t].role))
    BY <1>4, <2>1 DEF DeviceActive, Update
  <2>3. Back(sess, issued[t].role).status = sess.status
    BY <1>1 DEF Back, SessType
  <2> QED  BY <1>4, <2>1, <2>2, <2>3, StoredWhole DEF Returns, Open, Running
<1>5. ASSUME NEW t \in 1..Len(issued), DeviceInactive(t) \/ TouchDevice(t)
      PROVE  \E r \in Roles : Flags(r)
  <2>1. Fresh = sess /\ Open
    BY <1>1, <1>5, OpenFresh DEF DeviceInactive, TouchDevice, CheckAppWrite
  <2> DEFINE r == issued[t].role
  <2>2. r \in Roles  BY IssuedTypes
  <2>3. PICK i, o \in BOOLEAN :
          sess' = ForStorage([sess EXCEPT !.slot[r].inactive = i, !.slot[r].stale = o])
    <3>1. CASE DeviceInactive(t)
      BY <2>1, <3>1 DEF DeviceInactive, Update
    <3>2. CASE TouchDevice(t)
      <4>1. sess' = ForStorage([sess EXCEPT !.slot[r].stale = FALSE])
        BY <2>1, <3>2 DEF TouchDevice, Update
      <4>2. sess.slot[r] \in SlotType  BY <1>1, <2>2 DEF SessType
      <4>3. [sess EXCEPT !.slot[r].stale = FALSE]
              = [sess EXCEPT !.slot[r].inactive = sess.slot[r].inactive, !.slot[r].stale = FALSE]
        BY <1>1, <2>2, <4>2 DEF SessType, SlotType
      <4> QED  BY <4>1, <4>2, <4>3 DEF SlotType
    <3> QED  BY <1>5, <3>1, <3>2
  <2>4. [sess EXCEPT !.slot[r].inactive = i, !.slot[r].stale = o].status = sess.status
    BY <1>1 DEF SessType
  <2>5. sess' = [sess EXCEPT !.slot[r].inactive = i, !.slot[r].stale = o]
    BY <2>1, <2>3, <2>4, StoredWhole DEF Open, Running
  <2>6. UNCHANGED <<issued, minted, void>>  BY <1>5 DEF DeviceInactive, TouchDevice
  <2> QED  BY <2>1, <2>2, <2>5, <2>6 DEF Flags, Open, OpenForDevices
<1>6. ASSUME NEW r \in Roles, GoStale(r)
      PROVE  Flags(r)
  <2>1. sess.slot[r] \in SlotType  BY <1>1 DEF SessType
  <2>2. [sess EXCEPT !.slot[r].stale = TRUE]
          = [sess EXCEPT !.slot[r].inactive = sess.slot[r].inactive, !.slot[r].stale = TRUE]
    BY <1>1, <2>1 DEF SessType, SlotType
  <2> QED  BY <1>6, <2>1, <2>2 DEF GoStale, Flags, SlotType
<1> QED  BY <1>2, <1>3, <1>4, <1>5, <1>6 DEF Devices, Roles

LEMMA RefusedStores ==
  ASSUME Refused
  PROVE  Quiet \/ Lapses
BY DEF Refused, Update, Quiet, Lapses

LEMMA StepsStore ==
  ASSUME Typed, Steps
  PROVE  SessStep
<1>1. sess \in SessType  BY DEF Typed
<1>o. ASSUME NEW t, CheckAppWrite(Fresh, t)
      PROVE  Fresh = sess /\ Open /\ ForStorage(InProgress(sess)) = InProgress(sess)
  BY <1>1, <1>o, OpenFresh, RunningWhole DEF CheckAppWrite, Open
<1>m. ASSUME Open
      PROVE  /\ InProgress([sess EXCEPT !.doc = "mrz"]).status \in Running
             /\ \A t \in Tokens :
                  InProgress([sess EXCEPT !.chip = t, !.doc = "chip", !.pics = TRUE]).status \in Running
             /\ \A f \in FaceType :
                  InProgress([sess EXCEPT !.face = f, !.pics = TRUE]).status \in Running
  BY <1>1, <1>m DEF Open, InProgress, SetStatus, SessType, Running
<1>2. ASSUME NEW t \in 1..Len(issued), StartStep(t)
      PROVE  Starts
  BY <1>2, <1>o DEF StartStep, Starts, Update
<1>3. ASSUME NEW t \in 1..Len(issued), SubmitDocument(t)
      PROVE  Scans
  <2>1. Fresh = sess /\ Open  BY <1>3, <1>o DEF SubmitDocument, StepWriteCheck
  <2>2. sess' = ForStorage(InProgress([sess EXCEPT !.doc = "mrz"]))
    BY <1>3, <2>1 DEF SubmitDocument, Update
  <2> QED  BY <2>1, <2>2, <1>m, StoredWhole DEF Scans, Running
<1>4. ASSUME NEW t \in 1..Len(issued), SubmitNFC(t)
      PROVE  Chips(t)
  <2>1. Fresh = sess /\ Open  BY <1>4, <1>o DEF SubmitNFC, StepWriteCheck
  <2>2. sess' = ForStorage(InProgress([sess EXCEPT !.chip = t, !.doc = "chip", !.pics = TRUE]))
    BY <1>4, <2>1 DEF SubmitNFC, Update
  <2> QED  BY <1>4, <2>1, <2>2, <1>m, StoredWhole, IssuedTypes DEF Chips, Running
<1>5. ASSUME NEW t \in 1..Len(issued), NEW c \in Calls, ReserveFace(c, t)
      PROVE  Spends(c, t)
  <2>1. Fresh = sess /\ Open  BY <1>5, <1>o DEF ReserveFace, StepWriteCheck
  <2>2. sess' = ForStorage([sess EXCEPT !.reserved = Reserved(sess) + 1])
    BY <1>5, <2>1 DEF ReserveFace, Update
  <2>3. [sess EXCEPT !.reserved = Reserved(sess) + 1].status \in Running
    BY <2>1, <1>1 DEF SessType, Open
  <2>4. sess' = [sess EXCEPT !.reserved = Reserved(sess) + 1]
    BY <2>2, <2>3, StoredWhole DEF Running
  <2> QED  BY <1>5, <2>1, <2>4 DEF Spends
<1>6. ASSUME NEW t \in 1..Len(issued), SubmitApp(t)
      PROVE  Quiet
  BY <1>6 DEF SubmitApp, Quiet
<1>7. ASSUME NEW c \in Calls, NEW ok \in BOOLEAN, FaceAnswered(c, ok)
      PROVE  Quiet \/ Lapses \/ Lands(c, ok)
  <2>1. CASE sess.status # "gone" /\ StepWriteCheck(Fresh, call[c].tok, "face", TRUE)
    <3>1. Fresh = sess /\ Open  BY <2>1, <1>o DEF StepWriteCheck
    <3> DEFINE f == [n |-> call[c].n, ok |-> ok, by |-> call[c].tok]
    <3>2. sess' = ForStorage(InProgress([sess EXCEPT !.face = f, !.pics = TRUE]))
      BY <1>7, <2>1, <3>1 DEF FaceAnswered, Update
    <3>3. f \in FaceType  BY DEF FaceType, Typed, CallType
    <3>4. InProgress([sess EXCEPT !.face = f, !.pics = TRUE]).status \in Running
      BY <1>m, <3>1, <3>3
    <3> HIDE DEF f
    <3>5. sess' = InProgress([sess EXCEPT !.face = f, !.pics = TRUE])
      BY <3>2, <3>4, StoredWhole DEF Running
    <3> QED  BY <1>7, <2>1, <3>1, <3>5 DEF Lands, f
  <2>2. CASE ~(sess.status # "gone" /\ StepWriteCheck(Fresh, call[c].tok, "face", TRUE))
    BY <1>7, <2>2, RefusedStores DEF FaceAnswered
  <2> QED  BY <2>1, <2>2
<1>8. ASSUME NEW c \in Calls, FaceFailed(c)
      PROVE  Quiet \/ Lapses \/ Refunds(c)
  <2>1. CASE sess.status # "gone" /\ Refundable(Fresh, call[c].n)
    BY <1>8, <2>1 DEF FaceFailed, Refunds, Update
  <2>2. CASE ~(sess.status # "gone" /\ Refundable(Fresh, call[c].n))
    BY <1>8, <2>2, RefusedStores DEF FaceFailed
  <2> QED  BY <2>1, <2>2
<1>9. ASSUME NEW c \in Calls, FaceRefused(c)
      PROVE  Quiet
  BY <1>9 DEF FaceRefused, Quiet
<1>10. ASSUME NEW p \in Submitters, Finish(p)
       PROVE  Quiet \/ Lapses \/ (p \in {"app", "browser"} /\ Decides(p))
  <2>1. CASE sess.status # "gone" /\ CheckAppWrite(Fresh, sub[p].tok) /\ StillBuiltOf(Fresh, sub[p])
    <3>1. Fresh = sess /\ Open  BY <2>1, <1>o
    <3> QED  BY <1>10, <2>1, <3>1 DEF Finish, Decides, Update, Submitters
  <2>2. CASE ~(sess.status # "gone" /\ CheckAppWrite(Fresh, sub[p].tok) /\ StillBuiltOf(Fresh, sub[p]))
    BY <1>10, <2>2, RefusedStores DEF Finish
  <2> QED  BY <2>1, <2>2
<1> QED
  BY <1>2, <1>3, <1>4, <1>5, <1>6, <1>7, <1>8, <1>9, <1>10 DEF Steps, SessStep

LEMMA WalletStores ==
  ASSUME Typed, Wallet
  PROVE  SessStep
<1>1. sess \in SessType  BY DEF Typed
<1>2. CASE DocumentPhoto
  <2>1. Fresh = sess /\ Open  BY <1>1, <1>2, OpenFresh DEF DocumentPhoto
  <2>2. CASE sess.photo
    BY <1>2, <2>1, <2>2 DEF DocumentPhoto, Update, Lapses, SessStep
  <2>3. CASE ~sess.photo
    <3>1. sess' = ForStorage(InProgress([sess EXCEPT !.photo = TRUE]))
      BY <1>2, <2>1, <2>3 DEF DocumentPhoto, Update
    <3>2. InProgress([sess EXCEPT !.photo = TRUE]).status \in Running
      BY <1>1, <2>1 DEF Open, InProgress, SetStatus, SessType, Running
    <3> QED  BY <1>2, <2>1, <3>1, <3>2, StoredWhole DEF Photos, Running, SessStep
  <2> QED  BY <2>2, <2>3
<1>3. CASE FailDocumentScan
  <2>1. Fresh = sess /\ Open  BY <1>1, <1>3, OpenFresh DEF FailDocumentScan
  <2>2. sess' = ForStorage([Settle(sess, "rejected") EXCEPT !.pics = kind.keep])
    BY <1>3, <2>1 DEF FailDocumentScan, Update
  <2>3. [Settle(sess, "rejected") EXCEPT !.pics = kind.keep].status = "rejected"
    BY <1>1 DEF Settle, InProgress, SetStatus, SessType
  <2> QED  BY <1>3, <2>1, <2>2, <2>3, StoredWhole DEF Rejects, SessStep
<1>4. CASE ReadReference
  BY <1>4 DEF ReadReference, Quiet, SessStep
<1>5. CASE SettleReference
  <2>1. CASE Fresh.status \in Running \cup {"needs_review"} /\ CanSet(InProgress(Fresh), sub["yivi"].to)
    <3>1. Fresh = sess /\ ~IsExpired(sess) /\ sess.status \in Running \cup {"needs_review"}
      BY <1>1, <2>1, Unexpired
    <3> QED  BY <1>5, <2>1, <3>1 DEF SettleReference, Refers, Update, SessStep
  <2>2. CASE ~(Fresh.status \in Running \cup {"needs_review"} /\ CanSet(InProgress(Fresh), sub["yivi"].to))
    BY <1>5, <2>2, RefusedStores DEF SettleReference, SessStep
  <2> QED  BY <2>1, <2>2
<1>6. ASSUME NEW to \in {"approved", "rejected"}, DecideReview(to)
      PROVE  Reviews(to)
  <2>1. Fresh = sess /\ sess.status = "needs_review"
    BY <1>1, <1>6, Unexpired DEF DecideReview
  <2>2. sess' = ForStorage(DropFacePhotos(SetStatus(sess, to)))
    BY <1>6, <2>1 DEF DecideReview, Update
  <2>3. DropFacePhotos(SetStatus(sess, to)).status = to
    BY <1>1 DEF DropFacePhotos, SetStatus, SessType
  <2> QED  BY <1>6, <2>1, <2>2, <2>3, StoredWhole DEF Reviews
<1>7. ASSUME NEW m \in {"idem", "yivi"}, ChooseMethod(m)
      PROVE  Chooses(m)
  <2>1. Fresh = sess /\ Open /\ sess.method = "pending"
    BY <1>1, <1>7, OpenFresh DEF ChooseMethod
  <2>2. sess' = ForStorage([sess EXCEPT !.method = m])
    BY <1>7, <2>1 DEF ChooseMethod, Update
  <2>3. [sess EXCEPT !.method = m].status = sess.status
    BY <1>1 DEF SessType
  <2> QED  BY <1>7, <2>1, <2>2, <2>3, StoredWhole DEF Chooses, Open, Running
<1>8. CASE CancelSession
  <2>1. Fresh.status \in Running \cup {"needs_review"}
    <3>1. Fresh.status \in Statuses  BY FreshTyped DEF SessType
    <3> QED  BY <1>8, <3>1, Transits DEF CancelSession, Running
  <2>2. Fresh = sess /\ ~IsExpired(sess) /\ sess.status \in Running \cup {"needs_review"}
    BY <1>1, <2>1, Unexpired
  <2> QED  BY <1>8, <2>2 DEF CancelSession, Cancels, Update, SessStep
<1>9. CASE DeleteSession
  BY <1>9 DEF DeleteSession, Erases, SessStep
<1> QED  BY <1>2, <1>3, <1>4, <1>5, <1>6, <1>7, <1>8, <1>9 DEF Wallet, SessStep

LEMMA Stores ==
  ASSUME Typed, [Next]_vars
  PROVE  SessStep
<1>1. CASE Jobs
  <2>1. CASE ExpireDue
    BY <2>1 DEF ExpireDue, Update, Lapses, SessStep
  <2>2. CASE RemoveFinished
    BY <2>2 DEF RemoveFinished, Erases, SessStep
  <2>3. CASE TakeNotice \/ WalletReads \/ WalletTold \/ Crash \/ Tick
    BY <2>3 DEF TakeNotice, WalletReads, WalletTold, Crash, Tick, restVars, Quiet, SessStep
  <2> QED  BY <1>1, <2>1, <2>2, <2>3 DEF Jobs
<1>2. CASE UNCHANGED vars
  BY <1>2 DEF vars, Quiet, SessStep
<1>3. CASE Devices
  BY <1>3, DevicesMove DEF SessStep
<1> QED  BY <1>1, <1>2, <1>3, StepsStore, WalletStores DEF Next

----------------------------------------------------------------------------
(* The types hold.                                                         *)

LEMMA SettleTyped ==
  ASSUME Typed, NEW s \in SessType, NEW to \in {"approved", "rejected", "needs_review"},
         NEW x \in [n : 0..MaxAttempts, ok : BOOLEAN]
  PROVE  /\ Settle(s, to) \in SessType
         /\ [Settle(s, to) EXCEPT !.pics = kind.keep] \in SessType
         /\ [Settle(s, to) EXCEPT !.result = x, !.shown = Keeps(to)] \in SessType
<1>1. to \in Statuses  BY DEF Statuses, Terminal
<1>2. SetStatus(InProgress(s), to) \in SessType  BY <1>1, SetStatusTyped
<1>3. kind.keep \in BOOLEAN /\ Keeps(to) \in BOOLEAN  BY KindTypes DEF Keeps, Typed
<1>4. Settle(s, to) \in SessType
  <2> DEFINE t == SetStatus(InProgress(s), to)
  <2>1. (t.pics /\ Keeps(to)) \in BOOLEAN  OBVIOUS
  <2>2. Settle(s, to) = [t EXCEPT !.pics = t.pics /\ Keeps(to)]  BY DEF Settle
  <2> HIDE DEF t
  <2>3. t \in SessType  BY <1>2 DEF t
  <2> QED  BY <2>1, <2>2, <2>3, Parts
<1>5. \A t \in SessType : [t EXCEPT !.result = x, !.shown = Keeps(to)] \in SessType
  BY <1>3 DEF SessType
<1> QED  BY <1>3, <1>4, <1>5, Parts

LEMMA LeastMost ==
  ASSUME NEW a \in Nat, NEW b \in Nat
  PROVE  /\ Least(a, b) \in Nat /\ Least(a, b) <= a /\ Least(a, b) <= b
         /\ Most(a, b) \in Nat /\ Most(a, b) \in {a, b} /\ Most(a, b) >= a /\ Most(a, b) >= b
BY DEF Least, Most

LEMMA SlotGrantTyped ==
  ASSUME Typed, NEW r \in Roles
  PROVE  /\ NoSlot \in SlotType /\ NoGrant \in GrantType
         /\ sess.slot \in [Roles -> SlotType] /\ sess.grant \in [Roles -> GrantType]
         /\ \A x \in SlotType : [sess.slot EXCEPT ![r] = x] \in [Roles -> SlotType]
         /\ \A x \in GrantType : [sess.grant EXCEPT ![r] = x] \in [Roles -> GrantType]
<1>1. sess.slot \in [Roles -> SlotType] /\ sess.grant \in [Roles -> GrantType]
  BY DEF Typed, SessType
<1>2. NoSlot \in SlotType /\ NoGrant \in GrantType
  BY KindTypes DEF NoSlot, NoGrant, SlotType, GrantType, Tokens, Typed
<1> QED  BY <1>1, <1>2

(* What the devices' steps make of slots and links.                        *)
LEMMA ClaimStores ==
  ASSUME Typed, NEW r \in Roles, Claims(r)
  PROVE  /\ sess' \in SessType
         /\ sess'.grant = [sess.grant EXCEPT ![r] = [sess.grant[r] EXCEPT !.used = TRUE]]
         /\ sess'.status \in Running
         /\ sess.status # sess'.status => sess.status = "created"
         /\ \A f \in {"method", "reserved", "doc", "chip", "face", "photo", "pics", "shown", "result"} :
              sess'[f] = sess[f]
         /\ sess'.exp \in {sess.exp} \/ sess.status = "created"
<1>1. sess \in SessType /\ now \in 0..MaxNow  BY DEF Typed
<1>2. /\ [NoSlot EXCEPT !.tok = Len(issued) + 1] \in SlotType
  <2>0. issued \in Seq([role : Roles, grant : 0..kind.links]) /\ kind \in Kinds  BY DEF Typed
  <2>1. Len(issued) \in Nat  BY <2>0, LenProperties
  <2>2. Len(issued) < kind.devices  BY DEF Claims, ClaimHandover
  <2>3. kind.devices \in Nat  BY <2>0, KindTypes
  <2>4. Len(issued) + 1 \in Tokens  BY <2>1, <2>2, <2>3 DEF Tokens
  <2> QED  BY <2>4 DEF NoSlot, SlotType
<1>3. [sess.grant[r] EXCEPT !.used = TRUE] \in GrantType
  BY SlotGrantTyped DEF GrantType
<1> DEFINE g == [sess.grant EXCEPT ![r] = [sess.grant[r] EXCEPT !.used = TRUE]]
           l == [sess.slot EXCEPT ![r] = [NoSlot EXCEPT !.tok = Len(issued) + 1]]
           s == [sess EXCEPT !.grant = g, !.slot = l]
<1>4. g \in [Roles -> GrantType] /\ l \in [Roles -> SlotType]
  BY <1>2, <1>3, SlotGrantTyped
<1>5. Redeem(sess, r) = s
  BY <1>1 DEF Redeem, SessType
<1> HIDE DEF g, l
<1>6. s \in SessType /\ s.grant = g /\ s.status = sess.status /\ s.exp = sess.exp
      /\ \A f \in {"method", "reserved", "doc", "chip", "face", "photo", "pics", "shown", "result"} :
           s[f] = sess[f]
  BY <1>1, <1>4 DEF SessType
<1> HIDE DEF s
<1>7. CASE sess.status = "created"
  <2> DEFINE e == Most(s.exp, Least(now + OpenTTL, MaxLifetime))
             o == SetStatus(s, "opened")
  <2>1. sess' = [o EXCEPT !.exp = Most(o.exp, Least(now + OpenTTL, MaxLifetime))]
    BY <1>5, <1>6, <1>7 DEF Claims, OpenLocked
  <2>2. "opened" \in Statuses /\ "opened" \in Running /\ "opened" \notin Terminal
    BY DEF Statuses, Running, Terminal
  <2>3. o \in SessType  BY <1>6, <2>2, SetStatusTyped
  <2>4. o = [s EXCEPT !.status = "opened", !.ended = s.ended]
    BY <1>6, <2>2 DEF SetStatus
  <2> HIDE DEF o
  <2>5. Most(o.exp, Least(now + OpenTTL, MaxLifetime)) \in 0..MaxLifetime
    <3>1. o.exp \in Nat /\ o.exp <= MaxLifetime /\ now + OpenTTL \in Nat /\ MaxLifetime \in Nat
      BY <1>1, <2>3, BoundTypes DEF SessType
    <3> DEFINE m == Least(now + OpenTTL, MaxLifetime)
    <3>2. m \in Nat /\ m <= MaxLifetime  BY <3>1, LeastMost
    <3>3. Most(o.exp, m) \in Nat /\ Most(o.exp, m) \in {o.exp, m}
      <4> HIDE DEF m
      <4> QED  BY <3>1, <3>2, LeastMost
    <3> QED  BY <3>1, <3>2, <3>3
  <2>6. sess' \in SessType  BY <2>1, <2>3, <2>5, Parts
  <2>7. /\ sess'.status = "opened" /\ sess'.grant = g
        /\ \A f \in {"method", "reserved", "doc", "chip", "face", "photo", "pics", "shown", "result"} :
             sess'[f] = s[f]
    BY <1>6, <2>1, <2>3, <2>4 DEF SessType
  <2> QED  BY <1>6, <1>7, <2>2, <2>6, <2>7 DEF g
<1>8. CASE sess.status # "created"
  <2>1. sess' = s  BY <1>5, <1>6, <1>8 DEF Claims, OpenLocked
  <2> QED  BY <1>6, <1>8, <2>1 DEF g, Claims, Open
<1> QED  BY <1>7, <1>8

LEMMA MintStores ==
  ASSUME Typed, NEW r \in Roles, Mints(r)
  PROVE  /\ minted < kind.links /\ minted' = minted + 1 /\ issued' = issued /\ void' = void
         /\ \E e \in Nat : /\ [id |-> minted + 1, exp |-> e, used |-> FALSE] \in GrantType
                           /\ sess' = [sess EXCEPT !.grant = [sess.grant EXCEPT ![r] =
                                         [id |-> minted + 1, exp |-> e, used |-> FALSE]]]
<1>1. sess \in SessType /\ now \in Nat /\ minted \in 0..kind.links /\ kind.links \in Nat
  BY KindTypes, BoundTypes DEF Typed
<1>2. minted < kind.links /\ minted' = minted + 1 /\ issued' = issued /\ void' = void
  BY DEF Mints, MintByWallet, MintByDevice
<1>3. Least(now + GrantTTL, sess.exp) \in Nat
  <2>1. now + GrantTTL \in Nat /\ sess.exp \in Nat  BY <1>1, BoundTypes DEF SessType
  <2> QED  BY <2>1, LeastMost
<1>4. [id |-> minted + 1, exp |-> Least(now + GrantTTL, sess.exp), used |-> FALSE] \in GrantType
  BY <1>1, <1>2, <1>3 DEF GrantType
<1>5. sess' = [sess EXCEPT !.grant = [sess.grant EXCEPT ![r] =
                 [id |-> minted + 1, exp |-> Least(now + GrantTTL, sess.exp), used |-> FALSE]]]
  BY <1>1 DEF Mints, MintHandover, SessType
<1> QED  BY <1>2, <1>3, <1>4, <1>5

LEMMA ReturnStores ==
  ASSUME Typed, NEW t \in 1..Len(issued), Returns(t)
  PROVE  LET r == issued[t].role
         IN  /\ r \in Roles /\ issued' = issued /\ minted' = minted
             /\ void' = void \cup {sess.grant[r].id}
             /\ \E l \in [Roles -> SlotType] :
                  sess' = [sess EXCEPT !.slot = l,
                             !.grant = [sess.grant EXCEPT ![r] =
                                          IF sess.grant[r].used THEN sess.grant[r] ELSE NoGrant]]
<1> DEFINE r == issued[t].role
           x == [sess.slot[r] EXCEPT !.inactive = FALSE, !.stale = FALSE]
           l == [sess.slot EXCEPT ![r] = x]
           g == IF sess.grant[r].used THEN sess.grant[r] ELSE NoGrant
<1>1. r \in Roles  BY IssuedTypes
<1>2. sess \in SessType  BY DEF Typed
<1>3. l \in [Roles -> SlotType]
  <2>1. x \in SlotType  BY <1>1, SlotGrantTyped DEF SlotType
  <2> QED  BY <1>1, <2>1, SlotGrantTyped
<1>4. sess' = [sess EXCEPT !.slot = l, !.grant = [sess.grant EXCEPT ![r] = g]]
  BY <1>1, <1>2 DEF Returns, Back, SessType, SlotType
<1>5. Fresh.grant = sess.grant
  BY OpenFresh, <1>2 DEF Returns, DeviceActive, CheckAppWrite
<1>6. issued' = issued /\ minted' = minted /\ void' = void \cup {sess.grant[r].id}
  BY <1>5 DEF Returns, DeviceActive
<1> QED  BY <1>1, <1>3, <1>4, <1>6

LEMMA Advance ==
  ASSUME NEW s \in SessType, s.status \in Running
  PROVE  \E st \in Running : /\ InProgress(s) = [s EXCEPT !.status = st]
                             /\ st # "created"
<1>1. CASE s.status \in {"created", "opened"}
  <2>1. SetStatus(s, "in_progress") = [s EXCEPT !.status = "in_progress", !.ended = s.ended]
    BY DEF SetStatus, Terminal
  <2>2. InProgress(s) = [s EXCEPT !.status = "in_progress"]
    BY <1>1, <2>1 DEF InProgress, SessType
  <2> QED  BY <2>2 DEF Running
<1>2. CASE s.status \notin {"created", "opened"}
  BY <1>2 DEF InProgress, SessType, Running
<1> QED  BY <1>1, <1>2

(* What the subject's own steps store.                                     *)
LEMMA EvidenceStores ==
  ASSUME Typed, Open
  PROVE  /\ Starts => \E st \in Running : sess' = [sess EXCEPT !.status = st]
         /\ Scans  => \E st \in Running : sess' = [sess EXCEPT !.doc = "mrz", !.status = st]
         /\ Photos => \E st \in Running : sess' = [sess EXCEPT !.photo = TRUE, !.status = st]
         /\ \A t \in 1..Len(issued) : Chips(t) =>
              /\ t \in Slots(sess) /\ sess.chip = 0
              /\ \E st \in Running :
                   sess' = [sess EXCEPT !.chip = t, !.doc = "chip", !.pics = TRUE, !.status = st]
<1>1. sess \in SessType /\ sess.status \in Running  BY DEF Typed, Open
<1>2. ASSUME NEW s \in SessType, s.status = sess.status, sess' = InProgress(s)
      PROVE  \E st \in Running : sess' = [s EXCEPT !.status = st]
  BY <1>1, <1>2, Advance
<1>3. ASSUME Starts
      PROVE  \E st \in Running : sess' = [sess EXCEPT !.status = st]
  BY <1>1, <1>2, <1>3 DEF Starts
<1>4. ASSUME Scans
      PROVE  \E st \in Running : sess' = [sess EXCEPT !.doc = "mrz", !.status = st]
  <2> DEFINE s == [sess EXCEPT !.doc = "mrz"]
  <2>1. s \in SessType /\ s.status = sess.status  BY <1>1 DEF SessType
  <2>2. sess' = InProgress(s)  BY <1>4 DEF Scans
  <2> HIDE DEF s
  <2>3. PICK st \in Running : sess' = [s EXCEPT !.status = st]  BY <1>2, <2>1, <2>2
  <2>4. sess' = [sess EXCEPT !.doc = "mrz", !.status = st]  BY <1>1, <2>3 DEF s, SessType
  <2> QED  BY <2>4
<1>5. ASSUME Photos
      PROVE  \E st \in Running : sess' = [sess EXCEPT !.photo = TRUE, !.status = st]
  <2> DEFINE s == [sess EXCEPT !.photo = TRUE]
  <2>1. s \in SessType /\ s.status = sess.status  BY <1>1 DEF SessType
  <2>2. sess' = InProgress(s)  BY <1>5 DEF Photos
  <2> HIDE DEF s
  <2>3. PICK st \in Running : sess' = [s EXCEPT !.status = st]  BY <1>2, <2>1, <2>2
  <2>4. sess' = [sess EXCEPT !.photo = TRUE, !.status = st]  BY <1>1, <2>3 DEF s, SessType
  <2> QED  BY <2>4
<1>6. ASSUME NEW t \in 1..Len(issued), Chips(t)
      PROVE  /\ t \in Slots(sess) /\ sess.chip = 0
             /\ \E st \in Running :
                  sess' = [sess EXCEPT !.chip = t, !.doc = "chip", !.pics = TRUE, !.status = st]
  <2> DEFINE s == [sess EXCEPT !.chip = t, !.doc = "chip", !.pics = TRUE]
  <2>1. t \in Tokens /\ t # 0  BY IssuedTypes
  <2>2. s \in SessType /\ s.status = sess.status  BY <1>1, <2>1 DEF SessType
  <2>3. sess' = InProgress(s)  BY <1>6 DEF Chips
  <2> HIDE DEF s
  <2>4. PICK st \in Running : sess' = [s EXCEPT !.status = st]  BY <1>2, <2>2, <2>3
  <2>5. sess' = [sess EXCEPT !.chip = t, !.doc = "chip", !.pics = TRUE, !.status = st]
    BY <1>1, <2>4 DEF s, SessType
  <2>6. Fresh = sess  BY DEF Open, Fresh
  <2>7. t \in Slots(sess) /\ sess.chip = 0
    BY <1>6, <2>1, <2>6 DEF Chips, SubmitNFC, StepWriteCheck, CheckAppWrite, System
  <2> QED  BY <2>5, <2>7
<1> QED  BY <1>3, <1>4, <1>5, <1>6

(* The face that an answer stores.                                         *)
FaceOf(c, ok) == [n |-> call[c].n, ok |-> ok, by |-> call[c].tok]

LEMMA LandStores ==
  ASSUME Typed, NEW c \in Calls, NEW ok \in BOOLEAN, Lands(c, ok)
  PROVE  /\ FaceOf(c, ok) \in FaceType
         /\ call[c].tok # 0 => call[c].tok \in Slots(sess)
         /\ \E st \in Running :
              sess' = [sess EXCEPT !.face = FaceOf(c, ok), !.pics = TRUE, !.status = st]
<1>1. sess \in SessType /\ sess.status \in Running  BY DEF Typed, Lands, Open
<1> DEFINE s == [sess EXCEPT !.face = FaceOf(c, ok), !.pics = TRUE]
<1>2. FaceOf(c, ok) \in FaceType  BY DEF FaceOf, FaceType, Typed, CallType
<1>3. sess' = InProgress(s)  BY DEF Lands, FaceOf
<1>4. s \in SessType /\ s.status = sess.status  BY <1>1, <1>2 DEF SessType
<1>5. PICK st \in Running : sess' = [s EXCEPT !.status = st]
  <2> HIDE DEF s
  <2> QED  BY <1>1, <1>3, <1>4, Advance
<1>6. sess' = [sess EXCEPT !.face = FaceOf(c, ok), !.pics = TRUE, !.status = st]
  BY <1>1, <1>5 DEF SessType
<1>7. call[c].tok # 0 => call[c].tok \in Slots(sess)
  BY DEF Lands, StepWriteCheck, CheckAppWrite, System
<1> QED  BY <1>2, <1>6, <1>7

(* What a decision, and the other calls of the wallet, store.              *)
SettledAs(to, b)    == ForStorage([Settle(sess, to) EXCEPT !.result = [n |-> b.n, ok |-> b.ok],
                                                           !.shown = Keeps(to)])
DecidedAs(to, e, b) == [sess EXCEPT !.status = to, !.ended = e, !.pics = sess.pics /\ Keeps(to),
                                    !.shown = Keeps(to), !.result = [n |-> b.n, ok |-> b.ok]]

LEMMA OutcomeStores ==
  ASSUME Typed
  PROVE  /\ \A p \in {"app", "browser"} : Decides(p) =>
              /\ sub[p].pc = "built" /\ sub[p].to \in {"approved", "rejected", "needs_review"}
              /\ sess.face.n = sub[p].n
              /\ \E e \in 0..MaxNow : sess' = DecidedAs(sub[p].to, e, sub[p])
         /\ Refers =>
              /\ sub["yivi"].pc = "built"
              /\ sub["yivi"].to \in {"approved", "rejected", "needs_review"}
              /\ \E e \in 0..MaxNow : sess' = DecidedAs(sub["yivi"].to, e, sub["yivi"])
         /\ Rejects => \E e \in 0..MaxNow :
              sess' = [sess EXCEPT !.status = "rejected", !.ended = e, !.pics = kind.keep]
         /\ \A to \in {"approved", "rejected"} : Reviews(to) => \E e \in 0..MaxNow :
              sess' = [sess EXCEPT !.status = to, !.ended = e, !.pics = sess.pics /\ kind.keep,
                         !.shown = sess.shown /\ kind.keep]
<1>1. sess \in SessType  BY DEF Typed
<1>2. ASSUME NEW s \in SessType, NEW to \in {"approved", "rejected", "needs_review"}
      PROVE  \E e \in 0..MaxNow : SetStatus(s, to) = [s EXCEPT !.status = to, !.ended = e]
  <2>1. s.ended \in 0..MaxNow /\ now \in 0..MaxNow  BY DEF SessType, Typed
  <2> QED  BY <2>1 DEF SetStatus
<1>3. ASSUME NEW to \in {"approved", "rejected", "needs_review"}
      PROVE  \E e \in 0..MaxNow :
               Settle(sess, to) = [sess EXCEPT !.status = to, !.ended = e, !.pics = sess.pics /\ Keeps(to)]
  <2>1. InProgress(sess) \in SessType
    BY <1>1, SetStatusTyped DEF Statuses, Terminal
  <2>2. PICK st : InProgress(sess) = [sess EXCEPT !.status = st]
    <3>1. CASE sess.status \in Running  BY <1>1, <3>1, Advance
    <3>2. CASE sess.status \notin Running
      <4>1. InProgress(sess) = sess  BY <3>2 DEF InProgress, Running
      <4>2. sess = [sess EXCEPT !.status = sess.status]  BY <1>1 DEF SessType
      <4> QED  BY <4>1, <4>2
    <3> QED  BY <3>1, <3>2
  <2>3. PICK e \in 0..MaxNow :
          SetStatus(InProgress(sess), to) = [InProgress(sess) EXCEPT !.status = to, !.ended = e]
    BY <1>2, <2>1
  <2>4. SetStatus(InProgress(sess), to) = [sess EXCEPT !.status = to, !.ended = e]
    BY <1>1, <2>2, <2>3 DEF SessType
  <2> QED  BY <1>1, <2>4 DEF Settle, SessType
<1>4. ASSUME NEW to \in {"approved", "rejected", "needs_review"}, NEW b
      PROVE  \E e \in 0..MaxNow : SettledAs(to, b) = DecidedAs(to, e, b)
  <2> DEFINE x == [n |-> b.n, ok |-> b.ok]
             y == Keeps(to)
  <2>1. PICK e \in 0..MaxNow :
          Settle(sess, to) = [sess EXCEPT !.status = to, !.ended = e, !.pics = sess.pics /\ Keeps(to)]
    BY <1>3
  <2> HIDE DEF x, y
  <2>2. [Settle(sess, to) EXCEPT !.result = x, !.shown = y]
          = [sess EXCEPT !.status = to, !.ended = e, !.pics = sess.pics /\ Keeps(to),
                         !.shown = y, !.result = x]
    BY <1>1, <2>1 DEF SessType
  <2>3. [Settle(sess, to) EXCEPT !.result = x, !.shown = y].status = to
    BY <1>1, <2>2 DEF SessType
  <2>4. ForStorage([Settle(sess, to) EXCEPT !.result = x, !.shown = y])
          = [Settle(sess, to) EXCEPT !.result = x, !.shown = y]
    BY <2>3, StoredWhole
  <2>5. SettledAs(to, b) = DecidedAs(to, e, b)
    BY <2>2, <2>4 DEF SettledAs, DecidedAs, x, y
  <2> QED  BY <2>5
<1>5. ASSUME NEW p \in Submitters, sub[p].pc = "built"
      PROVE  sub[p].to \in {"approved", "rejected", "needs_review"}
  BY <1>5 DEF Typed, SubType
<1>6. ASSUME NEW p \in {"app", "browser"}, Decides(p)
      PROVE  /\ sub[p].pc = "built" /\ sub[p].to \in {"approved", "rejected", "needs_review"}
             /\ sess.face.n = sub[p].n
             /\ \E e \in 0..MaxNow : sess' = DecidedAs(sub[p].to, e, sub[p])
  <2>1. p \in Submitters /\ sub[p].pc = "built" /\ sess.face.n = sub[p].n
    BY <1>6 DEF Decides, Finish, StillBuiltOf, Submitters
  <2>2. sub[p].to \in {"approved", "rejected", "needs_review"}  BY <1>5, <2>1
  <2>3. sess' = ForStorage([Settle(sess, sub[p].to) EXCEPT
                              !.result = [n |-> sub[p].n, ok |-> sub[p].ok], !.shown = Keeps(sub[p].to)])
    BY <1>6 DEF Decides
  <2>4. sess' = SettledAs(sub[p].to, sub[p])  BY <2>3 DEF SettledAs
  <2> QED  BY <1>4, <2>1, <2>2, <2>4
<1>7. ASSUME Refers
      PROVE  /\ sub["yivi"].pc = "built"
             /\ sub["yivi"].to \in {"approved", "rejected", "needs_review"}
             /\ \E e \in 0..MaxNow : sess' = DecidedAs(sub["yivi"].to, e, sub["yivi"])
  <2>1. sub["yivi"].pc = "built" /\ "yivi" \in Submitters
    BY <1>7 DEF Refers, SettleReference, Submitters
  <2>2. sub["yivi"].to \in {"approved", "rejected", "needs_review"}  BY <1>5, <2>1
  <2>3. sess' = ForStorage([Settle(sess, sub["yivi"].to) EXCEPT
                              !.result = [n |-> sub["yivi"].n, ok |-> sub["yivi"].ok],
                              !.shown = Keeps(sub["yivi"].to)])
    BY <1>7 DEF Refers
  <2>4. sess' = SettledAs(sub["yivi"].to, sub["yivi"])  BY <2>3 DEF SettledAs
  <2> QED  BY <1>4, <2>1, <2>2, <2>4
<1>8. ASSUME Rejects
      PROVE  \E e \in 0..MaxNow :
               sess' = [sess EXCEPT !.status = "rejected", !.ended = e, !.pics = kind.keep]
  <2>1. PICK e \in 0..MaxNow : Settle(sess, "rejected")
          = [sess EXCEPT !.status = "rejected", !.ended = e, !.pics = sess.pics /\ Keeps("rejected")]
    BY <1>3
  <2>2. sess' = [sess EXCEPT !.status = "rejected", !.ended = e, !.pics = kind.keep]
    BY <1>1, <1>8, <2>1 DEF Rejects, SessType
  <2> QED  BY <2>2
<1>9. ASSUME NEW to \in {"approved", "rejected"}, Reviews(to)
      PROVE  \E e \in 0..MaxNow :
               sess' = [sess EXCEPT !.status = to, !.ended = e, !.pics = sess.pics /\ kind.keep,
                          !.shown = sess.shown /\ kind.keep]
  <2>1. PICK e \in 0..MaxNow : SetStatus(sess, to) = [sess EXCEPT !.status = to, !.ended = e]
    BY <1>1, <1>2
  <2>2. sess' = DropFacePhotos([sess EXCEPT !.status = to, !.ended = e])
    BY <1>9, <2>1 DEF Reviews
  <2> QED  BY <1>1, <2>2 DEF DropFacePhotos, SessType
<1> QED  BY <1>6, <1>7, <1>8, <1>9

Outcomes ==
  \/ \E p \in {"app", "browser"} : Decides(p)
  \/ Refers \/ Rejects
  \/ \E to \in {"approved", "rejected"} : Reviews(to)

(* A decision changes neither the evidence nor who may bring it.           *)
LEMMA OutcomeKeeps ==
  ASSUME Typed, Outcomes
  PROVE  /\ sess'.method = sess.method /\ sess'.exp = sess.exp /\ sess'.slot = sess.slot
         /\ sess'.grant = sess.grant /\ sess'.reserved = sess.reserved /\ sess'.doc = sess.doc
         /\ sess'.chip = sess.chip /\ sess'.face = sess.face /\ sess'.photo = sess.photo
         /\ sess'.status \in {"approved", "rejected", "needs_review"}
<1> DEFINE Kept == /\ sess'.method = sess.method /\ sess'.exp = sess.exp /\ sess'.slot = sess.slot
                   /\ sess'.grant = sess.grant /\ sess'.reserved = sess.reserved /\ sess'.doc = sess.doc
                   /\ sess'.chip = sess.chip /\ sess'.face = sess.face /\ sess'.photo = sess.photo
                   /\ sess'.status \in {"approved", "rejected", "needs_review"}
<1> SUFFICES Kept  OBVIOUS
<1>1. sess \in SessType  BY DEF Typed
<1>2. ASSUME NEW to \in {"approved", "rejected", "needs_review"}, NEW b, NEW e,
             sess' = DecidedAs(to, e, b)
      PROVE  Kept
  BY <1>1, <1>2 DEF DecidedAs, SessType
<1> HIDE DEF Kept
<1>3. ASSUME NEW p \in {"app", "browser"}, Decides(p)
      PROVE  Kept
  <2>1. sub[p].to \in {"approved", "rejected", "needs_review"}
    BY <1>3, OutcomeStores
  <2>2. PICK e \in 0..MaxNow : sess' = DecidedAs(sub[p].to, e, sub[p])
    BY <1>3, OutcomeStores
  <2> QED  BY <1>2, <2>1, <2>2
<1>4. CASE Refers
  <2>1. sub["yivi"].to \in {"approved", "rejected", "needs_review"}
    BY <1>4, OutcomeStores
  <2>2. PICK e \in 0..MaxNow : sess' = DecidedAs(sub["yivi"].to, e, sub["yivi"])
    BY <1>4, OutcomeStores
  <2> QED  BY <1>2, <2>1, <2>2
<1>5. CASE Rejects
  <2>1. PICK e \in 0..MaxNow :
          sess' = [sess EXCEPT !.status = "rejected", !.ended = e, !.pics = kind.keep]
    BY <1>5, OutcomeStores
  <2> QED  BY <1>1, <2>1 DEF Kept, SessType
<1>6. ASSUME NEW to \in {"approved", "rejected"}, Reviews(to)
      PROVE  Kept
  <2>1. PICK e \in 0..MaxNow :
          sess' = [sess EXCEPT !.status = to, !.ended = e, !.pics = sess.pics /\ kind.keep,
                     !.shown = sess.shown /\ kind.keep]
    BY <1>6, OutcomeStores
  <2> QED  BY <1>1, <1>6, <2>1 DEF Kept, SessType
<1> QED  BY <1>3, <1>4, <1>5, <1>6 DEF Outcomes

(* What the deadline, a refund, a cancel and an erasure leave.             *)
LEMMA LapseStores ==
  ASSUME Typed, Lapses
  PROVE  /\ sess' \in SessType
         /\ sess'.slot = sess.slot /\ sess'.grant = sess.grant /\ sess'.method = sess.method
         /\ sess'.reserved = sess.reserved /\ sess'.exp = sess.exp
         /\ sess'.result = sess.result /\ sess'.shown = sess.shown
         /\ sess'.status = (IF IsExpired(sess) THEN "expired" ELSE sess.status)
         /\ sess'.status \in {"expired", "cancelled"} =>
              sess'.face = NoFace /\ sess'.chip = 0 /\ ~sess'.photo /\ ~sess'.pics
         /\ sess'.status \notin {"expired", "cancelled"} => sess' = sess
<1>1. sess' = ForStorage(Fresh)  BY DEF Lapses
<1>2. sess' \in SessType  BY <1>1, FreshTyped, StoredTyped
<1> QED  BY <1>1, <1>2, Lapsed

LEMMA RefundStores ==
  ASSUME Typed, NEW c \in Calls, Refunds(c)
  PROVE  /\ call[c].pc = "verify" /\ call' = [call EXCEPT ![c].pc = "refunded"]
         /\ call[c].n \in 1..MaxAttempts /\ sess.reserved = call[c].n
         /\ sess' \in SessType
         /\ sess'.slot = sess.slot /\ sess'.grant = sess.grant /\ sess'.method = sess.method
         /\ sess'.exp = sess.exp /\ sess'.result = sess.result /\ sess'.shown = sess.shown
         /\ sess'.status = (IF IsExpired(sess) THEN "expired" ELSE sess.status)
         /\ sess'.reserved = call[c].n - 1 /\ sess'.face.n <= sess'.reserved
         /\ sess'.status \in {"expired", "cancelled"} =>
              sess'.face = NoFace /\ sess'.chip = 0 /\ ~sess'.photo /\ ~sess'.pics
         /\ sess'.status \notin {"expired", "cancelled"} =>
              /\ sess.face.n < call[c].n
              /\ sess' = [sess EXCEPT !.reserved = call[c].n - 1]
<1> DEFINE n == call[c].n
           s == [Fresh EXCEPT !.reserved = n - 1]
<1>1. Fresh \in SessType /\ ForStorage(Fresh) \in SessType  BY FreshTyped, StoredTyped
<1>2. call[c] \in CallType /\ n \in 0..MaxAttempts  BY DEF Typed, CallType
<1>3. Fresh.reserved = n /\ Fresh.face.n < n /\ Fresh.face.n \in Nat /\ sess' = ForStorage(s)
  BY <1>1 DEF Refunds, Refundable, SessType, FaceType
<1>4. n \in 1..MaxAttempts /\ n - 1 \in 0..MaxAttempts /\ Fresh.face.n <= n - 1
  BY <1>2, <1>3, BoundTypes
<1>5. call[c].pc = "verify" /\ call' = [call EXCEPT ![c].pc = "refunded"]
  <2>1. call[c].pc = "verify"  BY DEF Refunds, FaceFailed
  <2>2. sess.status # "gone" /\ Refundable(Fresh, call[c].n)  BY DEF Refunds
  <2> QED  BY <2>1, <2>2 DEF Refunds, FaceFailed, End
<1> HIDE DEF n
<1>6. s.status = Fresh.status
  BY <1>1 DEF SessType
<1>7. sess' = [ForStorage(Fresh) EXCEPT !.reserved = n - 1]
  BY <1>1, <1>3, <1>6 DEF ForStorage, SessType
<1>8. sess' \in SessType  BY <1>1, <1>4, <1>7, Parts
<1>9. sess'.face = ForStorage(Fresh).face /\ sess'.reserved = n - 1
  BY <1>1, <1>7 DEF SessType
<1>10. ForStorage(Fresh).face.n <= n - 1
  <2>1. ForStorage(Fresh).face = NoFace \/ ForStorage(Fresh) = Fresh
    BY <1>1 DEF ForStorage, SessType
  <2>2. NoFace.n = 0 /\ 0 <= n - 1  BY <1>4 DEF NoFace
  <2> QED  BY <1>4, <2>1, <2>2
<1>11. sess.reserved = n  BY <1>3, Lapsed
<1>12. /\ sess'.slot = sess.slot /\ sess'.grant = sess.grant /\ sess'.method = sess.method
       /\ sess'.exp = sess.exp /\ sess'.result = sess.result /\ sess'.shown = sess.shown
       /\ sess'.status = (IF IsExpired(sess) THEN "expired" ELSE sess.status)
       /\ sess'.status \in {"expired", "cancelled"} =>
            sess'.face = NoFace /\ sess'.chip = 0 /\ ~sess'.photo /\ ~sess'.pics
  BY <1>1, <1>7, Lapsed DEF SessType
<1>13. sess'.status = ForStorage(Fresh).status  BY <1>1, <1>7 DEF SessType
<1>14. sess'.status \notin {"expired", "cancelled"} =>
         sess.face.n < n /\ sess' = [sess EXCEPT !.reserved = n - 1]
  BY <1>3, <1>7, <1>13, Lapsed
<1> QED  BY <1>4, <1>5, <1>8, <1>9, <1>10, <1>11, <1>12, <1>14 DEF n

LEMMA CancelStores ==
  ASSUME Typed, Cancels
  PROVE  /\ sess' \in SessType /\ sess'.status = "cancelled"
         /\ sess'.slot = sess.slot /\ sess'.grant = sess.grant /\ sess'.method = sess.method
         /\ sess'.reserved = sess.reserved /\ sess'.exp = sess.exp
         /\ sess'.result = sess.result /\ sess'.shown = sess.shown
         /\ sess'.face = NoFace /\ sess'.chip = 0 /\ ~sess'.photo /\ ~sess'.pics
<1>1. sess \in SessType /\ "cancelled" \in Statuses  BY DEF Typed, Statuses, Terminal
<1> DEFINE s == SetStatus(sess, "cancelled")
<1>2. s \in SessType  BY <1>1, SetStatusTyped
<1>3. /\ s.status = "cancelled"
      /\ s.slot = sess.slot /\ s.grant = sess.grant /\ s.method = sess.method
      /\ s.reserved = sess.reserved /\ s.exp = sess.exp /\ s.result = sess.result
      /\ s.shown = sess.shown
  BY <1>1 DEF SetStatus, SessType
<1>4. sess' = ForStorage(s)  BY DEF Cancels
<1> HIDE DEF s
<1>5. sess' \in SessType  BY <1>2, <1>4, StoredTyped
<1> QED  BY <1>2, <1>3, <1>4, <1>5 DEF ForStorage, SessType

LEMMA EraseStores ==
  ASSUME Typed, Erases
  PROVE  /\ sess' \in SessType /\ sess'.status = "gone"
         /\ sess'.slot = [r \in Roles |-> NoSlot] /\ sess'.grant = [r \in Roles |-> NoGrant]
         /\ sess'.method = sess.method /\ sess'.reserved = 0 /\ sess'.exp = sess.exp
         /\ sess'.face = NoFace /\ sess'.chip = 0 /\ ~sess'.photo /\ ~sess'.pics /\ ~sess'.shown
<1>1. sess \in SessType  BY DEF Typed
<1>2. NoFace \in FaceType /\ 0 \in Tokens /\ 0 \in 0..MaxAttempts
  BY BoundTypes, KindTypes DEF NoFace, FaceType, Tokens, Typed
<1>3. NoSlot \in SlotType /\ NoGrant \in GrantType
  BY SlotGrantTyped DEF Roles
<1>4. [r \in Roles |-> NoSlot] \in [Roles -> SlotType] /\ [r \in Roles |-> NoGrant] \in [Roles -> GrantType]
  BY <1>3
<1>5. "gone" \in Statuses /\ [n |-> 0, ok |-> FALSE] \in [n : 0..MaxAttempts, ok : BOOLEAN]
  BY <1>2 DEF Statuses
<1> DEFINE l == [r \in Roles |-> NoSlot]
           g == [r \in Roles |-> NoGrant]
           x == [n |-> 0, ok |-> FALSE]
<1>6. sess' = [sess EXCEPT !.status = "gone", !.slot = l, !.grant = g, !.doc = "none", !.chip = 0,
                 !.face = NoFace, !.photo = FALSE, !.pics = FALSE, !.shown = FALSE,
                 !.result = x, !.reserved = 0]
  BY DEF Erases, Erased
<1> HIDE DEF l, g, x
<1> QED  BY <1>1, <1>2, <1>4, <1>5, <1>6 DEF SessType, l, g, x

LEMMA FlagStores ==
  ASSUME Typed, NEW r \in Roles, Flags(r)
  PROVE  \E l \in [Roles -> SlotType] : sess' = [sess EXCEPT !.slot = l]
<1>1. PICK i, o \in BOOLEAN : sess' = [sess EXCEPT !.slot[r].inactive = i, !.slot[r].stale = o]
  BY DEF Flags
<1> DEFINE x == [sess.slot[r] EXCEPT !.inactive = i, !.stale = o]
           l == [sess.slot EXCEPT ![r] = x]
<1>2. x \in SlotType  BY SlotGrantTyped DEF SlotType
<1>3. l \in [Roles -> SlotType]  BY <1>2, SlotGrantTyped
<1>4. sess' = [sess EXCEPT !.slot = l]
  BY <1>1 DEF Typed, SessType, SlotType
<1> QED  BY <1>3, <1>4

LEMMA SpendStores ==
  ASSUME Typed, NEW c \in Calls, NEW t \in 1..Len(issued), Spends(c, t)
  PROVE  LET k == Reserved(sess) + 1
         IN  /\ k \in 1..MaxAttempts /\ sess.reserved < k /\ sess.face.n < k
             /\ Reserved(sess) \in {sess.reserved, sess.face.n}
             /\ sess' = [sess EXCEPT !.reserved = k]
             /\ call' = [call EXCEPT ![c] = [pc |-> "verify", tok |-> t, n |-> k]]
             /\ call[c].pc = "idle" /\ sess.chip # 0
             /\ sess.face.n > 0 => ~sess.face.ok
<1>1. Fresh = sess  BY DEF Spends, Open, Fresh
<1>2. Reserved(sess) < MaxAttempts /\ sess.chip # 0
      /\ (sess.face.n > 0 => ~sess.face.ok) /\ call[c].pc = "idle"
  BY <1>1 DEF Spends, ReserveFace, StepWriteCheck, Retryable, Calls
<1>3. sess.reserved \in Nat /\ sess.face.n \in Nat /\ MaxAttempts \in Nat
  BY BoundTypes DEF Typed, SessType, FaceType
<1>4. /\ Reserved(sess) \in Nat /\ sess.reserved <= Reserved(sess) /\ sess.face.n <= Reserved(sess)
      /\ Reserved(sess) \in {sess.reserved, sess.face.n}
  BY <1>3, LeastMost DEF Reserved
<1>5. /\ sess' = [sess EXCEPT !.reserved = Reserved(sess) + 1]
      /\ call' = [call EXCEPT ![c] = [pc |-> "verify", tok |-> t, n |-> Reserved(sess) + 1]]
  BY <1>1 DEF Spends, ReserveFace
<1> QED  BY <1>2, <1>3, <1>4, <1>5

LEMMA SessTyped ==
  ASSUME Typed, SessStep
  PROVE  sess' \in SessType
<1>1. sess \in SessType /\ Running \subseteq Statuses  BY DEF Typed, Statuses
<1>2. ASSUME NEW r \in Roles, Mints(r)
      PROVE  sess' \in SessType
  <2>1. PICK e \in Nat : /\ [id |-> minted + 1, exp |-> e, used |-> FALSE] \in GrantType
                         /\ sess' = [sess EXCEPT !.grant = [sess.grant EXCEPT ![r] =
                                       [id |-> minted + 1, exp |-> e, used |-> FALSE]]]
    BY <1>2, MintStores
  <2>2. [sess.grant EXCEPT ![r] = [id |-> minted + 1, exp |-> e, used |-> FALSE]]
          \in [Roles -> GrantType]
    BY <2>1, SlotGrantTyped
  <2> QED  BY <1>1, <2>1, <2>2, Parts
<1>3. ASSUME NEW t \in 1..Len(issued), Returns(t)
      PROVE  sess' \in SessType
  <2> DEFINE r == issued[t].role
             g == [sess.grant EXCEPT ![r] = IF sess.grant[r].used THEN sess.grant[r] ELSE NoGrant]
  <2>1. PICK l \in [Roles -> SlotType] : sess' = [sess EXCEPT !.slot = l, !.grant = g]
    BY <1>3, ReturnStores
  <2>2. r \in Roles /\ NoGrant \in GrantType /\ sess.grant \in [Roles -> GrantType]
    BY IssuedTypes, SlotGrantTyped
  <2>3. g \in [Roles -> GrantType]  BY <2>2
  <2> HIDE DEF g
  <2> QED  BY <1>1, <2>1, <2>3 DEF SessType
<1>4. ASSUME NEW r \in Roles, Flags(r)
      PROVE  sess' \in SessType
  BY <1>1, <1>4, FlagStores, Parts
<1>5. ASSUME Open, Starts \/ Scans \/ Photos \/ (\E t \in 1..Len(issued) : Chips(t))
                   \/ (\E c \in Calls : Lands(c, TRUE) \/ Lands(c, FALSE))
      PROVE  sess' \in SessType
  <2>1. ASSUME NEW st \in Running
        PROVE  /\ [sess EXCEPT !.status = st] \in SessType
               /\ [sess EXCEPT !.doc = "mrz", !.status = st] \in SessType
               /\ [sess EXCEPT !.photo = TRUE, !.status = st] \in SessType
               /\ \A f \in FaceType : [sess EXCEPT !.face = f, !.pics = TRUE, !.status = st] \in SessType
               /\ \A t \in Tokens :
                    [sess EXCEPT !.chip = t, !.doc = "chip", !.pics = TRUE, !.status = st] \in SessType
    BY <1>1 DEF SessType
  <2>2. CASE Starts  BY <1>5, <2>1, <2>2, EvidenceStores
  <2>3. CASE Scans   BY <1>5, <2>1, <2>3, EvidenceStores
  <2>4. CASE Photos  BY <1>5, <2>1, <2>4, EvidenceStores
  <2>5. ASSUME NEW t \in 1..Len(issued), Chips(t)
        PROVE  sess' \in SessType
    <3>1. PICK st \in Running :
            sess' = [sess EXCEPT !.chip = t, !.doc = "chip", !.pics = TRUE, !.status = st]
      BY <1>5, <2>5, EvidenceStores
    <3>2. t \in Tokens  BY IssuedTypes
    <3> QED  BY <2>1, <3>1, <3>2
  <2>6. ASSUME NEW c \in Calls, NEW ok \in BOOLEAN, Lands(c, ok)
        PROVE  sess' \in SessType
    <3>1. FaceOf(c, ok) \in FaceType  BY <2>6, LandStores
    <3>2. PICK st \in Running :
            sess' = [sess EXCEPT !.face = FaceOf(c, ok), !.pics = TRUE, !.status = st]
      BY <2>6, LandStores
    <3> QED  BY <2>1, <3>1, <3>2
  <2> QED  BY <1>5, <2>2, <2>3, <2>4, <2>5, <2>6
<1>6. ASSUME NEW to \in {"approved", "rejected", "needs_review"}, NEW e \in 0..MaxNow,
             NEW p \in Submitters, sess' = DecidedAs(to, e, sub[p])
      PROVE  sess' \in SessType
  <2> DEFINE x == [n |-> sub[p].n, ok |-> sub[p].ok]
             y == Keeps(to)
             z == sess.pics /\ Keeps(to)
  <2>1. x \in [n : 0..MaxAttempts, ok : BOOLEAN]  BY DEF Typed, SubType
  <2>2. y \in BOOLEAN /\ z \in BOOLEAN  BY KindTypes DEF Keeps, Typed
  <2>3. sess' = [sess EXCEPT !.status = to, !.ended = e, !.pics = z, !.shown = y, !.result = x]
    BY <1>6 DEF DecidedAs
  <2>4. to \in Statuses  BY DEF Statuses, Terminal
  <2> HIDE DEF x, y, z
  <2> QED  BY <1>1, <2>1, <2>2, <2>3, <2>4 DEF SessType
<1>7. ASSUME NEW p \in {"app", "browser"}, Decides(p)
      PROVE  sess' \in SessType
  BY <1>6, <1>7, OutcomeStores DEF Submitters
<1>8. ASSUME Refers
      PROVE  sess' \in SessType
  BY <1>6, <1>8, OutcomeStores DEF Submitters
<1>9. ASSUME Rejects \/ (\E to \in {"approved", "rejected"} : Reviews(to))
      PROVE  sess' \in SessType
  <2> DEFINE z == sess.pics /\ kind.keep
             y == sess.shown /\ kind.keep
  <2>1. kind.keep \in BOOLEAN /\ z \in BOOLEAN /\ y \in BOOLEAN  BY KindTypes DEF Typed
  <2>2. ASSUME NEW to \in {"approved", "rejected"}, NEW e \in 0..MaxNow
        PROVE  /\ [sess EXCEPT !.status = to, !.ended = e, !.pics = kind.keep] \in SessType
               /\ [sess EXCEPT !.status = to, !.ended = e, !.pics = z, !.shown = y] \in SessType
    <3>1. to \in Statuses  BY DEF Statuses, Terminal
    <3> HIDE DEF y, z
    <3> QED  BY <1>1, <2>1, <3>1 DEF SessType
  <2>3. CASE Rejects
    <3>1. PICK e \in 0..MaxNow :
            sess' = [sess EXCEPT !.status = "rejected", !.ended = e, !.pics = kind.keep]
      BY <2>3, OutcomeStores
    <3> QED  BY <2>2, <3>1
  <2>4. ASSUME NEW to \in {"approved", "rejected"}, Reviews(to)
        PROVE  sess' \in SessType
    <3>1. PICK e \in 0..MaxNow :
            sess' = [sess EXCEPT !.status = to, !.ended = e, !.pics = z, !.shown = y]
      BY <2>4, OutcomeStores
    <3> HIDE DEF y, z
    <3> QED  BY <2>2, <3>1
  <2> QED  BY <1>9, <2>3, <2>4
<1>10. ASSUME NEW c \in Calls, NEW t \in 1..Len(issued), Spends(c, t)
       PROVE  sess' \in SessType
  <2>1. Reserved(sess) + 1 \in 0..MaxAttempts /\ sess' = [sess EXCEPT !.reserved = Reserved(sess) + 1]
    BY <1>10, SpendStores
  <2> QED  BY <1>1, <2>1, Parts
<1>11. ASSUME NEW m \in {"idem", "yivi"}, Chooses(m)
       PROVE  sess' \in SessType
  BY <1>1, <1>11, Parts DEF Chooses, Methods
<1>12. CASE Quiet  BY <1>1, <1>12 DEF Quiet
<1>13. (Starts => Open) /\ (Scans => Open) /\ (Photos => Open)
       /\ (\A t : Chips(t) => Open) /\ (\A c, ok : Lands(c, ok) => Open)
  BY DEF Starts, Scans, Photos, Chips, Lands
<1> QED
  BY <1>2, <1>3, <1>4, <1>5, <1>7, <1>8, <1>9, <1>10, <1>11, <1>12, <1>13,
     ClaimStores, LapseStores, EraseStores, RefundStores, CancelStores DEF SessStep

(* The steps that move a face submission.                                  *)
LEMMA CallMoves ==
  ASSUME [Next]_vars
  PROVE  \/ call' = call
         \/ \E c \in Calls, t \in 1..Len(issued) : ReserveFace(c, t)
         \/ \E c \in Calls : FaceAnswered(c, TRUE) \/ FaceAnswered(c, FALSE)
                             \/ FaceFailed(c) \/ FaceRefused(c)
         \/ Crash
<1>1. CASE Devices
  BY <1>1 DEF Devices, ClaimHandover, GoStale, MintByWallet, MintByDevice, DeviceActive,
     DeviceInactive, TouchDevice, deviceVars
<1>2. CASE Steps
  BY <1>2 DEF Steps, StartStep, SubmitDocument, SubmitNFC, SubmitApp, Finish
<1>3. CASE Wallet
  BY <1>3 DEF Wallet, DocumentPhoto, FailDocumentScan, ReadReference, SettleReference,
     DecideReview, ChooseMethod, CancelSession, DeleteSession
<1>4. CASE Jobs
  BY <1>4 DEF Jobs, ExpireDue, RemoveFinished, TakeNotice, WalletReads, WalletTold, Tick
<1>5. CASE UNCHANGED vars
  BY <1>5 DEF vars
<1> QED  BY <1>1, <1>2, <1>3, <1>4, <1>5 DEF Next

(* The steps that build a result or use one up.                            *)
LEMMA SubMoves ==
  ASSUME [Next]_vars
  PROVE  \/ sub' = sub
         \/ \E t \in 1..Len(issued) : SubmitApp(t) /\ Build("app", t, sess)
         \/ DocumentPhoto
         \/ ReadReference
         \/ \E p \in {"app", "browser"} : Finish(p)
         \/ SettleReference
         \/ Crash
<1>1. CASE Devices
  BY <1>1 DEF Devices, ClaimHandover, GoStale, MintByWallet, MintByDevice, DeviceActive,
     DeviceInactive, TouchDevice, deviceVars
<1>2. CASE Steps
  <2>1. ASSUME NEW t \in 1..Len(issued), SubmitApp(t)
        PROVE  sub' = sub \/ (SubmitApp(t) /\ Build("app", t, sess))
    BY <2>1 DEF SubmitApp
  <2>2. ASSUME NEW t \in 1..Len(issued), StartStep(t) \/ SubmitDocument(t) \/ SubmitNFC(t)
        PROVE  sub' = sub
    BY <2>2 DEF StartStep, SubmitDocument, SubmitNFC
  <2>3. ASSUME NEW t \in 1..Len(issued), NEW c \in Calls, ReserveFace(c, t)
        PROVE  sub' = sub
    BY <2>3 DEF ReserveFace
  <2>4. ASSUME NEW c \in Calls, FaceAnswered(c, TRUE) \/ FaceAnswered(c, FALSE)
                                \/ FaceFailed(c) \/ FaceRefused(c)
        PROVE  sub' = sub
    BY <2>4 DEF FaceAnswered, FaceFailed, FaceRefused
  <2>5. ASSUME NEW p \in Submitters, Finish(p)
        PROVE  p \in {"app", "browser"}
    BY <2>5 DEF Finish, Submitters
  <2> QED  BY <1>2, <2>1, <2>2, <2>3, <2>4, <2>5 DEF Steps
<1>3. CASE Wallet
  BY <1>3 DEF Wallet, FailDocumentScan, DecideReview, ChooseMethod, CancelSession, DeleteSession
<1>4. CASE Jobs
  BY <1>4 DEF Jobs, ExpireDue, RemoveFinished, TakeNotice, WalletReads, WalletTold, Tick
<1>5. CASE UNCHANGED vars
  BY <1>5 DEF vars
<1> QED  BY <1>1, <1>2, <1>3, <1>4, <1>5 DEF Next

(* What becomes of the notice: a step that notes the deadline queues it.   *)
LEMMA Notices ==
  ASSUME Typed, [Next]_vars
  PROVE  \/ QueueChanged /\ telling' = telling /\ seen' = seen
         \/ /\ UNCHANGED <<queued, faults, telling, seen>>
            /\ IsExpired(sess) => sess'.status \in {sess.status, "gone"}
         \/ /\ sess' = sess
            /\ TakeNotice \/ WalletReads \/ WalletTold \/ Crash
<1> DEFINE Noted == \/ QueueChanged /\ telling' = telling /\ seen' = seen
                    \/ /\ UNCHANGED <<queued, faults, telling, seen>>
                       /\ IsExpired(sess) => sess'.status \in {sess.status, "gone"}
<1>1. ASSUME NEW s, NEW tells, Update(s, tells), telling' = telling, seen' = seen
      PROVE  Noted
  BY <1>1 DEF Update
<1>2. ASSUME Refused, telling' = telling, seen' = seen
      PROVE  Noted
  BY <1>1, <1>2 DEF Refused
<1>3. CASE Devices
  <2>1. ASSUME NEW r \in Roles, ClaimHandover(r)
        PROVE  Noted
    <3> HIDE DEF Noted
    <3> QED  BY <1>1, <2>1 DEF ClaimHandover, deviceVars
  <2>2. ASSUME NEW r \in Roles, GoStale(r)
        PROVE  Noted
    BY <2>2 DEF GoStale, deviceVars, Typed, SessType
  <2>3. ASSUME MintByWallet
        PROVE  Noted
    <3> HIDE DEF Noted
    <3> QED  BY <1>1, <2>3 DEF MintByWallet, deviceVars
  <2>4. ASSUME NEW t \in 1..Len(issued), DeviceActive(t) \/ DeviceInactive(t) \/ TouchDevice(t)
                                         \/ \E r \in Roles : MintByDevice(t, r)
        PROVE  Noted
    <3> HIDE DEF Noted
    <3> QED  BY <1>1, <2>4 DEF DeviceActive, DeviceInactive, TouchDevice, MintByDevice, deviceVars
  <2> QED  BY <1>3, <2>1, <2>2, <2>3, <2>4 DEF Devices
<1>4. CASE Steps
  <2> HIDE DEF Noted
  <2>0. ASSUME UNCHANGED <<sess, queued, faults, telling, seen>>
        PROVE  Noted
    BY <2>0 DEF Noted
  <2>1. ASSUME NEW t \in 1..Len(issued), StartStep(t) \/ SubmitDocument(t) \/ SubmitNFC(t)
        PROVE  Noted
    BY <1>1, <2>1 DEF StartStep, SubmitDocument, SubmitNFC, stepVars
  <2>2. ASSUME NEW t \in 1..Len(issued), SubmitApp(t)
        PROVE  Noted
    BY <2>0, <2>2 DEF SubmitApp, stepVars
  <2>3. ASSUME NEW t \in 1..Len(issued), NEW c \in Calls, ReserveFace(c, t)
        PROVE  Noted
    BY <1>1, <2>3 DEF ReserveFace, stepVars
  <2>4. ASSUME NEW c \in Calls, NEW ok \in BOOLEAN, FaceAnswered(c, ok)
        PROVE  Noted
    BY <1>1, <1>2, <2>4 DEF FaceAnswered, stepVars
  <2>5. ASSUME NEW c \in Calls, FaceFailed(c)
        PROVE  Noted
    BY <1>1, <1>2, <2>5 DEF FaceFailed, stepVars
  <2>6. ASSUME NEW c \in Calls, FaceRefused(c)
        PROVE  Noted
    BY <2>0, <2>6 DEF FaceRefused, stepVars
  <2>7. ASSUME NEW p \in Submitters, Finish(p)
        PROVE  Noted
    BY <1>1, <1>2, <2>7 DEF Finish, stepVars
  <2> QED  BY <1>4, <2>1, <2>2, <2>3, <2>4, <2>5, <2>6, <2>7 DEF Steps, Noted
<1>5. CASE Wallet
  <2> HIDE DEF Noted
  <2>0. ASSUME UNCHANGED <<queued, faults, telling, seen>>, sess' = sess \/ sess' = Erased
        PROVE  Noted
    <3>1. Erased.status = "gone"  BY DEF Erased, Typed, SessType
    <3> QED  BY <2>0, <3>1 DEF Noted
  <2>1. ASSUME DocumentPhoto
        PROVE  Noted
    BY <1>1, <2>1 DEF DocumentPhoto, stepVars
  <2>2. ASSUME FailDocumentScan
        PROVE  Noted
    BY <1>1, <2>2 DEF FailDocumentScan, stepVars
  <2>3. ASSUME ReadReference
        PROVE  Noted
    BY <2>0, <2>3 DEF ReadReference, stepVars
  <2>4. ASSUME SettleReference
        PROVE  Noted
    BY <1>1, <1>2, <2>4 DEF SettleReference, stepVars
  <2>5. ASSUME NEW to \in {"approved", "rejected"}, DecideReview(to)
        PROVE  Noted
    BY <1>1, <2>5 DEF DecideReview, stepVars
  <2>6. ASSUME NEW m \in {"idem", "yivi"}, ChooseMethod(m)
        PROVE  Noted
    BY <1>1, <2>6 DEF ChooseMethod, stepVars
  <2>7. ASSUME CancelSession
        PROVE  Noted
    BY <1>1, <2>7 DEF CancelSession, stepVars
  <2>8. ASSUME DeleteSession
        PROVE  Noted
    BY <2>0, <2>8 DEF DeleteSession, stepVars
  <2> QED
    BY <1>5, <2>1, <2>2, <2>3, <2>4, <2>5, <2>6, <2>7, <2>8 DEF Wallet, Noted
<1>6. CASE Jobs
  <2>1. CASE ExpireDue
    <3> HIDE DEF Noted
    <3>1. Noted  BY <1>1, <2>1 DEF ExpireDue, stepVars
    <3> QED  BY <3>1 DEF Noted
  <2>2. CASE RemoveFinished
    BY <2>2 DEF RemoveFinished, stepVars, Erased, Typed, SessType
  <2>3. CASE Tick
    BY <2>3 DEF Tick, restVars
  <2>4. CASE TakeNotice \/ WalletReads \/ WalletTold \/ Crash
    BY <2>4 DEF TakeNotice, WalletReads, WalletTold, Crash, restVars
  <2> QED  BY <1>6, <2>1, <2>2, <2>3, <2>4 DEF Jobs
<1>7. CASE UNCHANGED vars
  BY <1>7 DEF vars
<1> QED  BY <1>3, <1>4, <1>5, <1>6, <1>7 DEF Next

LEMMA OutcomeTyped ==
  ASSUME Typed, NEW s
  PROVE  Outcome(s) \in {"approved", "rejected", "needs_review"}
BY KindTypes DEF Outcome, Typed

LEMMA BuildTyped ==
  ASSUME Typed, NEW s \in SessType, NEW t \in Tokens, NEW p \in Submitters, Build(p, t, s)
  PROVE  /\ sub' \in [Submitters -> SubType]
         /\ sub'[p] = [pc |-> "built", tok |-> t, n |-> s.face.n, ok |-> s.face.ok, to |-> Outcome(s)]
         /\ \A q \in Submitters : q # p => sub'[q] = sub[q]
         /\ \A q \in Submitters : sub'[q].pc = "built" => sub'[q].to # "none"
<1> DEFINE b == [pc |-> "built", tok |-> t, n |-> s.face.n, ok |-> s.face.ok, to |-> Outcome(s)]
<1>1. b \in SubType /\ b.to # "none"
  BY OutcomeTyped DEF SubType, SessType, FaceType
<1>2. sub' = [sub EXCEPT ![p] = b] /\ sub \in [Submitters -> SubType]
  BY DEF Build, Typed
<1>3. \A q \in Submitters : sub[q].pc = "built" => sub[q].to # "none"  BY DEF Typed
<1> HIDE DEF b
<1>4. sub' \in [Submitters -> SubType] /\ sub'[p] = b /\ \A q \in Submitters : q # p => sub'[q] = sub[q]
  BY <1>1, <1>2
<1>5. \A q \in Submitters : sub'[q].pc = "built" => sub'[q].to # "none"
  BY <1>1, <1>3, <1>4
<1> QED  BY <1>4, <1>5 DEF b

LEMMA NoSubTyped ==
  ASSUME Typed
  PROVE  NoSub \in SubType /\ NoSub.pc = "idle"
BY BoundTypes, KindTypes DEF NoSub, SubType, Tokens, Typed

(* The session the browser's photo is put in.                              *)
Pictured == IF sess.photo THEN sess ELSE InProgress([sess EXCEPT !.photo = TRUE])

LEMMA PhotoBuilds ==
  ASSUME Typed, DocumentPhoto
  PROVE  /\ Pictured \in SessType /\ sess' = Pictured /\ Open
         /\ sub["browser"].pc = "idle"
         /\ sess'.photo /\ sess'.face = sess.face /\ sess'.method = sess.method
         /\ \/ Build("browser", 0, Pictured)
            \/ sub' = sub /\ ~(sess'.method = "browser" \/ (sess'.method = "idem" /\ Complete(sess')))
<1>1. sess \in SessType  BY DEF Typed
<1>2. Fresh = sess /\ Open  BY <1>1, OpenFresh DEF DocumentPhoto
<1> DEFINE s == [sess EXCEPT !.photo = TRUE]
<1>3. s \in SessType /\ s.status = sess.status  BY <1>1 DEF SessType
<1>4. PICK st \in Running : InProgress(s) = [s EXCEPT !.status = st]
  <2> HIDE DEF s
  <2> QED  BY <1>2, <1>3, Advance DEF Open
<1>5. \/ Pictured = sess /\ sess.photo
      \/ Pictured = [sess EXCEPT !.photo = TRUE, !.status = st] /\ ~sess.photo
  <2>1. [s EXCEPT !.status = st] = [sess EXCEPT !.photo = TRUE, !.status = st]
    BY <1>1 DEF SessType
  <2>2. sess.photo \in BOOLEAN  BY <1>1 DEF SessType
  <2>3. CASE sess.photo   BY <2>3 DEF Pictured
  <2>4. CASE ~sess.photo  BY <1>4, <2>1, <2>4 DEF Pictured
  <2> QED  BY <2>3, <2>4
<1>6. /\ Pictured \in SessType /\ Pictured.status \in Running /\ Pictured.photo
      /\ Pictured.face = sess.face /\ Pictured.method = sess.method
  <2>1. Running \subseteq Statuses  BY DEF Statuses
  <2> QED  BY <1>1, <1>2, <1>5, <2>1 DEF SessType, Open
<1>7. sess' = ForStorage(Pictured)
  BY <1>2 DEF DocumentPhoto, Update, Pictured
<1>8. sess' = Pictured  BY <1>6, <1>7, StoredWhole DEF Running
<1>9. \/ Build("browser", 0, Pictured)
      \/ sub' = sub /\ ~(Pictured.method = "browser" \/ (Pictured.method = "idem" /\ Complete(Pictured)))
  BY <1>2 DEF DocumentPhoto, Pictured, System
<1>10. Complete(sess') = Complete(Pictured)  BY <1>8
<1> QED  BY <1>2, <1>6, <1>8, <1>9, <1>10 DEF DocumentPhoto

LEMMA SubTyped ==
  ASSUME Typed, [Next]_vars
  PROVE  /\ sub' \in [Submitters -> SubType]
         /\ \A p \in Submitters : sub'[p].pc = "built" => sub'[p].to # "none"
<1>1. sess \in SessType /\ 0 \in Tokens /\ sub \in [Submitters -> SubType]
      /\ \A p \in Submitters : sub[p].pc = "built" => sub[p].to # "none"
  BY KindTypes DEF Typed, Tokens
<1>2. ASSUME NEW p \in Submitters, sub' = [sub EXCEPT ![p] = NoSub]
      PROVE  /\ sub' \in [Submitters -> SubType]
             /\ \A q \in Submitters : sub'[q].pc = "built" => sub'[q].to # "none"
  BY <1>1, <1>2, NoSubTyped
<1>3. CASE sub' = sub  BY <1>1, <1>3
<1>4. ASSUME NEW t \in 1..Len(issued), Build("app", t, sess)
      PROVE  /\ sub' \in [Submitters -> SubType]
             /\ \A q \in Submitters : sub'[q].pc = "built" => sub'[q].to # "none"
  BY <1>1, <1>4, BuildTyped, IssuedTypes DEF Submitters
<1>5. CASE DocumentPhoto
  <2>1. CASE Build("browser", 0, Pictured)
    BY <1>1, <1>5, <2>1, BuildTyped, PhotoBuilds DEF Submitters
  <2> QED  BY <1>3, <1>5, <2>1, PhotoBuilds
<1>6. CASE ReadReference
  BY <1>1, <1>6, BuildTyped DEF ReadReference, Submitters, System
<1>7. ASSUME NEW p \in {"app", "browser"}, Finish(p)
      PROVE  /\ sub' \in [Submitters -> SubType]
             /\ \A q \in Submitters : sub'[q].pc = "built" => sub'[q].to # "none"
  <2>1. p \in Submitters /\ sub' = [sub EXCEPT ![p] = NoSub]
    BY <1>7 DEF Finish, Submitters
  <2> QED  BY <1>2, <2>1
<1>8. CASE SettleReference
  <2>1. "yivi" \in Submitters /\ sub' = [sub EXCEPT !["yivi"] = NoSub]
    BY <1>8 DEF SettleReference, Submitters
  <2> QED  BY <1>2, <2>1
<1>9. CASE Crash
  BY <1>9, NoSubTyped DEF Crash
<1> QED  BY <1>3, <1>4, <1>5, <1>6, <1>7, <1>8, <1>9, SubMoves

LEMMA CallTyped ==
  ASSUME Typed, [Next]_vars
  PROVE  call' \in [Calls -> CallType]
<1>1. call \in [Calls -> CallType]  BY DEF Typed
<1>2. ASSUME NEW c \in Calls, NEW how \in {"spent", "refunded"}, End(c, how)
      PROVE  call' \in [Calls -> CallType]
  BY <1>1, <1>2 DEF End, CallType
<1>3. ASSUME NEW c \in Calls, NEW t \in 1..Len(issued), ReserveFace(c, t)
      PROVE  call' \in [Calls -> CallType]
  <2>1. sess \in SessType  BY DEF Typed
  <2>2. Fresh = sess /\ Open
    BY <1>3, <2>1, OpenFresh DEF ReserveFace, StepWriteCheck, CheckAppWrite
  <2>3. Reserved(sess) < MaxAttempts
    BY <1>3, <2>2 DEF ReserveFace, StepWriteCheck
  <2>4. sess.reserved \in Nat /\ sess.face.n \in Nat /\ MaxAttempts \in Nat
    BY <2>1, BoundTypes DEF SessType, FaceType
  <2>5. Reserved(sess) \in Nat  BY <2>4, LeastMost DEF Reserved
  <2>6. [pc |-> "verify", tok |-> t, n |-> Reserved(sess) + 1] \in CallType
    BY <2>3, <2>4, <2>5, IssuedTypes DEF CallType
  <2>7. call' = [call EXCEPT ![c] = [pc |-> "verify", tok |-> t, n |-> Reserved(sess) + 1]]
    BY <1>3, <2>2 DEF ReserveFace
  <2> QED  BY <1>1, <2>6, <2>7
<1>4. ASSUME NEW c \in Calls, FaceAnswered(c, TRUE) \/ FaceAnswered(c, FALSE)
                              \/ FaceFailed(c) \/ FaceRefused(c)
      PROVE  \E how \in {"spent", "refunded"} : End(c, how)
  BY <1>4 DEF FaceAnswered, FaceFailed, FaceRefused
<1>5. CASE Crash
  <2>1. \A c \in Calls : [call[c] EXCEPT !.pc = "spent"] \in CallType
    BY <1>1 DEF CallType
  <2> QED  BY <1>1, <1>5, <2>1 DEF Crash
<1> QED  BY <1>1, <1>2, <1>3, <1>4, <1>5, CallMoves

(* What the steps leave alone.                                             *)
LEMMA Frame ==
  ASSUME [Next]_vars
  PROVE  /\ kind' = kind
         /\ now' = now \/ Tick
         /\ \/ UNCHANGED <<waiting, raced>>
            \/ \E t \in 1..Len(issued) : SubmitApp(t)
            \/ \E c \in Calls : FaceAnswered(c, TRUE) \/ FaceAnswered(c, FALSE)
         /\ Devices \/ UNCHANGED <<issued, minted, void>>
<1>1. CASE Devices
  BY <1>1 DEF Devices, ClaimHandover, GoStale, MintByWallet, MintByDevice, DeviceActive,
     DeviceInactive, TouchDevice, deviceVars
<1>2. CASE Steps
  <2>1. ASSUME NEW t \in 1..Len(issued),
               StartStep(t) \/ SubmitDocument(t) \/ SubmitNFC(t) \/ (\E c \in Calls : ReserveFace(c, t))
        PROVE  UNCHANGED <<kind, now, waiting, raced, issued, minted, void>>
    BY <2>1 DEF StartStep, SubmitDocument, SubmitNFC, ReserveFace, stepVars
  <2>2. ASSUME NEW t \in 1..Len(issued), SubmitApp(t)
        PROVE  UNCHANGED <<kind, now, issued, minted, void>>
    BY <2>2 DEF SubmitApp, stepVars
  <2>3. ASSUME NEW c \in Calls, FaceAnswered(c, TRUE) \/ FaceAnswered(c, FALSE)
        PROVE  UNCHANGED <<kind, now, issued, minted, void>>
    BY <2>3 DEF FaceAnswered, stepVars
  <2>4. ASSUME (\E c \in Calls : FaceFailed(c) \/ FaceRefused(c)) \/ (\E p \in Submitters : Finish(p))
        PROVE  UNCHANGED <<kind, now, waiting, raced, issued, minted, void>>
    BY <2>4 DEF FaceFailed, FaceRefused, Finish, stepVars
  <2> QED  BY <1>2, <2>1, <2>2, <2>3, <2>4 DEF Steps
<1>3. CASE Wallet
  BY <1>3 DEF Wallet, DocumentPhoto, FailDocumentScan, ReadReference, SettleReference,
     DecideReview, ChooseMethod, CancelSession, DeleteSession, stepVars
<1>4. CASE Jobs
  BY <1>4 DEF Jobs, ExpireDue, RemoveFinished, TakeNotice, WalletReads, WalletTold, Crash, Tick,
     restVars, stepVars
<1>5. CASE UNCHANGED vars
  BY <1>5 DEF vars
<1> QED  BY <1>1, <1>2, <1>3, <1>4, <1>5 DEF Next

(* Who holds what: a link is claimed, minted or put an end to, or the      *)
(* links stay as they are, unless the session is erased.                   *)
LEMMA Hands ==
  ASSUME Typed, [Next]_vars
  PROVE  \/ \E r \in Roles : Claims(r) \/ Mints(r)
         \/ \E t \in 1..Len(issued) : Returns(t)
         \/ /\ UNCHANGED <<issued, minted, void>>
            /\ sess'.grant = sess.grant \/ sess'.grant = [r \in Roles |-> NoGrant]
<1>1. sess \in SessType  BY DEF Typed
<1>2. CASE \E r \in Roles : Claims(r) \/ Mints(r)             BY <1>2
<1>3. CASE \E t \in 1..Len(issued) : Returns(t)               BY <1>3
<1>4. CASE ~ ((\E r \in Roles : Claims(r) \/ Mints(r)) \/ \E t \in 1..Len(issued) : Returns(t))
  <2>1. UNCHANGED <<issued, minted, void>>
    BY <1>4, Frame, DevicesMove DEF Flags
  <2>2. \A r \in Roles : Flags(r) => sess'.grant = sess.grant
    BY <1>1, FlagStores DEF SessType
  <2>3. ASSUME Open, Starts \/ Scans \/ Photos \/ (\E t \in 1..Len(issued) : Chips(t))
        PROVE  sess'.grant = sess.grant
    BY <1>1, <2>3, EvidenceStores DEF SessType
  <2>4. ASSUME NEW c \in Calls, NEW ok \in BOOLEAN, Lands(c, ok)
        PROVE  sess'.grant = sess.grant
    <3>1. PICK st \in Running :
            sess' = [sess EXCEPT !.face = FaceOf(c, ok), !.pics = TRUE, !.status = st]
      BY <2>4, LandStores
    <3> QED  BY <1>1, <3>1 DEF SessType
  <2>5. Outcomes => sess'.grant = sess.grant  BY OutcomeKeeps
  <2>6. ASSUME NEW c \in Calls, NEW t \in 1..Len(issued), Spends(c, t)
        PROVE  sess'.grant = sess.grant
    BY <1>1, <2>6 DEF Spends, SessType
  <2>7. ASSUME NEW m \in {"idem", "yivi"}, Chooses(m)
        PROVE  sess'.grant = sess.grant
    BY <1>1, <2>7 DEF Chooses, SessType
  <2>8. (Starts => Open) /\ (Scans => Open) /\ (Photos => Open) /\ (\A t : Chips(t) => Open)
    BY DEF Starts, Scans, Photos, Chips
  <2>9. Quiet => sess'.grant = sess.grant  BY DEF Quiet
  <2>10. SessStep  BY Stores
  <2>11. sess'.grant = sess.grant \/ sess'.grant = [r \in Roles |-> NoGrant]
    BY <1>4, <2>2, <2>3, <2>4, <2>5, <2>6, <2>7, <2>8, <2>9, <2>10,
       LapseStores, EraseStores, RefundStores, CancelStores DEF SessStep, Outcomes
  <2> QED  BY <2>1, <2>11
<1> QED  BY <1>2, <1>3, <1>4

LEMMA ClaimHands ==
  ASSUME Typed, NEW r \in Roles, Claims(r)
  PROVE  /\ issued' = Append(issued, [role |-> r, grant |-> sess.grant[r].id])
         /\ sess.grant[r].id # 0 /\ ~sess.grant[r].used
         /\ minted' = minted /\ void' = void
         /\ issued \in Seq([role : Roles, grant : 0..kind.links])
         /\ issued' \in Seq([role : Roles, grant : 0..kind.links])
         /\ Len(issued') = Len(issued) + 1 /\ Len(issued') <= kind.devices
         /\ \A t \in 1..Len(issued) : issued'[t] = issued[t]
         /\ issued'[Len(issued) + 1] = [role |-> r, grant |-> sess.grant[r].id]
<1>1. Fresh = sess  BY DEF Claims, Open, Fresh
<1>2. /\ issued' = Append(issued, [role |-> r, grant |-> sess.grant[r].id])
      /\ sess.grant[r].id # 0 /\ ~sess.grant[r].used
      /\ minted' = minted /\ void' = void /\ Len(issued) < kind.devices
  BY <1>1 DEF Claims, ClaimHandover
<1>3. issued \in Seq([role : Roles, grant : 0..kind.links])  BY DEF Typed
<1>4. sess.grant[r] \in GrantType  BY SlotGrantTyped
<1> DEFINE x == [role |-> r, grant |-> sess.grant[r].id]
<1>5. x \in [role : Roles, grant : 0..kind.links]  BY <1>4 DEF GrantType
<1> HIDE DEF x
<1>6. issued' = Append(issued, x)  BY <1>2 DEF x
<1>7. /\ issued' \in Seq([role : Roles, grant : 0..kind.links])
      /\ Len(issued') = Len(issued) + 1 /\ issued'[Len(issued) + 1] = x
      /\ \A t \in 1..Len(issued) : issued'[t] = issued[t]
  BY <1>3, <1>5, <1>6, AppendProperties
<1>8. Len(issued) \in Nat /\ kind.devices \in Nat
  BY <1>3, LenProperties, KindTypes DEF Typed
<1> QED  BY <1>2, <1>3, <1>7, <1>8 DEF x

LEMMA HandsTyped ==
  ASSUME Typed, [Next]_vars
  PROVE  /\ issued' \in Seq([role : Roles, grant : 0..kind.links]) /\ Len(issued') <= kind.devices
         /\ minted' \in 0..kind.links /\ void' \subseteq 0..kind.links
<1>1. /\ issued \in Seq([role : Roles, grant : 0..kind.links]) /\ Len(issued) <= kind.devices
      /\ minted \in 0..kind.links /\ void \subseteq 0..kind.links /\ kind.links \in Nat
  BY KindTypes DEF Typed
<1>2. ASSUME NEW r \in Roles, Mints(r)
      PROVE  issued' = issued /\ void' = void /\ minted' \in 0..kind.links
  BY <1>1, <1>2, MintStores
<1>3. ASSUME NEW t \in 1..Len(issued), Returns(t)
      PROVE  issued' = issued /\ minted' = minted /\ void' \subseteq 0..kind.links
  <2>1. issued[t].role \in Roles  BY IssuedTypes
  <2>2. sess.grant[issued[t].role] \in GrantType  BY <2>1, SlotGrantTyped
  <2>3. sess.grant[issued[t].role].id \in 0..kind.links  BY <2>2 DEF GrantType
  <2>4. issued' = issued /\ minted' = minted /\ void' = void \cup {sess.grant[issued[t].role].id}
    BY <1>3, ReturnStores
  <2> QED  BY <1>1, <2>3, <2>4
<1> QED  BY <1>1, <1>2, <1>3, Hands, ClaimHands

LEMMA RestTyped ==
  ASSUME Typed, [Next]_vars
  PROVE  /\ kind' = kind /\ now' \in 0..MaxNow
         /\ waiting' \in BOOLEAN /\ raced' \in BOOLEAN
         /\ queued' \in BOOLEAN /\ telling' \in {"no", "told", "read"}
         /\ seen' \in Statuses /\ faults' \in 0..kind.faults
<1>1. /\ now \in 0..MaxNow /\ waiting \in BOOLEAN /\ raced \in BOOLEAN
      /\ queued \in BOOLEAN /\ telling \in {"no", "told", "read"}
      /\ seen \in Statuses /\ faults \in 0..kind.faults /\ kind.faults \in Nat
      /\ sess.status \in Statuses /\ kind.told \in BOOLEAN /\ MaxNow \in Nat
  BY KindTypes, BoundTypes DEF Typed, SessType
<1>2. kind' = kind /\ now' \in 0..MaxNow
  <2>1. now' = now \/ (now < MaxNow /\ now' = now + 1)  BY Frame DEF Tick
  <2>2. now' \in 0..MaxNow  BY <1>1, <2>1
  <2> QED  BY <2>2, Frame
<1>3. waiting' \in BOOLEAN /\ raced' \in BOOLEAN
  <2>1. ASSUME NEW t \in 1..Len(issued), SubmitApp(t)
        PROVE  waiting' \in BOOLEAN /\ raced' \in BOOLEAN
    BY <1>1, <2>1 DEF SubmitApp
  <2>2. ASSUME NEW c \in Calls, NEW ok \in BOOLEAN, FaceAnswered(c, ok)
        PROVE  waiting' \in BOOLEAN /\ raced' \in BOOLEAN
    BY <1>1, <2>2 DEF FaceAnswered
  <2> QED  BY <1>1, <2>1, <2>2, Frame
<1>4. ASSUME QueueChanged
      PROVE  queued' \in BOOLEAN /\ faults' \in 0..kind.faults
  BY <1>1, <1>4 DEF QueueChanged
<1>5. ASSUME TakeNotice \/ WalletReads \/ WalletTold \/ Crash
      PROVE  /\ queued' \in BOOLEAN /\ telling' \in {"no", "told", "read"}
             /\ seen' \in Statuses /\ faults' \in 0..kind.faults
  <2>1. CASE TakeNotice   BY <1>1, <2>1 DEF TakeNotice
  <2>2. CASE WalletReads  BY <1>1, <2>2 DEF WalletReads
  <2>3. CASE WalletTold   BY <1>1, <2>3 DEF WalletTold
  <2>4. CASE Crash
    <3>1. faults < kind.faults /\ faults' = faults + 1 /\ queued' = FALSE /\ telling' = "no"
          /\ seen' = seen
      BY <2>4 DEF Crash
    <3>2. faults' \in 0..kind.faults  BY <1>1, <3>1
    <3>3. queued' \in BOOLEAN  BY <3>1
    <3> QED  BY <1>1, <3>1, <3>2, <3>3
  <2> QED  BY <1>5, <2>1, <2>2, <2>3, <2>4
<1>6. /\ queued' \in BOOLEAN /\ telling' \in {"no", "told", "read"}
      /\ seen' \in Statuses /\ faults' \in 0..kind.faults
  BY <1>1, <1>4, <1>5, Notices
<1> QED  BY <1>2, <1>3, <1>6

LEMMA TypedKept ==
  ASSUME Typed, [Next]_vars
  PROVE  Typed'
<1>1. kind' = kind  BY RestTyped
<1>2. SessType' = SessType /\ Calls' = Calls /\ CallType' = CallType /\ SubType' = SubType
  BY <1>1 DEF SessType, Calls, CallType, SubType, SlotType, GrantType, FaceType, Tokens
<1>3. sess' \in SessType  BY SessTyped, Stores
<1>4. kind \in Kinds  BY DEF Typed
<1> QED  BY <1>1, <1>2, <1>3, <1>4, RestTyped, HandsTyped, CallTyped, SubTyped DEF Typed

LEMMA InitTyped ==
  ASSUME Init
  PROVE  Typed
<1>1. kind \in Kinds  BY DEF Init
<1>2. kind.devices \in Nat /\ kind.links \in Nat /\ kind.faults \in Nat
      /\ kind.method \in Methods /\ (kind.method = "idem" => kind.links > 0)
  BY <1>1, KindTypes
<1>3. 0 \in Tokens /\ 0 \in 0..MaxAttempts /\ 0 \in 0..MaxNow /\ "created" \in Statuses
  BY <1>2, BoundTypes DEF Tokens, Statuses, Running
<1>4. NoSlot \in SlotType /\ NoFace \in FaceType
  BY <1>3 DEF NoSlot, SlotType, NoFace, FaceType
<1>5. ASSUME NEW r \in Roles
      PROVE  (IF r = "native" /\ kind.method = "idem"
              THEN [id |-> 1, exp |-> Least(GrantTTL, CreateTTL), used |-> FALSE]
              ELSE NoGrant) \in GrantType
  <2>1. Least(GrantTTL, CreateTTL) \in Nat  BY BoundTypes, LeastMost
  <2>2. kind.method = "idem" => 1 \in 0..kind.links  BY <1>2
  <2>3. NoGrant \in GrantType  BY <1>2 DEF NoGrant, GrantType
  <2> QED  BY <2>1, <2>2, <2>3 DEF GrantType
<1>6. Least(CreateTTL, MaxLifetime) \in 0..MaxLifetime
  <2> DEFINE m == Least(CreateTTL, MaxLifetime)
  <2>1. m \in Nat /\ m <= MaxLifetime  BY BoundTypes, LeastMost
  <2> HIDE DEF m
  <2>2. m \in 0..MaxLifetime  BY <2>1, BoundTypes
  <2> QED  BY <2>2 DEF m
<1> DEFINE g == [r \in Roles |-> IF r = "native" /\ kind.method = "idem"
                                 THEN [id |-> 1, exp |-> Least(GrantTTL, CreateTTL), used |-> FALSE]
                                 ELSE NoGrant]
           l == [r \in Roles |-> NoSlot]
           x == [n |-> 0, ok |-> FALSE]
           e == Least(CreateTTL, MaxLifetime)
<1>7. g \in [Roles -> GrantType] /\ l \in [Roles -> SlotType]
      /\ x \in [n : 0..MaxAttempts, ok : BOOLEAN] /\ e \in 0..MaxLifetime
  BY <1>3, <1>4, <1>5, <1>6
<1>8. sess = [status |-> "created", method |-> kind.method, exp |-> e, ended |-> 0,
              slot |-> l, grant |-> g, reserved |-> 0, doc |-> "none", chip |-> 0, face |-> NoFace,
              photo |-> FALSE, pics |-> FALSE, shown |-> FALSE, result |-> x]
  BY DEF Init
<1> HIDE DEF g, l, x, e
<1>9. sess \in SessType
  BY <1>2, <1>3, <1>4, <1>7, <1>8 DEF SessType
<1>10. issued = <<>> /\ issued \in Seq([role : Roles, grant : 0..kind.links]) /\ Len(issued) = 0
  BY DEF Init
<1>11. minted \in 0..kind.links  BY <1>2 DEF Init
<1>12. call \in [Calls -> CallType]
  BY <1>3 DEF Init, CallType
<1>13. sub \in [Submitters -> SubType] /\ \A p \in Submitters : sub[p].pc = "idle"
  <2>1. NoSub \in SubType /\ NoSub.pc = "idle"  BY <1>3 DEF NoSub, SubType
  <2> QED  BY <2>1 DEF Init
<1>14. /\ now \in 0..MaxNow /\ waiting \in BOOLEAN /\ raced \in BOOLEAN /\ void \subseteq 0..kind.links
       /\ queued \in BOOLEAN /\ telling \in {"no", "told", "read"}
       /\ seen \in Statuses /\ faults \in 0..kind.faults
  <2>1. /\ now = 0 /\ waiting = FALSE /\ raced = FALSE /\ void = {}
        /\ queued = FALSE /\ telling = "no" /\ seen = "created" /\ faults = 0
    BY DEF Init
  <2>2. now \in 0..MaxNow /\ void \subseteq 0..kind.links /\ seen \in Statuses
    BY <1>3, <2>1
  <2>3. faults \in 0..kind.faults  BY <1>2, <2>1
  <2>4. waiting \in BOOLEAN /\ raced \in BOOLEAN /\ queued \in BOOLEAN  BY <2>1
  <2> QED  BY <2>1, <2>2, <2>3, <2>4
<1>15. Len(issued) <= kind.devices  BY <1>2, <1>10
<1>16. \A p \in Submitters : sub[p].pc = "built" => sub[p].to # "none"  BY <1>13
<1> QED
  BY <1>1, <1>9, <1>10, <1>11, <1>12, <1>13, <1>14, <1>15, <1>16 DEF Typed

(* Everything the session and its handlers keep has its type.              *)
LEMMA TypedTypes ==
  ASSUME Typed
  PROVE  TypeOK
<1>1. sess \in SessType /\ call \in [Calls -> CallType] /\ sub \in [Submitters -> SubType]
  BY DEF Typed
<1>2. \A r \in Roles : sess.grant[r] \in GrantType  BY SlotGrantTyped
<1>3. \A r \in Roles : sess.grant[r].id \in 0..kind.links  BY <1>2 DEF GrantType
<1>4. \A c \in Calls : call[c].pc \in {"idle", "verify", "spent", "refunded"}
  BY <1>1 DEF CallType
<1>5. \A p \in Submitters : sub[p].to \in Statuses \cup {"none"}
  BY <1>1 DEF SubType, Statuses, Terminal
<1>6. /\ sess.status \in Statuses /\ sess.method \in {"idem", "yivi", "browser", "pending"}
      /\ sess.exp \in 0..MaxLifetime /\ sess.ended \in 0..MaxNow
      /\ sess.slot \in [Roles -> [tok : Tokens, inactive : BOOLEAN, stale : BOOLEAN]]
      /\ sess.reserved \in 0..MaxAttempts /\ sess.chip \in Tokens
      /\ sess.face \in [n : 0..MaxAttempts, ok : BOOLEAN, by : Tokens]
      /\ {sess.photo, sess.pics, sess.shown} \subseteq BOOLEAN
  BY <1>1 DEF SessType, SlotType, FaceType, Methods
<1> QED  BY <1>3, <1>4, <1>5, <1>6 DEF Typed, TypeOK

(* The session, its devices, its submissions and its results have their    *)
(* types in every state, for every kind of session (session/session.go).   *)
THEOREM TypeCorrect == Spec => []TypeOK
<1>1. Init => Typed  BY InitTyped
<1>2. Typed /\ [Next]_vars => Typed'  BY TypedKept
<1>3. Typed => TypeOK  BY TypedTypes
<1> QED  BY <1>1, <1>2, <1>3, PTL DEF Spec

----------------------------------------------------------------------------
(* Who may write.                                                          *)

Live(r) == sess.grant[r].id # 0 /\ ~sess.grant[r].used

(* A link has one number, a device came of a link that was minted, and a   *)
(* link that can still be claimed is neither a device's nor put an end to. *)
Access ==
  /\ \A r \in Roles : sess.grant[r].id <= minted
  /\ \A t \in 1..Len(issued) : issued[t].grant \in 1..minted
  /\ void \subseteq 0..minted
  /\ \A r, q \in Roles : sess.grant[r].id = sess.grant[q].id => r = q \/ sess.grant[r].id = 0
  /\ \A r \in Roles : Live(r) =>
       /\ sess.grant[r].id \notin void
       /\ \A t \in 1..Len(issued) : issued[t].grant # sess.grant[r].id

(* A call of the service under way is a device's.                          *)
Called == \A c \in Calls : call[c].pc = "verify" => call[c].tok # 0

LEMMA HandTypes ==
  ASSUME Typed
  PROVE  /\ \A r \in Roles : /\ sess.grant[r].id \in Nat /\ sess.grant[r].used \in BOOLEAN
                             /\ sess.grant[r] \in GrantType
         /\ minted \in Nat /\ Len(issued) \in Nat
         /\ \A t \in 1..Len(issued) : issued[t].grant \in Nat
<1>1. \A r \in Roles : sess.grant[r] \in GrantType  BY SlotGrantTyped
<1>2. kind.links \in Nat /\ minted \in 0..kind.links
      /\ issued \in Seq([role : Roles, grant : 0..kind.links])
  BY KindTypes DEF Typed
<1>3. Len(issued) \in Nat  BY <1>2, LenProperties
<1> QED  BY <1>1, <1>2, <1>3, IssuedTypes DEF GrantType

LEMMA AccessKept ==
  ASSUME Typed, Access, OneDevicePerLink, [Next]_vars
  PROVE  Access' /\ OneDevicePerLink'
<1>1. sess \in SessType /\ sess.grant \in [Roles -> GrantType]
  BY SlotGrantTyped DEF Typed, Roles
<1>2. ASSUME NEW r \in Roles, Claims(r)
      PROVE  Access' /\ OneDevicePerLink'
  <2> DEFINE n == Len(issued)
  <2>1. /\ Live(r) /\ minted' = minted /\ void' = void
        /\ Len(issued') = n + 1 /\ n \in Nat
        /\ \A t \in 1..n : issued'[t] = issued[t]
        /\ issued'[n + 1] = [role |-> r, grant |-> sess.grant[r].id]
    BY <1>2, ClaimHands, HandTypes DEF Live
  <2>2. sess'.grant = [sess.grant EXCEPT ![r] = [sess.grant[r] EXCEPT !.used = TRUE]]
    BY <1>2, ClaimStores
  <2>3. /\ \A q \in Roles : sess'.grant[q].id = sess.grant[q].id
        /\ sess'.grant[r].used
        /\ \A q \in Roles : q # r => sess'.grant[q] = sess.grant[q]
    BY <1>1, <2>2 DEF GrantType
  <2>4. \A t \in 1..n + 1 : \/ t \in 1..n /\ issued'[t].grant = issued[t].grant
                            \/ t = n + 1 /\ issued'[t].grant = sess.grant[r].id
    BY <2>1
  <2> HIDE DEF n
  <2>5. \A t \in 1..n + 1 : issued'[t].grant \in 1..minted
    BY <2>1, <2>4, HandTypes DEF Access, Live, n
  <2>6. ASSUME NEW q \in Roles, Live(q)'
        PROVE  /\ sess'.grant[q].id \notin void
               /\ \A t \in 1..n + 1 : issued'[t].grant # sess'.grant[q].id
    <3>1. q # r /\ Live(q) /\ sess.grant[q].id # sess.grant[r].id
      BY <2>3, <2>6 DEF Live, Access
    <3>2. sess.grant[q].id \notin void /\ \A t \in 1..n : issued[t].grant # sess.grant[q].id
      BY <3>1 DEF Access, n
    <3> QED  BY <2>3, <2>4, <3>1, <3>2
  <2>7. Access'
    BY <2>1, <2>3, <2>5, <2>6 DEF Access, n
  <2>8. ASSUME NEW t \in 1..n + 1, NEW u \in 1..n + 1, issued'[t].grant = issued'[u].grant
        PROVE  t = u
    BY <2>1, <2>4, <2>8 DEF Access, OneDevicePerLink, n
  <2> QED  BY <2>1, <2>7, <2>8 DEF OneDevicePerLink, n
<1>3. ASSUME NEW r \in Roles, Mints(r)
      PROVE  Access' /\ OneDevicePerLink'
  <2>1. minted' = minted + 1 /\ issued' = issued /\ void' = void  BY <1>3, MintStores
  <2>2. PICK e \in Nat : sess' = [sess EXCEPT !.grant = [sess.grant EXCEPT ![r] =
                                     [id |-> minted + 1, exp |-> e, used |-> FALSE]]]
    BY <1>3, MintStores
  <2>3. sess'.grant = [sess.grant EXCEPT ![r] = [id |-> minted + 1, exp |-> e, used |-> FALSE]]
    BY <1>1, <2>2 DEF SessType
  <2>4. /\ sess'.grant[r].id = minted + 1
        /\ \A q \in Roles : q # r => sess'.grant[q] = sess.grant[q]
    BY <1>1, <2>3
  <2>5. \A q \in Roles : sess.grant[q].id <= minted /\ sess.grant[q].id \in Nat /\ minted \in Nat
    BY HandTypes DEF Access
  <2>6. /\ \A q \in Roles : sess'.grant[q].id <= minted'
        /\ \A t \in 1..Len(issued) : issued[t].grant \in 1..minted'
        /\ void \subseteq 0..minted'
    BY <2>1, <2>4, <2>5 DEF Access
  <2>7. \A q, p \in Roles : sess'.grant[q].id = sess'.grant[p].id => q = p \/ sess'.grant[q].id = 0
    BY <2>4, <2>5 DEF Access
  <2>8. ASSUME NEW q \in Roles, Live(q)'
        PROVE  /\ sess'.grant[q].id \notin void
               /\ \A t \in 1..Len(issued) : issued[t].grant # sess'.grant[q].id
    BY <2>4, <2>5, <2>8 DEF Live, Access
  <2>9. Access'
    BY <2>1, <2>6, <2>7, <2>8 DEF Access
  <2> QED  BY <2>1, <2>9 DEF OneDevicePerLink
<1>4. ASSUME NEW t \in 1..Len(issued), Returns(t)
      PROVE  Access' /\ OneDevicePerLink'
  <2>0. PICK r \in Roles : r = issued[t].role  BY IssuedTypes
  <2>g. PICK g : g = IF sess.grant[r].used THEN sess.grant[r] ELSE NoGrant  OBVIOUS
  <2>1. issued' = issued /\ minted' = minted /\ void' = void \cup {sess.grant[r].id}
    BY <1>4, <2>0, ReturnStores
  <2>2. \E l \in [Roles -> SlotType] :
          sess' = [sess EXCEPT !.slot = l, !.grant = [sess.grant EXCEPT ![r] = g]]
    BY <1>4, <2>0, <2>g, ReturnStores
  <2>3. sess'.grant = [sess.grant EXCEPT ![r] = g]
    BY <1>1, <2>2 DEF SessType
  <2>4. /\ sess'.grant[r] = g
        /\ \A q \in Roles : q # r => sess'.grant[q] = sess.grant[q]
    BY <1>1, <2>1, <2>3
  <2>5. g.id = 0 \/ (g.used /\ g.id = sess.grant[r].id)
    BY <2>g DEF NoGrant
  <2>6. ~Live(r)'
    BY <2>4, <2>5 DEF Live
  <2>7. /\ \A q \in Roles : sess'.grant[q].id <= minted
        /\ void' \subseteq 0..minted
    <3>1. \A q \in Roles : sess.grant[q].id \in Nat /\ sess.grant[q].id <= minted /\ minted \in Nat
      BY HandTypes DEF Access
    <3>2. void \subseteq 0..minted  BY DEF Access
    <3>3. \A q \in Roles : sess'.grant[q].id = sess.grant[q].id \/ sess'.grant[q].id = 0
      BY <2>4, <2>5
    <3>4. \A q \in Roles : sess'.grant[q].id <= minted  BY <3>1, <3>3
    <3>5. sess.grant[r].id \in 0..minted  BY <3>1
    <3> QED  BY <2>1, <3>2, <3>4, <3>5
  <2>8. \A q, p \in Roles : sess'.grant[q].id = sess'.grant[p].id => q = p \/ sess'.grant[q].id = 0
    BY <2>1, <2>4, <2>5 DEF Access
  <2>9. ASSUME NEW q \in Roles, Live(q)'
        PROVE  /\ sess'.grant[q].id \notin void'
               /\ \A u \in 1..Len(issued) : issued[u].grant # sess'.grant[q].id
    <3>1. q # r /\ sess'.grant[q] = sess.grant[q] /\ Live(q) /\ sess.grant[q].id # 0
      BY <2>4, <2>6, <2>9 DEF Live
    <3>2. sess.grant[q].id # sess.grant[r].id  BY <2>1, <3>1 DEF Access
    <3> QED  BY <2>1, <3>1, <3>2 DEF Access
  <2>10. Access'
    BY <2>1, <2>7, <2>8, <2>9 DEF Access
  <2> QED  BY <2>1, <2>10 DEF OneDevicePerLink
<1>5. ASSUME UNCHANGED <<issued, minted, void>>,
             sess'.grant = sess.grant \/ sess'.grant = [r \in Roles |-> NoGrant]
      PROVE  Access' /\ OneDevicePerLink'
  <2>1. CASE sess'.grant = sess.grant
    BY <1>5, <2>1 DEF Access, OneDevicePerLink, Live
  <2>2. CASE sess'.grant = [r \in Roles |-> NoGrant]
    <3>1. \A r \in Roles : sess'.grant[r].id = 0  BY <2>2 DEF NoGrant
    <3> QED  BY <1>5, <3>1, HandTypes DEF Access, OneDevicePerLink, Live
  <2> QED  BY <1>5, <2>1, <2>2
<1> QED  BY <1>2, <1>3, <1>4, <1>5, Hands

LEMMA AccessInit ==
  ASSUME Init
  PROVE  Access /\ OneDevicePerLink
<1>1. issued = <<>> /\ void = {} /\ Len(issued) = 0  BY DEF Init
<1>2. /\ sess.grant["web"].id = 0
      /\ sess.grant["native"].id = minted \/ sess.grant["native"].id = 0
      /\ minted \in {0, 1}
  BY DEF Init, Roles, NoGrant
<1>3. \A r \in Roles : r = "web" \/ r = "native"  BY DEF Roles
<1> QED  BY <1>1, <1>2, <1>3 DEF Access, OneDevicePerLink

LEMMA CalledKept ==
  ASSUME Typed, Called, [Next]_vars
  PROVE  Called'
<1>1. call \in [Calls -> CallType] /\ Calls' = Calls
  BY RestTyped DEF Typed, Calls
<1>2. CASE call' = call  BY <1>1, <1>2 DEF Called
<1>3. ASSUME NEW c \in Calls, NEW t \in 1..Len(issued), ReserveFace(c, t)
      PROVE  Called'
  <2>1. t # 0  BY IssuedTypes
  <2>2. \E k : call' = [call EXCEPT ![c] = [pc |-> "verify", tok |-> t, n |-> k]]
    BY <1>3 DEF ReserveFace
  <2> QED  BY <1>1, <2>1, <2>2 DEF Called
<1>4. ASSUME NEW c \in Calls, NEW how \in {"spent", "refunded"}, End(c, how)
      PROVE  Called'
  BY <1>1, <1>4 DEF Called, End, CallType
<1>5. ASSUME NEW c \in Calls, FaceAnswered(c, TRUE) \/ FaceAnswered(c, FALSE)
                              \/ FaceFailed(c) \/ FaceRefused(c)
      PROVE  \E how \in {"spent", "refunded"} : End(c, how)
  BY <1>5 DEF FaceAnswered, FaceFailed, FaceRefused
<1>6. CASE Crash
  <2>1. \A c \in Calls : call'[c].pc # "verify"
    BY <1>1, <1>6 DEF Crash, CallType
  <2> QED  BY <1>1, <2>1 DEF Called
<1> QED  BY <1>2, <1>3, <1>4, <1>5, <1>6, CallMoves

(* What a step makes of the evidence, and what a passed deadline allows.   *)
LEMMA EvidenceMoves ==
  ASSUME Typed, [Next]_vars
  PROVE  /\ \/ sess'.face = sess.face \/ sess'.face = NoFace
            \/ \E c \in Calls, ok \in BOOLEAN :
                 /\ Open /\ call[c].pc = "verify" /\ Lands(c, ok)
                 /\ sess'.face = [n |-> call[c].n, ok |-> ok, by |-> call[c].tok]
                 /\ call[c].tok # 0 => call[c].tok \in Slots(sess)
         /\ \/ sess'.chip = sess.chip \/ sess'.chip = 0
            \/ sess'.chip \in Slots(sess) /\ Open
         /\ IsExpired(sess) =>
              \/ sess'.status \in {"expired", "gone"}
              \/ /\ sess'.status = sess.status /\ sess'.face = sess.face
                 /\ sess'.chip = sess.chip /\ sess'.photo = sess.photo
<1>1. sess \in SessType  BY DEF Typed
<1> DEFINE Same == sess'.face = sess.face /\ sess'.chip = sess.chip /\ sess'.photo = sess.photo
           Late == IsExpired(sess) =>
                     sess'.status \in {"expired", "gone"} \/ (sess'.status = sess.status /\ Same)
           FaceOK == \/ sess'.face = sess.face \/ sess'.face = NoFace
                     \/ \E c \in Calls, ok \in BOOLEAN :
                          /\ Open /\ call[c].pc = "verify" /\ Lands(c, ok)
                          /\ sess'.face = [n |-> call[c].n, ok |-> ok, by |-> call[c].tok]
                          /\ call[c].tok # 0 => call[c].tok \in Slots(sess)
           ChipOK == \/ sess'.chip = sess.chip \/ sess'.chip = 0
                     \/ sess'.chip \in Slots(sess) /\ Open
<1>2. ASSUME Same, ~IsExpired(sess) \/ sess'.status = sess.status
      PROVE  FaceOK /\ ChipOK /\ Late
  BY <1>2
<1>3. Quiet => FaceOK /\ ChipOK /\ Late
  BY <1>2 DEF Quiet
<1>4. Lapses => FaceOK /\ ChipOK /\ Late
  <2> SUFFICES ASSUME Lapses PROVE FaceOK /\ ChipOK /\ Late  OBVIOUS
  <2>1. CASE sess'.status \in {"expired", "cancelled"}
    <3>1. sess'.face = NoFace /\ sess'.chip = 0
          /\ sess'.status = (IF IsExpired(sess) THEN "expired" ELSE sess.status)
      BY <2>1, LapseStores
    <3> QED  BY <3>1
  <2>2. CASE sess'.status \notin {"expired", "cancelled"}
    <3>1. sess' = sess  BY <2>2, LapseStores
    <3> QED  BY <3>1
  <2> QED  BY <2>1, <2>2
<1>5. Erases => FaceOK /\ ChipOK /\ Late
  BY EraseStores
<1>6. ASSUME NEW c \in Calls, Refunds(c)
      PROVE  FaceOK /\ ChipOK /\ Late
  <2>1. CASE sess'.status \in {"expired", "cancelled"}
    <3>1. sess'.face = NoFace /\ sess'.chip = 0
          /\ sess'.status = (IF IsExpired(sess) THEN "expired" ELSE sess.status)
      BY <1>6, <2>1, RefundStores
    <3> QED  BY <3>1
  <2>2. CASE sess'.status \notin {"expired", "cancelled"}
    <3>1. sess' = [sess EXCEPT !.reserved = call[c].n - 1]  BY <1>6, <2>2, RefundStores
    <3>2. Same /\ sess'.status = sess.status  BY <1>1, <3>1 DEF SessType
    <3> QED  BY <3>2
  <2> QED  BY <2>1, <2>2
<1>7. Cancels => FaceOK /\ ChipOK /\ Late
  <2> SUFFICES ASSUME Cancels PROVE FaceOK /\ ChipOK /\ Late  OBVIOUS
  <2>1. ~IsExpired(sess) /\ sess'.face = NoFace /\ sess'.chip = 0
    BY CancelStores DEF Cancels
  <2> QED  BY <2>1
<1>8. ASSUME NEW r \in Roles, Flags(r)
      PROVE  FaceOK /\ ChipOK /\ Late
  <2>1. Same /\ sess'.status = sess.status
    BY <1>1, <1>8, FlagStores DEF SessType
  <2> QED  BY <2>1
<1>9. ASSUME NEW r \in Roles, Claims(r)
      PROVE  FaceOK /\ ChipOK /\ Late
  <2>1. sess'["face"] = sess["face"] /\ sess'["chip"] = sess["chip"] /\ sess'["photo"] = sess["photo"]
    BY <1>9, ClaimStores
  <2>2. ~IsExpired(sess)  BY <1>9 DEF Claims, Open
  <2>3. Same  BY <2>1
  <2> QED  BY <1>2, <2>2, <2>3
<1>10. ASSUME NEW r \in Roles, Mints(r)
       PROVE  FaceOK /\ ChipOK /\ Late
  <2>1. ~IsExpired(sess)  BY <1>10 DEF Mints, Open
  <2>2. \E g : sess' = [sess EXCEPT !.grant = g]  BY <1>10, MintStores
  <2>3. Same  BY <1>1, <2>2 DEF SessType
  <2> QED  BY <1>2, <2>1, <2>3
<1>11. ASSUME NEW t \in 1..Len(issued), Returns(t)
       PROVE  FaceOK /\ ChipOK /\ Late
  <2>1. ~IsExpired(sess)  BY <1>11 DEF Returns, Open
  <2>2. \E l, g : sess' = [sess EXCEPT !.slot = l, !.grant = g]  BY <1>11, ReturnStores
  <2>3. Same  BY <1>1, <2>2 DEF SessType
  <2> QED  BY <1>2, <2>1, <2>3
<1>12. ASSUME Starts \/ Scans \/ Photos
       PROVE  FaceOK /\ ChipOK /\ Late
  <2>1. Open  BY <1>12 DEF Starts, Scans, Photos
  <2>2. sess'.face = sess.face /\ sess'.chip = sess.chip
    <3>1. PICK st \in Running : \/ sess' = [sess EXCEPT !.status = st]
                                \/ sess' = [sess EXCEPT !.doc = "mrz", !.status = st]
                                \/ sess' = [sess EXCEPT !.photo = TRUE, !.status = st]
      BY <1>12, <2>1, EvidenceStores
    <3> QED  BY <1>1, <3>1 DEF SessType
  <2> QED  BY <2>1, <2>2 DEF Open
<1>13. ASSUME NEW t \in 1..Len(issued), Chips(t)
       PROVE  FaceOK /\ ChipOK /\ Late
  <2>1. Open  BY <1>13 DEF Chips
  <2>2. PICK st \in Running :
          sess' = [sess EXCEPT !.chip = t, !.doc = "chip", !.pics = TRUE, !.status = st]
    BY <1>13, <2>1, EvidenceStores
  <2>3. t \in Slots(sess)  BY <1>13, <2>1, EvidenceStores
  <2>4. sess'.face = sess.face /\ sess'.chip = t  BY <1>1, <2>2 DEF SessType
  <2> QED  BY <2>1, <2>3, <2>4 DEF Open
<1>14. ASSUME NEW c \in Calls, NEW ok \in BOOLEAN, Lands(c, ok)
       PROVE  FaceOK /\ ChipOK /\ Late
  <2>1. Open /\ call[c].pc = "verify"  BY <1>14 DEF Lands, FaceAnswered
  <2>2. PICK st \in Running :
          sess' = [sess EXCEPT !.face = FaceOf(c, ok), !.pics = TRUE, !.status = st]
    BY <1>14, LandStores
  <2>3. call[c].tok # 0 => call[c].tok \in Slots(sess)
    BY <1>14, LandStores
  <2>4. sess'.face = FaceOf(c, ok) /\ sess'.chip = sess.chip
    BY <1>1, <2>2 DEF SessType
  <2> QED  BY <1>14, <2>1, <2>3, <2>4 DEF Open, FaceOf
<1>15. ASSUME Refers \/ Rejects \/ (\E to \in {"approved", "rejected"} : Reviews(to))
              \/ (\E p \in {"app", "browser"} : Decides(p))
       PROVE  FaceOK /\ ChipOK /\ Late
  <2>1. ~IsExpired(sess)
    BY <1>15 DEF Refers, Rejects, Reviews, Decides, Open, IsExpired, Running
  <2>2. sess'.face = sess.face /\ sess'.chip = sess.chip /\ sess'.photo = sess.photo
    BY <1>15, OutcomeKeeps DEF Outcomes
  <2> QED  BY <1>2, <2>1, <2>2
<1>16. ASSUME NEW c \in Calls, NEW t \in 1..Len(issued), Spends(c, t)
       PROVE  FaceOK /\ ChipOK /\ Late
  <2>1. ~IsExpired(sess) /\ sess' = [sess EXCEPT !.reserved = Reserved(sess) + 1]
    BY <1>16 DEF Spends, Open
  <2>2. Same  BY <1>1, <2>1 DEF SessType
  <2> QED  BY <1>2, <2>1, <2>2
<1>17. ASSUME NEW m \in {"idem", "yivi"}, Chooses(m)
       PROVE  FaceOK /\ ChipOK /\ Late
  <2>1. ~IsExpired(sess) /\ sess' = [sess EXCEPT !.method = m]
    BY <1>17 DEF Chooses, Open
  <2>2. Same  BY <1>1, <2>1 DEF SessType
  <2> QED  BY <1>2, <2>1, <2>2
<1> HIDE DEF FaceOK, ChipOK, Late
<1>18. FaceOK /\ ChipOK /\ Late
  BY <1>3, <1>4, <1>5, <1>6, <1>7, <1>8, <1>9, <1>10, <1>11, <1>12, <1>13, <1>14, <1>15,
     <1>16, <1>17, Stores DEF SessStep
<1> QED  BY <1>18 DEF FaceOK, ChipOK, Late

(* A slot's link is redeemed once, a device that came back keeps its slot, *)
(* and evidence comes from the device that holds its slot as it is stored, *)
(* however the claims, returns and face calls interleave (access.go,       *)
(* ClaimHandover, CancelPendingHandover; steps.go, writeStep).             *)
THEOREM HoldersWrite == Spec => DeviceAccess
<1> DEFINE Held == Typed /\ Access /\ OneDevicePerLink /\ Called
<1>1. Init => Held
  <2>1. Init => Called  BY DEF Init, Called
  <2> QED  BY <2>1, InitTyped, AccessInit
<1>2. Held /\ [Next]_vars => Held'
  BY TypedKept, AccessKept, CalledKept
<1>3. Held /\ [Next]_vars
        => [\A g \in void : \A r \in Roles :
              issued' # issued => issued'[Len(issued')].grant # g]_vars
  <2> SUFFICES ASSUME Held, [Next]_vars, issued' # issued, NEW g \in void
               PROVE  issued'[Len(issued')].grant # g
    OBVIOUS
  <2>1. ASSUME NEW r \in Roles, Claims(r)
        PROVE  issued'[Len(issued')].grant # g
    <3>1. /\ Len(issued') = Len(issued) + 1
          /\ issued'[Len(issued) + 1] = [role |-> r, grant |-> sess.grant[r].id]
          /\ Live(r)
      BY <2>1, ClaimHands DEF Live
    <3>2. sess.grant[r].id \notin void  BY <3>1 DEF Access
    <3> QED  BY <3>1, <3>2
  <2>2. ASSUME NEW r \in Roles, Mints(r)
        PROVE  issued' = issued
    BY <2>2, MintStores
  <2>3. ASSUME NEW t \in 1..Len(issued), Returns(t)
        PROVE  issued' = issued
    BY <2>3, ReturnStores
  <2> QED  BY <2>1, <2>2, <2>3, Hands
<1>4. Held /\ [Next]_vars
        => [/\ sess'.face # sess.face /\ sess'.face.n > 0 => sess'.face.by \in Slots(sess)
            /\ sess'.chip # sess.chip /\ sess'.chip > 0 => sess'.chip \in Slots(sess)]_vars
  <2> SUFFICES ASSUME Held, [Next]_vars
               PROVE  /\ sess'.face # sess.face /\ sess'.face.n > 0 => sess'.face.by \in Slots(sess)
                      /\ sess'.chip # sess.chip /\ sess'.chip > 0 => sess'.chip \in Slots(sess)
    OBVIOUS
  <2>1. ASSUME sess'.face # sess.face, sess'.face.n > 0
        PROVE  sess'.face.by \in Slots(sess)
    <3>1. sess'.face # NoFace  BY <2>1 DEF NoFace
    <3>2. PICK c \in Calls, ok \in BOOLEAN :
            /\ call[c].pc = "verify"
            /\ sess'.face = [n |-> call[c].n, ok |-> ok, by |-> call[c].tok]
            /\ call[c].tok # 0 => call[c].tok \in Slots(sess)
      BY <2>1, <3>1, EvidenceMoves
    <3> QED  BY <3>2 DEF Called
  <2>2. ASSUME sess'.chip # sess.chip, sess'.chip > 0
        PROVE  sess'.chip \in Slots(sess)
    <3>1. sess'.chip # 0  BY <2>2
    <3> QED  BY <2>2, <3>1, EvidenceMoves
  <2> QED  BY <2>1, <2>2
<1>5. Held => OneDevicePerLink  OBVIOUS
<1> HIDE DEF Held
<1> QED
  BY <1>1, <1>2, <1>3, <1>4, <1>5, PTL
     DEF Spec, DeviceAccess, ReturnedKeepsSlot, OnlyHoldersWrite

(* Nothing is stored and nothing decided of a session past its deadline,   *)
(* whatever call, disclosure or review was under way when it passed        *)
(* (session/store.go, Update).                                             *)
THEOREM DeadlineKept == Spec => NothingPastDeadline
<1>1. Init => Typed  BY InitTyped
<1>2. Typed /\ [Next]_vars => Typed'  BY TypedKept
<1>3. Typed /\ [Next]_vars
        => [now > sess.exp /\ sess.status \in Running
              => sess'.status \in {sess.status, "expired", "gone"} /\
                 (sess'.status = sess.status =>
                    sess'.face = sess.face /\ sess'.chip = sess.chip /\ sess'.photo = sess.photo)]_vars
  <2> SUFFICES ASSUME Typed, [Next]_vars, now > sess.exp, sess.status \in Running
               PROVE  /\ sess'.status \in {sess.status, "expired", "gone"}
                      /\ sess'.status = sess.status =>
                           sess'.face = sess.face /\ sess'.chip = sess.chip /\ sess'.photo = sess.photo
    OBVIOUS
  <2>1. IsExpired(sess)  BY DEF IsExpired
  <2>2. sess.status \notin {"expired", "gone"}  BY DEF Running
  <2> QED  BY <2>1, <2>2, EvidenceMoves
<1> QED  BY <1>1, <1>2, <1>3, PTL DEF Spec, NothingPastDeadline

----------------------------------------------------------------------------
(* What decides a session.                                                 *)

(* A step of a session that goes on: what it has gathered stays gathered.  *)
Stays ==
  /\ sess.status \in Running /\ sess'.status \in Running
  /\ sess'.result = sess.result /\ sess'.shown = sess.shown
  /\ sess'.photo = sess.photo \/ Photos
  /\ sess'.doc = sess.doc \/ sess'.doc # "none"
  /\ sess'.chip = sess.chip \/ sess'.chip # 0
  /\ sess'.method = sess.method \/ sess.method = "pending"
  /\ sess'.exp = sess.exp \/ Open
  /\ \/ sess'.face = sess.face /\ sess'.reserved = sess.reserved
     \/ sess'.face = sess.face /\ \E c \in Calls, t \in 1..Len(issued) : Spends(c, t)
     \/ sess'.face = sess.face /\ \E c \in Calls : Refunds(c)
     \/ /\ sess'.reserved = sess.reserved
        /\ \E c \in Calls, ok \in BOOLEAN :
             Lands(c, ok) /\ sess'.face = [n |-> call[c].n, ok |-> ok, by |-> call[c].tok]

(* A session that is decided or gone keeps what it has.                    *)
Rests ==
  /\ sess.status \notin Running
  /\ \/ sess' = sess
     \/ \E c \in Calls : Refunds(c) /\ sess' = [sess EXCEPT !.reserved = call[c].n - 1]

(* A session ends without outcome, or did already.                         *)
Ends ==
  /\ sess'.status \in {"expired", "cancelled"} /\ sess.status # "gone"
  /\ sess'.status = "expired" => sess.status \in Running \cup {"expired"}
  /\ sess'.status # sess.status => CancelSession \/ IsExpired(sess)
  /\ sess'.face = NoFace /\ ~sess'.pics
  /\ sess'.shown = sess.shown /\ sess'.result = sess.result /\ sess'.method = sess.method
  /\ sess'.reserved = sess.reserved \/ \E c \in Calls : Refunds(c)

LEMMA SessMoves ==
  ASSUME Typed, [Next]_vars
  PROVE  Stays \/ Rests \/ Ends \/ Erases \/ Outcomes
<1>1. sess \in SessType  BY DEF Typed
<1>2. CASE Quiet
  BY <1>2 DEF Quiet, Stays, Rests
<1>3. CASE Lapses
  <2>1. CASE sess'.status \in {"expired", "cancelled"}
    <3>1. /\ sess'.face = NoFace /\ ~sess'.pics /\ sess'.shown = sess.shown
          /\ sess'.result = sess.result /\ sess'.method = sess.method
          /\ sess'.reserved = sess.reserved
          /\ sess'.status = (IF IsExpired(sess) THEN "expired" ELSE sess.status)
      BY <1>3, <2>1, LapseStores
    <3>2. sess.status # "gone" /\ (sess'.status = "expired" => sess.status \in Running \cup {"expired"})
      BY <1>3, <3>1 DEF Lapses, IsExpired
    <3>3. sess'.status # sess.status => IsExpired(sess)  BY <3>1
    <3> QED  BY <2>1, <3>1, <3>2, <3>3 DEF Ends
  <2>2. CASE sess'.status \notin {"expired", "cancelled"}
    <3>1. sess' = sess  BY <1>3, <2>2, LapseStores
    <3> QED  BY <1>2, <3>1 DEF Quiet
  <2> QED  BY <2>1, <2>2
<1>4. CASE Erases  BY <1>4
<1>5. ASSUME NEW c \in Calls, Refunds(c)
      PROVE  Stays \/ Rests \/ Ends
  <2>1. CASE sess'.status \in {"expired", "cancelled"}
    <3>1. /\ sess'.face = NoFace /\ ~sess'.pics /\ sess'.shown = sess.shown
          /\ sess'.result = sess.result /\ sess'.method = sess.method
          /\ sess'.status = (IF IsExpired(sess) THEN "expired" ELSE sess.status)
      BY <1>5, <2>1, RefundStores
    <3>2. sess.status # "gone" /\ (sess'.status = "expired" => sess.status \in Running \cup {"expired"})
      BY <1>5, <3>1 DEF Refunds, IsExpired
    <3>3. sess'.status # sess.status => IsExpired(sess)  BY <3>1
    <3> QED  BY <1>5, <2>1, <3>1, <3>2, <3>3 DEF Ends
  <2>2. CASE sess'.status \notin {"expired", "cancelled"}
    <3>1. sess' = [sess EXCEPT !.reserved = call[c].n - 1]  BY <1>5, <2>2, RefundStores
    <3>2. CASE sess.status \notin Running
      BY <1>5, <3>1, <3>2 DEF Rests
    <3>3. CASE sess.status \in Running
      <4>1. /\ sess'.status = sess.status /\ sess'.result = sess.result /\ sess'.shown = sess.shown
            /\ sess'.photo = sess.photo /\ sess'.doc = sess.doc /\ sess'.chip = sess.chip
            /\ sess'.method = sess.method /\ sess'.exp = sess.exp /\ sess'.face = sess.face
        BY <1>1, <3>1 DEF SessType
      <4> QED  BY <1>5, <3>3, <4>1 DEF Stays
    <3> QED  BY <3>2, <3>3
  <2> QED  BY <2>1, <2>2
<1>6. CASE Cancels
  <2>1. /\ sess'.status = "cancelled" /\ sess'.face = NoFace /\ ~sess'.pics
        /\ sess'.shown = sess.shown /\ sess'.result = sess.result /\ sess'.method = sess.method
        /\ sess'.reserved = sess.reserved
    BY <1>6, CancelStores
  <2>2. sess.status # "gone"  BY <1>6 DEF Cancels, Running
  <2>3. CancelSession  BY <1>6 DEF Cancels
  <2> QED  BY <2>1, <2>2, <2>3 DEF Ends
<1>7. ASSUME NEW r \in Roles, Flags(r)
      PROVE  Stays
  <2>1. PICK l \in [Roles -> SlotType] : sess' = [sess EXCEPT !.slot = l]  BY <1>7, FlagStores
  <2>2. sess.status \in Running  BY <1>7 DEF Flags, OpenForDevices
  <2> QED  BY <1>1, <2>1, <2>2 DEF Stays, SessType
<1>8. ASSUME NEW r \in Roles, Claims(r)
      PROVE  Stays
  <2>1. \A f \in {"method", "reserved", "doc", "chip", "face", "photo", "pics", "shown", "result"} :
          sess'[f] = sess[f]
    BY <1>8, ClaimStores
  <2>2. /\ sess'["method"] = sess["method"] /\ sess'["reserved"] = sess["reserved"]
        /\ sess'["doc"] = sess["doc"] /\ sess'["chip"] = sess["chip"]
        /\ sess'["face"] = sess["face"] /\ sess'["photo"] = sess["photo"]
        /\ sess'["shown"] = sess["shown"] /\ sess'["result"] = sess["result"]
    BY <2>1
  <2>3. Open /\ sess'.status \in Running  BY <1>8, ClaimStores DEF Claims
  <2> QED  BY <2>2, <2>3 DEF Stays, Open
<1>9. ASSUME NEW r \in Roles, Mints(r)
      PROVE  Stays
  <2>1. PICK g : sess' = [sess EXCEPT !.grant = g]  BY <1>9, MintStores
  <2>2. sess.status \in Running  BY <1>9 DEF Mints, Open
  <2> QED  BY <1>1, <2>1, <2>2 DEF Stays, SessType
<1>10. ASSUME NEW t \in 1..Len(issued), Returns(t)
       PROVE  Stays
  <2>1. PICK l, g : sess' = [sess EXCEPT !.slot = l, !.grant = g]  BY <1>10, ReturnStores
  <2>2. sess.status \in Running  BY <1>10 DEF Returns, Open
  <2> QED  BY <1>1, <2>1, <2>2 DEF Stays, SessType
<1>11. CASE Starts
  <2>1. Open  BY <1>11 DEF Starts
  <2>2. PICK st \in Running : sess' = [sess EXCEPT !.status = st]  BY <1>11, <2>1, EvidenceStores
  <2> QED  BY <1>1, <2>1, <2>2 DEF Stays, SessType, Open
<1>12. CASE Scans
  <2>1. Open  BY <1>12 DEF Scans
  <2>2. PICK st \in Running : sess' = [sess EXCEPT !.doc = "mrz", !.status = st]
    BY <1>12, <2>1, EvidenceStores
  <2> QED  BY <1>1, <2>1, <2>2 DEF Stays, SessType, Open
<1>13. CASE Photos
  <2>1. Open  BY <1>13 DEF Photos
  <2>2. PICK st \in Running : sess' = [sess EXCEPT !.photo = TRUE, !.status = st]
    BY <1>13, <2>1, EvidenceStores
  <2> QED  BY <1>1, <1>13, <2>1, <2>2 DEF Stays, SessType, Open
<1>14. ASSUME NEW t \in 1..Len(issued), Chips(t)
       PROVE  Stays
  <2>1. Open /\ t # 0  BY <1>14, IssuedTypes DEF Chips
  <2>2. PICK st \in Running :
          sess' = [sess EXCEPT !.chip = t, !.doc = "chip", !.pics = TRUE, !.status = st]
    BY <1>14, <2>1, EvidenceStores
  <2> QED  BY <1>1, <2>1, <2>2 DEF Stays, SessType, Open
<1>15. ASSUME NEW c \in Calls, NEW ok \in BOOLEAN, Lands(c, ok)
       PROVE  Stays
  <2>1. Open  BY <1>15 DEF Lands
  <2>2. PICK st \in Running :
          sess' = [sess EXCEPT !.face = FaceOf(c, ok), !.pics = TRUE, !.status = st]
    BY <1>15, LandStores
  <2>3. /\ sess'.status \in Running /\ sess'.result = sess.result /\ sess'.shown = sess.shown
        /\ sess'.photo = sess.photo /\ sess'.doc = sess.doc /\ sess'.chip = sess.chip
        /\ sess'.method = sess.method /\ sess'.exp = sess.exp /\ sess'.face = FaceOf(c, ok)
        /\ sess'.reserved = sess.reserved
    BY <1>1, <2>2 DEF SessType
  <2> QED  BY <1>15, <2>1, <2>3 DEF Stays, Open, FaceOf
<1>16. ASSUME NEW c \in Calls, NEW t \in 1..Len(issued), Spends(c, t)
       PROVE  Stays
  <2>1. Open /\ sess' = [sess EXCEPT !.reserved = Reserved(sess) + 1]  BY <1>16 DEF Spends
  <2>2. /\ sess'.status = sess.status /\ sess'.result = sess.result /\ sess'.shown = sess.shown
        /\ sess'.photo = sess.photo /\ sess'.doc = sess.doc /\ sess'.chip = sess.chip
        /\ sess'.method = sess.method /\ sess'.exp = sess.exp /\ sess'.face = sess.face
    BY <1>1, <2>1 DEF SessType
  <2> QED  BY <1>16, <2>1, <2>2 DEF Stays, Open
<1>17. ASSUME NEW m \in {"idem", "yivi"}, Chooses(m)
       PROVE  Stays
  <2>1. Open /\ sess.method = "pending" /\ sess' = [sess EXCEPT !.method = m]  BY <1>17 DEF Chooses
  <2> QED  BY <1>1, <2>1 DEF Stays, SessType, Open
<1>18. SessStep  BY Stores
<1> QED
  BY <1>2, <1>3, <1>4, <1>5, <1>6, <1>7, <1>8, <1>9, <1>10, <1>11, <1>12, <1>13, <1>14, <1>15,
     <1>16, <1>17, <1>18 DEF SessStep, Outcomes

(* A face submission runs, or one takes its attempt: what was spent stays  *)
(* so, with its number.                                                    *)
Later ==
  \A c \in Calls :
    /\ call'[c].n = call[c].n /\ call'[c].tok = call[c].tok
    /\ call[c].pc = "idle" => call'[c].pc = "idle"
    /\ call[c].pc = "spent" => call'[c].pc = "spent"
    /\ call'[c].pc \in {"verify", "spent"} => call[c].pc \in {"verify", "spent"}
    /\ call'[c].pc = "verify" => call[c].pc = "verify"

LEMMA CallSettles ==
  ASSUME Typed, [Next]_vars
  PROVE  Later \/ \E c \in Calls, t \in 1..Len(issued) : Spends(c, t)
<1>1. call \in [Calls -> CallType]  BY DEF Typed
<1>2. CASE call' = call  BY <1>2 DEF Later
<1>3. ASSUME NEW c \in Calls, NEW how \in {"spent", "refunded"}, End(c, how), call[c].pc = "verify"
      PROVE  Later
  <2>1. call' = [call EXCEPT ![c] = [call[c] EXCEPT !.pc = how]]  BY <1>1, <1>3 DEF End
  <2>2. call'[c] = [call[c] EXCEPT !.pc = how] /\ \A d \in Calls : d # c => call'[d] = call[d]
    BY <1>1, <2>1
  <2>3. call'[c].pc = how /\ call'[c].n = call[c].n /\ call'[c].tok = call[c].tok
    BY <1>1, <2>2 DEF CallType
  <2> QED  BY <1>3, <2>2, <2>3 DEF Later
<1>4. ASSUME NEW c \in Calls, FaceAnswered(c, TRUE) \/ FaceAnswered(c, FALSE)
                              \/ FaceFailed(c) \/ FaceRefused(c)
      PROVE  call[c].pc = "verify" /\ \E how \in {"spent", "refunded"} : End(c, how)
  BY <1>4 DEF FaceAnswered, FaceFailed, FaceRefused
<1>5. CASE Crash
  <2>1. \A c \in Calls : call'[c] = IF call[c].pc = "verify"
                                    THEN [call[c] EXCEPT !.pc = "spent"] ELSE call[c]
    BY <1>5 DEF Crash
  <2>2. ASSUME NEW c \in Calls
        PROVE  /\ call'[c].n = call[c].n /\ call'[c].tok = call[c].tok
               /\ call'[c].pc = IF call[c].pc = "verify" THEN "spent" ELSE call[c].pc
    <3>1. call[c] \in CallType  BY <1>1
    <3> QED  BY <2>1, <3>1 DEF CallType
  <2> QED  BY <2>2 DEF Later
<1>6. ASSUME NEW c \in Calls, NEW t \in 1..Len(issued), ReserveFace(c, t)
      PROVE  Spends(c, t)
  <2>1. sess \in SessType  BY DEF Typed
  <2>2. Fresh = sess /\ Open
    BY <1>6, <2>1, OpenFresh DEF ReserveFace, StepWriteCheck, CheckAppWrite
  <2>3. sess' = ForStorage([sess EXCEPT !.reserved = Reserved(sess) + 1])
    BY <1>6, <2>2 DEF ReserveFace, Update
  <2>4. [sess EXCEPT !.reserved = Reserved(sess) + 1].status \in Running
    BY <2>1, <2>2 DEF SessType, Open
  <2>5. sess' = [sess EXCEPT !.reserved = Reserved(sess) + 1]
    BY <2>3, <2>4, StoredWhole DEF Running
  <2> QED  BY <1>6, <2>2, <2>5 DEF Spends
<1> QED  BY <1>2, <1>3, <1>4, <1>5, <1>6, CallMoves

(* A session that is not decided has no result, and one that is has no     *)
(* pictures but those it keeps.                                            *)
Undecided == sess.status \in Running => sess.result.n = 0 /\ ~sess.shown

LEMMA PicturesKept ==
  ASSUME Typed, Undecided, PicturesGoWithDecision, [Next]_vars
  PROVE  Undecided' /\ PicturesGoWithDecision'
<1>1. sess \in SessType /\ kind' = kind /\ kind.keep \in BOOLEAN
  BY RestTyped, KindTypes DEF Typed
<1>2. CASE Stays
  BY <1>1, <1>2 DEF Stays, Undecided, PicturesGoWithDecision, Running
<1>3. CASE Rests
  <2>1. /\ sess'.status = sess.status /\ sess'.pics = sess.pics /\ sess'.shown = sess.shown
        /\ sess.status \notin Running
    BY <1>1, <1>3 DEF Rests, SessType
  <2> QED  BY <1>1, <2>1 DEF Undecided, PicturesGoWithDecision
<1>4. CASE Ends
  BY <1>1, <1>4 DEF Ends, Undecided, PicturesGoWithDecision, Running
<1>5. CASE Erases
  <2>1. sess'.status = "gone"  BY <1>5, EraseStores
  <2> QED  BY <2>1 DEF Undecided, PicturesGoWithDecision, Running
<1>6. ASSUME NEW p \in Submitters, NEW to \in {"approved", "rejected", "needs_review"},
             NEW e \in 0..MaxNow, sess' = DecidedAs(to, e, sub[p])
      PROVE  Undecided' /\ PicturesGoWithDecision'
  <2>1. /\ sess'.status = to /\ sess'.pics = (sess.pics /\ Keeps(to))
        /\ sess'.shown = Keeps(to)
    BY <1>1, <1>6 DEF DecidedAs, SessType
  <2>2. sess'.status \notin Running  BY <1>6, <2>1 DEF Running
  <2>3. sess'.status # "needs_review" /\ ~kind.keep => ~sess'.pics /\ ~sess'.shown
    BY <2>1 DEF Keeps
  <2> QED  BY <1>1, <2>2, <2>3 DEF Undecided, PicturesGoWithDecision
<1>7. ASSUME NEW p \in {"app", "browser"}, Decides(p)
      PROVE  Undecided' /\ PicturesGoWithDecision'
  BY <1>6, <1>7, OutcomeStores DEF Submitters
<1>8. CASE Refers
  BY <1>6, <1>8, OutcomeStores DEF Submitters
<1>9. CASE Rejects
  <2>1. PICK e \in 0..MaxNow :
          sess' = [sess EXCEPT !.status = "rejected", !.ended = e, !.pics = kind.keep]
    BY <1>9, OutcomeStores
  <2>2. sess'.status = "rejected" /\ sess'.pics = kind.keep /\ sess'.shown = sess.shown
    BY <1>1, <2>1 DEF SessType
  <2>3. ~sess.shown  BY <1>9 DEF Rejects, Open, Undecided
  <2> QED  BY <1>1, <2>2, <2>3 DEF Undecided, PicturesGoWithDecision, Running
<1>10. ASSUME NEW to \in {"approved", "rejected"}, Reviews(to)
       PROVE  Undecided' /\ PicturesGoWithDecision'
  <2>1. PICK e \in 0..MaxNow :
          sess' = [sess EXCEPT !.status = to, !.ended = e, !.pics = sess.pics /\ kind.keep,
                     !.shown = sess.shown /\ kind.keep]
    BY <1>10, OutcomeStores
  <2>2. /\ sess'.status = to /\ sess'.pics = (sess.pics /\ kind.keep)
        /\ sess'.shown = (sess.shown /\ kind.keep)
    BY <1>1, <2>1 DEF SessType
  <2> QED  BY <1>1, <2>2 DEF Undecided, PicturesGoWithDecision, Running
<1> QED
  BY <1>2, <1>3, <1>4, <1>5, <1>7, <1>8, <1>9, <1>10, SessMoves DEF Outcomes

(* Only a session of the app's method has devices, links and faces.        *)
IdemOnly ==
  sess.method # "idem" =>
    /\ Len(issued) = 0 /\ sess.face.n = 0
    /\ \A r \in Roles : sess.grant[r].id = 0
    /\ \A c \in Calls : call[c].pc = "idle"

LEMMA MethodKept ==
  ASSUME Typed, [Next]_vars
  PROVE  sess'.method = sess.method \/ sess.method = "pending"
<1>1. sess \in SessType  BY DEF Typed
<1>2. CASE Rests  BY <1>1, <1>2 DEF Rests, SessType
<1>3. CASE Outcomes
  BY <1>3, OutcomeKeeps
<1>4. CASE Erases  BY <1>4, EraseStores
<1> QED  BY <1>2, <1>3, <1>4, SessMoves DEF Stays, Ends

LEMMA IdemKept ==
  ASSUME Typed, IdemOnly, [Next]_vars
  PROVE  IdemOnly'
<1> SUFFICES ASSUME sess'.method # "idem"
             PROVE  /\ Len(issued') = 0 /\ sess'.face.n = 0
                    /\ \A r \in Roles : sess'.grant[r].id = 0
                    /\ \A c \in Calls' : call'[c].pc = "idle"
  BY DEF IdemOnly
<1>1. sess.method # "idem"  BY MethodKept
<1>2. /\ Len(issued) = 0 /\ sess.face.n = 0 /\ \A r \in Roles : sess.grant[r].id = 0
      /\ \A c \in Calls : call[c].pc = "idle"
  BY <1>1 DEF IdemOnly
<1>3. Calls' = Calls  BY RestTyped DEF Calls
<1>4. ASSUME NEW t \in 1..Len(issued)
      PROVE  FALSE
  BY <1>2
<1>5. Later  BY <1>4, CallSettles
<1>6. \A c \in Calls : call'[c].pc = "idle"  BY <1>2, <1>5 DEF Later
<1>7. \A r \in Roles : ~Claims(r)  BY <1>2, ClaimHands
<1>8. \A r \in Roles : ~Mints(r)
  <2>1. ASSUME MintByWallet
        PROVE  FALSE
    <3>1. Fresh.method = "idem"  BY <2>1 DEF MintByWallet
    <3>2. Fresh = sess  BY <2>1, OpenFresh DEF MintByWallet, Typed
    <3> QED  BY <1>1, <3>1, <3>2
  <2> QED  BY <1>4, <2>1 DEF Mints
<1>9. /\ issued' = issued
      /\ sess'.grant = sess.grant \/ sess'.grant = [r \in Roles |-> NoGrant]
  BY <1>4, <1>7, <1>8, Hands
<1>10. \A r \in Roles : sess'.grant[r].id = 0
  BY <1>2, <1>9 DEF NoGrant
<1>11. sess'.face = sess.face \/ sess'.face = NoFace
  BY <1>2, EvidenceMoves
<1> QED  BY <1>2, <1>3, <1>6, <1>9, <1>10, <1>11 DEF NoFace

LEMMA GoneStays ==
  ASSUME Typed, [Next]_vars, sess'.status # "gone"
  PROVE  sess.status # "gone"
<1>1. sess \in SessType  BY DEF Typed
<1>2. Rests => sess'.status = sess.status  BY <1>1 DEF Rests, SessType
<1>3. Erases => sess'.status = "gone"  BY EraseStores
<1>4. Outcomes => sess.status # "gone"
  BY DEF Outcomes, Decides, Refers, Rejects, Reviews, Open, Running
<1> QED  BY <1>2, <1>3, <1>4, SessMoves DEF Stays, Ends, Running

(* The attempts handed out have numbers of their own, none past those      *)
(* reserved, and the face that is stored is one of them.                   *)
Out(c) == call[c].pc \in {"verify", "spent"}

Counted ==
  sess.status # "gone" =>
    /\ sess.face.n <= sess.reserved
    /\ \A c \in Calls : Out(c) => call[c].n \in 1..sess.reserved
    /\ \A c, d \in Calls : Out(c) /\ Out(d) /\ call[c].n = call[d].n => c = d
    /\ sess.face.n > 0 => \E c \in Calls : call[c].pc = "spent" /\ call[c].n = sess.face.n

LEMMA NumberTypes ==
  ASSUME Typed
  PROVE  /\ sess.reserved \in Nat /\ sess.face.n \in Nat /\ sess.face.ok \in BOOLEAN
         /\ \A c \in Calls : call[c].n \in Nat
         /\ sess.reserved <= MaxAttempts
         /\ \A p \in Submitters : sub[p].n \in Nat /\ sub[p].ok \in BOOLEAN
BY BoundTypes DEF Typed, SessType, FaceType, CallType, SubType

LEMMA CountedKept ==
  ASSUME Typed, Counted, [Next]_vars
  PROVE  Counted'
<1> SUFFICES ASSUME sess'.status # "gone"
             PROVE  /\ sess'.face.n <= sess'.reserved
                    /\ \A c \in Calls : Out(c)' => call'[c].n \in 1..sess'.reserved
                    /\ \A c, d \in Calls : Out(c)' /\ Out(d)' /\ call'[c].n = call'[d].n => c = d
                    /\ sess'.face.n > 0 =>
                         \E c \in Calls : call'[c].pc = "spent" /\ call'[c].n = sess'.face.n
  <2>1. Calls' = Calls  BY RestTyped DEF Calls
  <2> QED  BY <2>1 DEF Counted, Out
<1>1. /\ sess.face.n <= sess.reserved
      /\ \A c \in Calls : Out(c) => call[c].n \in 1..sess.reserved
      /\ \A c, d \in Calls : Out(c) /\ Out(d) /\ call[c].n = call[d].n => c = d
      /\ sess.face.n > 0 => \E c \in Calls : call[c].pc = "spent" /\ call[c].n = sess.face.n
  BY GoneStays DEF Counted
<1>2. sess \in SessType /\ call \in [Calls -> CallType]  BY DEF Typed
<1>3. ASSUME NEW c \in Calls, NEW t \in 1..Len(issued), Spends(c, t)
      PROVE  /\ sess'.face.n <= sess'.reserved
             /\ \A d \in Calls : Out(d)' => call'[d].n \in 1..sess'.reserved
             /\ \A b, d \in Calls : Out(b)' /\ Out(d)' /\ call'[b].n = call'[d].n => b = d
             /\ sess'.face.n > 0 =>
                  \E d \in Calls : call'[d].pc = "spent" /\ call'[d].n = sess'.face.n
  <2> DEFINE k == Reserved(sess) + 1
  <2>1. /\ k \in 1..MaxAttempts /\ sess.reserved < k /\ sess' = [sess EXCEPT !.reserved = k]
        /\ call' = [call EXCEPT ![c] = [pc |-> "verify", tok |-> t, n |-> k]]
        /\ call[c].pc = "idle"
    BY <1>3, SpendStores
  <2> HIDE DEF k
  <2>2. sess'.reserved = k /\ sess'.face = sess.face  BY <1>2, <2>1 DEF SessType
  <2>3. call'[c].pc = "verify" /\ call'[c].n = k /\ \A d \in Calls : d # c => call'[d] = call[d]
    BY <1>2, <2>1
  <2>4. k \in Nat /\ k > 0 /\ sess.reserved \in Nat /\ sess.face.n \in Nat
    BY <2>1, BoundTypes, NumberTypes
  <2>5. \A d \in Calls : d # c /\ Out(d)' => Out(d) /\ call'[d].n = call[d].n /\ call[d].n \in 1..sess.reserved
    BY <1>1, <2>3 DEF Out
  <2>6. sess'.face.n <= sess'.reserved  BY <1>1, <2>1, <2>2, <2>4
  <2>7. \A d \in Calls : Out(d)' => call'[d].n \in 1..sess'.reserved
    BY <2>1, <2>2, <2>3, <2>4, <2>5
  <2>8. \A d \in Calls : d # c /\ Out(d)' => call'[d].n # k  BY <2>1, <2>4, <2>5
  <2>9. \A b, d \in Calls : Out(b)' /\ Out(d)' /\ call'[b].n = call'[d].n => b = d
    BY <1>1, <2>3, <2>5, <2>8
  <2>10. sess'.face.n > 0 =>
           \E d \in Calls : call'[d].pc = "spent" /\ call'[d].n = sess'.face.n
    BY <1>1, <2>1, <2>2, <2>3
  <2> QED  BY <2>6, <2>7, <2>9, <2>10
<1>4. ASSUME NEW c \in Calls, Refunds(c)
      PROVE  /\ sess'.face.n <= sess'.reserved
             /\ \A d \in Calls : Out(d)' => call'[d].n \in 1..sess'.reserved
             /\ \A b, d \in Calls : Out(b)' /\ Out(d)' /\ call'[b].n = call'[d].n => b = d
             /\ sess'.face.n > 0 =>
                  \E d \in Calls : call'[d].pc = "spent" /\ call'[d].n = sess'.face.n
  <2>1. /\ call[c].pc = "verify" /\ call' = [call EXCEPT ![c].pc = "refunded"]
        /\ sess.reserved = call[c].n /\ sess'.reserved = call[c].n - 1
        /\ sess'.face.n <= sess'.reserved
    BY <1>4, RefundStores
  <2>2. call'[c].pc = "refunded" /\ \A d \in Calls : d # c => call'[d] = call[d]
    BY <1>2, <2>1 DEF CallType
  <2>3. \A d \in Calls : Out(d)' => d # c /\ Out(d) /\ call'[d].n = call[d].n
    BY <2>2 DEF Out
  <2>4. \A d \in Calls : Out(d)' => call[d].n # call[c].n
    BY <1>1, <2>1, <2>3 DEF Out
  <2>5. \A d \in Calls : Out(d)' => call'[d].n \in 1..sess'.reserved
    <3>1. ASSUME NEW d \in Calls, Out(d)'
          PROVE  call'[d].n \in 1..sess'.reserved
      <4>1. call[d].n \in 1..sess.reserved /\ call'[d].n = call[d].n /\ call[d].n # sess.reserved
        BY <1>1, <2>1, <2>3, <2>4, <3>1
      <4>2. sess'.reserved = sess.reserved - 1 /\ sess.reserved \in Nat
        BY <2>1, NumberTypes
      <4> QED  BY <4>1, <4>2
    <3> QED  BY <3>1
  <2>6. sess'.face.n > 0 =>
          \E d \in Calls : call'[d].pc = "spent" /\ call'[d].n = sess'.face.n
    <3>1. sess'.face = NoFace \/ sess'.face = sess.face
      <4>1. CASE sess'.status \in {"expired", "cancelled"}  BY <1>4, <4>1, RefundStores
      <4>2. CASE sess'.status \notin {"expired", "cancelled"}
        <5>1. sess' = [sess EXCEPT !.reserved = call[c].n - 1]  BY <1>4, <4>2, RefundStores
        <5> QED  BY <1>2, <5>1 DEF SessType
      <4> QED  BY <4>1, <4>2
    <3> QED  BY <1>1, <2>1, <2>2, <3>1 DEF NoFace
  <2>7. \A b, d \in Calls : Out(b)' /\ Out(d)' /\ call'[b].n = call'[d].n => b = d
    BY <1>1, <2>3
  <2> QED  BY <2>1, <2>5, <2>6, <2>7
<1>5. CASE ~(\E c \in Calls : Refunds(c) \/ \E t \in 1..Len(issued) : Spends(c, t))
  <2>1. Later  BY <1>5, CallSettles
  <2>2. sess'.reserved = sess.reserved
    <3>1. Rests => sess'.reserved = sess.reserved  BY <1>5 DEF Rests
    <3>2. Outcomes => sess'.reserved = sess.reserved
      BY OutcomeKeeps
    <3>3. ~Erases  BY EraseStores
    <3> QED  BY <1>5, <3>1, <3>2, <3>3, SessMoves DEF Stays, Ends
  <2>3. \A c \in Calls : Out(c)' => Out(c) /\ call'[c].n = call[c].n
    BY <2>1 DEF Later, Out
  <2>4. CASE sess'.face = sess.face \/ sess'.face = NoFace
    <3>1. sess'.face.n = sess.face.n \/ sess'.face.n = 0  BY <2>4 DEF NoFace
    <3>2. sess'.face.n <= sess'.reserved  BY <1>1, <2>2, <3>1, NumberTypes
    <3>3. sess'.face.n > 0 =>
            \E c \in Calls : call'[c].pc = "spent" /\ call'[c].n = sess'.face.n
      BY <1>1, <2>1, <3>1 DEF Later
    <3> QED  BY <1>1, <2>2, <2>3, <3>2, <3>3
  <2>5. ASSUME NEW c \in Calls, NEW ok \in BOOLEAN, Lands(c, ok), call[c].pc = "verify",
               sess'.face = [n |-> call[c].n, ok |-> ok, by |-> call[c].tok]
        PROVE  /\ sess'.face.n <= sess'.reserved
               /\ \E d \in Calls : call'[d].pc = "spent" /\ call'[d].n = sess'.face.n
    <3>1. sess'.face.n = call[c].n  BY <2>5
    <3>2. call'[c].pc = "spent" /\ call'[c].n = call[c].n
      BY <1>2, <2>1, <2>5 DEF Lands, FaceAnswered, End, Later, CallType
    <3>3. call[c].n \in 1..sess.reserved  BY <1>1, <2>5 DEF Out
    <3> QED  BY <2>2, <3>1, <3>2, <3>3, NumberTypes
  <2> QED  BY <1>1, <2>2, <2>3, <2>4, <2>5, EvidenceMoves
<1> QED  BY <1>3, <1>4, <1>5

(* A result that waits for its transaction was built of a face that was    *)
(* stored, and as long as that one is, says what it says.                  *)
BuiltOf ==
  \A p \in Submitters : sub[p].pc = "built" =>
    /\ sub[p].n > 0 /\ sess.status # "gone" =>
         /\ \E c \in Calls : call[c].pc = "spent" /\ call[c].n = sub[p].n
         /\ sub[p].n = sess.face.n => sub[p].ok = sess.face.ok
    /\ p = "yivi" => sub[p].n = 0
    /\ p = "browser" => sub[p].tok = 0

LEMMA SubWas ==
  ASSUME Typed, [Next]_vars, NEW p \in Submitters, sub'[p].pc = "built", sub'[p] # sub[p]
  PROVE  /\ sub'[p].n = sess'.face.n /\ sub'[p].ok = sess'.face.ok
         /\ p = "browser" => sub'[p].tok = 0
         /\ p = "yivi" => sess.method = "yivi" /\ sess' = sess
<1>1. sess \in SessType /\ sub \in [Submitters -> SubType] /\ 0 \in Tokens
  BY KindTypes DEF Typed, Tokens
<1>2. ASSUME NEW q \in Submitters, NEW t \in Tokens, NEW s \in SessType, Build(q, t, s)
      PROVE  p = q /\ sub'[p].n = s.face.n /\ sub'[p].ok = s.face.ok /\ sub'[p].tok = t
  <2>1. p = q  BY <1>2, BuildTyped
  <2>2. sub'[q] = [pc |-> "built", tok |-> t, n |-> s.face.n, ok |-> s.face.ok, to |-> Outcome(s)]
    BY <1>2, BuildTyped
  <2> QED  BY <2>1, <2>2
<1>3. ASSUME NEW q \in Submitters, sub' = [sub EXCEPT ![q] = NoSub]
      PROVE  FALSE
  <2>1. sub'[q] = NoSub /\ (p # q => sub'[p] = sub[p])  BY <1>1, <1>3
  <2> QED  BY <2>1, NoSubTyped
<1>4. ASSUME NEW t \in 1..Len(issued), SubmitApp(t), Build("app", t, sess)
      PROVE  p = "app" /\ sub'[p].n = sess'.face.n /\ sub'[p].ok = sess'.face.ok
  <2>1. sess' = sess  BY <1>4 DEF SubmitApp
  <2>2. t \in Tokens /\ "app" \in Submitters  BY IssuedTypes DEF Submitters
  <2> QED  BY <1>1, <1>2, <1>4, <2>1, <2>2
<1>5. CASE DocumentPhoto
  <2>1. Build("browser", 0, Pictured) /\ sess' = Pictured /\ Pictured \in SessType
    BY <1>5, PhotoBuilds
  <2>2. "browser" \in Submitters  BY DEF Submitters
  <2> QED  BY <1>1, <1>2, <2>1, <2>2
<1>6. CASE ReadReference
  <2>1. Build("yivi", 0, sess) /\ sess' = sess /\ sess.method = "yivi"
    BY <1>6 DEF ReadReference, System
  <2>2. "yivi" \in Submitters  BY DEF Submitters
  <2> QED  BY <1>1, <1>2, <2>1, <2>2
<1>7. ASSUME NEW q \in {"app", "browser"}, Finish(q)
      PROVE  FALSE
  <2>1. q \in Submitters /\ sub' = [sub EXCEPT ![q] = NoSub]  BY <1>7 DEF Finish, Submitters
  <2> QED  BY <1>3, <2>1
<1>8. ~SettleReference
  <2>1. SettleReference => "yivi" \in Submitters /\ sub' = [sub EXCEPT !["yivi"] = NoSub]
    BY DEF SettleReference, Submitters
  <2> QED  BY <1>3, <2>1
<1>9. ~Crash
  BY NoSubTyped DEF Crash
<1>10. sub' # sub  OBVIOUS
<1> QED  BY <1>4, <1>5, <1>6, <1>7, <1>8, <1>9, <1>10, SubMoves

(* What was spent stays spent.                                             *)
LEMMA SpentStays ==
  ASSUME Typed, [Next]_vars, NEW c \in Calls, call[c].pc = "spent"
  PROVE  call'[c].pc = "spent" /\ call'[c].n = call[c].n
<1>1. call \in [Calls -> CallType]  BY DEF Typed
<1>2. ASSUME NEW d \in Calls, NEW t \in 1..Len(issued), Spends(d, t)
      PROVE  call'[c] = call[c]
  <2>1. call[d].pc = "idle" /\ \E k : call' = [call EXCEPT ![d] = [pc |-> "verify", tok |-> t, n |-> k]]
    BY <1>2, SpendStores
  <2> QED  BY <1>1, <2>1
<1> QED  BY <1>2, CallSettles DEF Later

LEMMA BuiltKept ==
  ASSUME Typed, Counted, Counted', IdemOnly, BuiltOf, [Next]_vars
  PROVE  BuiltOf'
<1>0. Calls' = Calls  BY RestTyped DEF Calls
<1>1. ASSUME NEW p \in Submitters, sub'[p].pc = "built", sub'[p] # sub[p]
      PROVE  /\ sub'[p].n > 0 /\ sess'.status # "gone" =>
                  /\ \E c \in Calls : call'[c].pc = "spent" /\ call'[c].n = sub'[p].n
                  /\ sub'[p].n = sess'.face.n => sub'[p].ok = sess'.face.ok
             /\ p = "yivi" => sub'[p].n = 0
             /\ p = "browser" => sub'[p].tok = 0
  <2>1. /\ sub'[p].n = sess'.face.n /\ sub'[p].ok = sess'.face.ok
        /\ p = "browser" => sub'[p].tok = 0
        /\ p = "yivi" => sess.method = "yivi" /\ sess' = sess
    BY <1>1, SubWas
  <2>2. p = "yivi" => sub'[p].n = 0  BY <2>1 DEF IdemOnly
  <2>3. sess'.face.n > 0 /\ sess'.status # "gone" =>
          \E c \in Calls : call'[c].pc = "spent" /\ call'[c].n = sess'.face.n
    BY <1>0 DEF Counted
  <2> QED  BY <2>1, <2>2, <2>3
<1>2. ASSUME NEW p \in Submitters, sub'[p].pc = "built", sub'[p] = sub[p]
      PROVE  /\ sub'[p].n > 0 /\ sess'.status # "gone" =>
                  /\ \E c \in Calls : call'[c].pc = "spent" /\ call'[c].n = sub'[p].n
                  /\ sub'[p].n = sess'.face.n => sub'[p].ok = sess'.face.ok
             /\ p = "yivi" => sub'[p].n = 0
             /\ p = "browser" => sub'[p].tok = 0
  <2>1. (p = "yivi" => sub'[p].n = 0) /\ (p = "browser" => sub'[p].tok = 0)
    BY <1>2 DEF BuiltOf
  <2>2. ASSUME sub'[p].n > 0, sess'.status # "gone"
        PROVE  /\ \E c \in Calls : call'[c].pc = "spent" /\ call'[c].n = sub'[p].n
               /\ sub'[p].n = sess'.face.n => sub'[p].ok = sess'.face.ok
    <3>1. sess.status # "gone"  BY <2>2, GoneStays
    <3>2. PICK c \in Calls : call[c].pc = "spent" /\ call[c].n = sub[p].n
      BY <1>2, <2>2, <3>1 DEF BuiltOf
    <3>3. sub[p].n = sess.face.n => sub[p].ok = sess.face.ok
      BY <1>2, <2>2, <3>1 DEF BuiltOf
    <3>4. call'[c].pc = "spent" /\ call'[c].n = sub'[p].n
      BY <1>2, <3>2, SpentStays
    <3>5. ASSUME NEW d \in Calls, NEW ok \in BOOLEAN, call[d].pc = "verify",
                 sess'.face = [n |-> call[d].n, ok |-> ok, by |-> call[d].tok]
          PROVE  sub'[p].n # sess'.face.n
      <4>1. call[d].n # call[c].n  BY <3>1, <3>2, <3>5 DEF Counted, Out
      <4> QED  BY <1>2, <3>2, <3>5, <4>1
    <3>6. sess'.face = NoFace => sub'[p].n # sess'.face.n  BY <2>2 DEF NoFace
    <3>7. sub'[p].n = sess'.face.n => sub'[p].ok = sess'.face.ok
      BY <1>2, <3>3, <3>5, <3>6, EvidenceMoves
    <3> QED  BY <3>4, <3>7
  <2> QED  BY <2>1, <2>2
<1> QED  BY <1>0, <1>1, <1>2 DEF BuiltOf

LEMMA ResultKept ==
  ASSUME Typed, Undecided, BuiltOf, ResultOfStoredEvidence, [Next]_vars
  PROVE  ResultOfStoredEvidence'
<1> SUFFICES ASSUME sess'.status \in {"approved", "rejected", "needs_review"}, sess'.result.n > 0
             PROVE  sess'.result = [n |-> sess'.face.n, ok |-> sess'.face.ok]
  BY DEF ResultOfStoredEvidence
<1>1. sess \in SessType  BY DEF Typed
<1>2. CASE Rests
  <2>1. sess'.status = sess.status /\ sess'.result = sess.result /\ sess'.face = sess.face
    BY <1>1, <1>2 DEF Rests, SessType
  <2> QED  BY <2>1 DEF ResultOfStoredEvidence
<1>3. ASSUME NEW p \in Submitters, NEW to, NEW e \in 0..MaxNow, sess' = DecidedAs(to, e, sub[p])
      PROVE  sess'.face = sess.face /\ sess'.result = [n |-> sub[p].n, ok |-> sub[p].ok]
  <2> DEFINE x == [n |-> sub[p].n, ok |-> sub[p].ok]
  <2>1. \E a, b : sess' = [sess EXCEPT !.status = to, !.ended = e, !.pics = a, !.shown = b, !.result = x]
    BY <1>3 DEF DecidedAs
  <2> HIDE DEF x
  <2>2. sess'.face = sess.face /\ sess'.result = x  BY <1>1, <2>1 DEF SessType
  <2> QED  BY <2>2 DEF x
<1>4. ASSUME NEW p \in {"app", "browser"}, Decides(p)
      PROVE  sess'.result = [n |-> sess'.face.n, ok |-> sess'.face.ok]
  <2>1. /\ sub[p].pc = "built" /\ sess.face.n = sub[p].n /\ p \in Submitters
        /\ \E e \in 0..MaxNow : sess' = DecidedAs(sub[p].to, e, sub[p])
    BY <1>4, OutcomeStores DEF Submitters
  <2>2. sess'.face = sess.face /\ sess'.result = [n |-> sub[p].n, ok |-> sub[p].ok]
    BY <1>3, <2>1
  <2>3. sub[p].n > 0 /\ sess.status # "gone"
    BY <1>4, <2>2 DEF Decides, Open, Running
  <2>4. sub[p].ok = sess.face.ok  BY <2>1, <2>3 DEF BuiltOf
  <2> QED  BY <2>1, <2>2, <2>4
<1>5. ~Refers
  <2> SUFFICES ASSUME Refers PROVE FALSE  OBVIOUS
  <2>1. /\ sub["yivi"].pc = "built" /\ "yivi" \in Submitters
        /\ \E e \in 0..MaxNow : sess' = DecidedAs(sub["yivi"].to, e, sub["yivi"])
    BY OutcomeStores DEF Submitters
  <2>2. sess'.result = [n |-> sub["yivi"].n, ok |-> sub["yivi"].ok]  BY <1>3, <2>1
  <2>3. sub["yivi"].n = 0  BY <2>1 DEF BuiltOf
  <2> QED  BY <2>2, <2>3
<1>6. ~Rejects
  <2> SUFFICES ASSUME Rejects PROVE FALSE  OBVIOUS
  <2>1. sess'.result = sess.result  BY <1>1, OutcomeStores DEF SessType
  <2>2. sess.result.n = 0  BY DEF Rejects, Open, Undecided
  <2> QED  BY <2>1, <2>2
<1>7. ASSUME NEW to \in {"approved", "rejected"}, Reviews(to)
      PROVE  sess'.result = [n |-> sess'.face.n, ok |-> sess'.face.ok]
  <2>1. sess'.result = sess.result /\ sess'.face = sess.face
    BY <1>1, <1>7, OutcomeStores DEF SessType
  <2>2. sess.status = "needs_review"  BY <1>7 DEF Reviews
  <2> QED  BY <2>1, <2>2 DEF ResultOfStoredEvidence
<1>8. ~Erases  BY EraseStores
<1> QED
  BY <1>2, <1>4, <1>5, <1>6, <1>7, <1>8, SessMoves DEF Stays, Ends, Outcomes, Running

LEMMA OutcomeTold ==
  ASSUME Typed, OutcomeSeen, [Next]_vars
  PROVE  OutcomeSeen'
<1> SUFFICES ASSUME sess'.status \in Decided, kind.told, faults' = 0
             PROVE  queued' \/ telling' = "told" \/ seen' = sess'.status
  <2>1. kind' = kind  BY RestTyped
  <2> QED  BY <2>1 DEF OutcomeSeen
<1>1. sess \in SessType /\ faults \in Nat /\ queued \in BOOLEAN
  BY KindTypes DEF Typed
<1>2. ASSUME faults = 0, sess'.status = sess.status
      PROVE  queued \/ telling = "told" \/ seen = sess'.status
  BY <1>2 DEF OutcomeSeen
<1>3. CASE QueueChanged
  <2>1. faults' # faults + 1  BY <1>1
  <2> QED  BY <1>3, <2>1 DEF QueueChanged
<1>4. CASE /\ UNCHANGED <<queued, faults, telling, seen>> /\ ~QueueChanged
           /\ IsExpired(sess) => sess'.status \in {sess.status, "gone"}
  <2>1. sess'.status = sess.status
    <3>1. sess'.status # "gone" /\ sess'.status \notin Running
      BY DEF Decided, Terminal, Running
    <3>2. Rests => sess'.status = sess.status  BY <1>1 DEF Rests, SessType
    <3>3. ~Erases  BY <3>1, EraseStores
    <3>4. ~CancelSession  BY <1>4 DEF CancelSession, Update
    <3>5. Ends => sess'.status = sess.status  BY <1>4, <3>1, <3>4 DEF Ends
    <3>6. ~Rejects /\ \A to \in {"approved", "rejected"} : ~Reviews(to)
      BY <1>4 DEF Rejects, FailDocumentScan, Reviews, DecideReview, Update
    <3>7. ASSUME Refused
          PROVE  sess'.status = sess.status
      <4>1. Quiet \/ Lapses  BY <3>7, RefusedStores
      <4>2. Lapses => sess'.status = (IF IsExpired(sess) THEN "expired" ELSE sess.status)
        BY LapseStores
      <4> QED  BY <1>4, <3>1, <4>1, <4>2 DEF Quiet
    <3>8. Refers => sess'.status = sess.status
      BY <1>4, <3>7 DEF Refers, SettleReference, Update
    <3>9. ASSUME NEW p \in {"app", "browser"}, Decides(p)
          PROVE  sess'.status = sess.status
      BY <1>4, <3>7, <3>9 DEF Decides, Finish, Update
    <3> QED  BY <3>1, <3>2, <3>3, <3>5, <3>6, <3>8, <3>9, SessMoves DEF Stays, Outcomes
  <2> QED  BY <1>2, <1>4, <2>1
<1>5. CASE sess' = sess /\ (TakeNotice \/ WalletReads \/ WalletTold \/ Crash)
  <2>1. ~Crash
    <3>1. Crash => faults' = faults + 1  BY DEF Crash
    <3> QED  BY <1>1, <3>1
  <2>2. TakeNotice => telling' = "told"  BY DEF TakeNotice
  <2>3. WalletReads => seen' = sess'.status  BY <1>5 DEF WalletReads
  <2>4. ASSUME WalletTold
        PROVE  queued' \/ seen' = sess'.status
    <3>1. telling # "told" /\ faults' = faults /\ queued' = queued /\ seen' = seen
      <4>1. telling = "told" => faults' = faults + 1  BY <2>4 DEF WalletTold
      <4>2. telling # "told"  BY <1>1, <4>1
      <4> QED  BY <2>4, <4>2 DEF WalletTold
    <3> QED  BY <1>2, <1>5, <3>1
  <2> QED  BY <1>5, <2>1, <2>2, <2>3, <2>4
<1> QED  BY <1>3, <1>4, <1>5, Notices

(* An app that waits has done its steps, and the photo, once in, builds    *)
(* the result, unless a face or a fault came between.                      *)
BrowserBuilt == sub["browser"].pc = "built" /\ sub["browser"].n = sess.face.n

WaitsFor ==
  waiting /\ sess.status \in Running =>
    /\ sess.method = "idem" /\ AppStepsDone(sess) /\ kind.photo
    /\ ~raced /\ faults = 0 /\ sess.photo => BrowserBuilt \/ IsExpired(sess)

LEMMA FaultsGrow ==
  ASSUME Typed, [Next]_vars, faults' = 0
  PROVE  faults = 0 /\ ~Crash
<1>1. faults \in Nat  BY KindTypes DEF Typed
<1>2. faults' = faults \/ faults' = faults + 1
  BY Notices DEF QueueChanged, TakeNotice, WalletReads, WalletTold, Crash
<1>3. Crash => faults' = faults + 1  BY DEF Crash
<1> QED  BY <1>1, <1>2, <1>3

(* A face that lands while the app waits is noted.                         *)
LEMMA LandsRaces ==
  ASSUME NEW c \in Calls, NEW ok \in BOOLEAN, Lands(c, ok), waiting
  PROVE  raced'
<1>1. Fresh = sess /\ sess.status # "gone" /\ StepWriteCheck(sess, call[c].tok, "face", TRUE)
  BY DEF Lands, Open, Fresh, Running
<1> QED  BY <1>1 DEF Lands, FaceAnswered

(* The browser's result is used up only by deciding the session.           *)
LEMMA BrowserDecides ==
  ASSUME Typed, BuiltOf, [Next]_vars, Open, BrowserBuilt, Complete(sess), ~Crash,
         sess'.status \in Running
  PROVE  sub'["browser"] = sub["browser"]
<1>1. sub \in [Submitters -> SubType] /\ "browser" \in Submitters
  BY DEF Typed, Submitters
<1>2. ~Finish("browser")
  <2> SUFFICES ASSUME Finish("browser") PROVE FALSE  OBVIOUS
  <2>1. sub["browser"].tok = 0  BY <1>1 DEF BrowserBuilt, BuiltOf
  <2>2. Fresh = sess /\ sess.status # "gone"  BY DEF Open, Fresh, Running
  <2>3. CheckAppWrite(sess, sub["browser"].tok)
    BY <2>1 DEF CheckAppWrite, System, OpenForDevices, Open
  <2>4. StillBuiltOf(sess, sub["browser"])  BY DEF StillBuiltOf, BrowserBuilt
  <2>5. Decides("browser")  BY <2>2, <2>3, <2>4 DEF Finish, Decides, Update
  <2>6. PICK e \in 0..MaxNow : sess' = DecidedAs(sub["browser"].to, e, sub["browser"])
    BY <2>5, OutcomeStores
  <2>7. sub["browser"].to \in {"approved", "rejected", "needs_review"}  BY <2>5, OutcomeStores
  <2>8. sess'.status = sub["browser"].to  BY <2>6 DEF DecidedAs, Typed, SessType
  <2> QED  BY <2>7, <2>8 DEF Running
<1>3. ASSUME NEW t \in 1..Len(issued), Build("app", t, sess)
      PROVE  sub'["browser"] = sub["browser"]
  BY <1>1, <1>3 DEF Build
<1>4. ~DocumentPhoto  BY DEF DocumentPhoto, BrowserBuilt
<1>5. ReadReference => sub'["browser"] = sub["browser"]  BY <1>1 DEF ReadReference, Build
<1>6. Finish("app") => sub'["browser"] = sub["browser"]  BY <1>1 DEF Finish
<1>7. SettleReference => sub'["browser"] = sub["browser"]  BY <1>1 DEF SettleReference
<1> QED  BY <1>2, <1>3, <1>4, <1>5, <1>6, <1>7, SubMoves

(* A session that goes on was neither decided nor ended.                   *)
LEMMA GoesOn ==
  ASSUME Typed, [Next]_vars, sess'.status \in Running
  PROVE  Stays
<1>1. sess \in SessType  BY DEF Typed
<1>2. ~Rests
  <2>1. Rests => sess'.status = sess.status  BY <1>1 DEF Rests, SessType
  <2> QED  BY <2>1 DEF Rests
<1>3. ~Ends  BY DEF Ends, Running
<1>4. ~Erases  BY EraseStores DEF Running
<1>5. ~Outcomes  BY OutcomeKeeps DEF Running
<1> QED  BY <1>2, <1>3, <1>4, <1>5, SessMoves

LEMMA DeadlineStays ==
  ASSUME Typed, [Next]_vars, IsExpired(sess), sess'.status \in Running
  PROVE  IsExpired(sess)'
<1>1. /\ now \in Nat /\ sess.exp \in Nat /\ now > sess.exp
  BY BoundTypes DEF Typed, SessType, IsExpired
<1>2. sess'.exp = sess.exp  BY GoesOn DEF Stays, Open
<1>3. now' = now \/ now' = now + 1  BY Frame DEF Tick
<1>4. now' > sess'.exp  BY <1>1, <1>2, <1>3
<1> QED  BY <1>4 DEF IsExpired

LEMMA WaitsForKept ==
  ASSUME Typed, Counted, BuiltOf, WaitsFor, [Next]_vars
  PROVE  WaitsFor'
<1> SUFFICES ASSUME waiting', sess'.status \in Running
             PROVE  /\ sess'.method = "idem" /\ AppStepsDone(sess') /\ kind.photo
                    /\ ~raced' /\ faults' = 0 /\ sess'.photo => BrowserBuilt' \/ IsExpired(sess)'
  <2>1. kind' = kind  BY Frame
  <2> QED  BY <2>1 DEF WaitsFor, AppStepsDone
<1>1. CASE \E t \in 1..Len(issued) :
             SubmitApp(t) /\ sess' = sess /\ AppStepsDone(sess) /\ ~Complete(sess)
  <2>1. sess.method = "idem"  BY <1>1 DEF SubmitApp
  <2>2. kind.photo /\ ~sess.photo  BY <1>1 DEF Complete
  <2> QED  BY <1>1, <2>1, <2>2
<1>2. CASE waiting /\ (~raced' => ~raced)
  <2>1. Stays  BY GoesOn
  <2>2. /\ sess.method = "idem" /\ AppStepsDone(sess) /\ kind.photo
        /\ ~raced /\ faults = 0 /\ sess.photo => BrowserBuilt \/ IsExpired(sess)
    BY <1>2, <2>1 DEF WaitsFor, Stays
  <2>3. sess'.method = "idem"  BY <2>1, <2>2 DEF Stays
  <2>4. sess'.face = sess.face \/ \E c \in Calls, ok \in BOOLEAN :
          Lands(c, ok) /\ sess'.face = [n |-> call[c].n, ok |-> ok, by |-> call[c].tok]
    BY <2>1 DEF Stays
  <2>5. ASSUME NEW c \in Calls, NEW ok \in BOOLEAN, Lands(c, ok),
               sess'.face = [n |-> call[c].n, ok |-> ok, by |-> call[c].tok]
        PROVE  sess'.face.n > 0
    <3>1. Out(c) /\ sess.status # "gone"  BY <2>5 DEF Lands, FaceAnswered, Out, Open, Running
    <3>2. call[c].n \in 1..sess.reserved  BY <3>1 DEF Counted
    <3>3. sess'.face.n = call[c].n  BY <2>5
    <3> QED  BY <3>2, <3>3, NumberTypes
  <2>6. AppStepsDone(sess')
    BY <2>1, <2>2, <2>4, <2>5 DEF Stays, AppStepsDone
  <2>7. ASSUME ~raced', faults' = 0, sess'.photo
        PROVE  BrowserBuilt' \/ IsExpired(sess)'
    <3>1. faults = 0 /\ ~Crash /\ ~raced  BY <1>2, <2>7, FaultsGrow
    <3>2. sess'.face = sess.face  BY <1>2, <2>4, <2>7, LandsRaces
    <3>3. CASE IsExpired(sess)  BY <3>3, DeadlineStays
    <3>4. CASE ~IsExpired(sess)
      <4>1. Open  BY <2>1, <3>4 DEF Open, Stays
      <4>2. CASE sess.photo
        <5>1. BrowserBuilt  BY <2>2, <3>1, <3>4, <4>2
        <5>2. Complete(sess)  BY <2>2, <4>2 DEF Complete
        <5>3. sub'["browser"] = sub["browser"]  BY <3>1, <4>1, <5>1, <5>2, BrowserDecides
        <5> QED  BY <3>2, <5>1, <5>3 DEF BrowserBuilt
      <4>3. CASE ~sess.photo
        <5>1. DocumentPhoto  BY <2>1, <2>7, <4>3 DEF Stays, Photos
        <5>2. Complete(sess')  BY <2>6, <2>7 DEF Complete
        <5>3. Build("browser", 0, Pictured) /\ Pictured \in SessType /\ sess' = Pictured
          BY <2>3, <5>1, <5>2, PhotoBuilds
        <5>4. 0 \in Tokens /\ "browser" \in Submitters
          BY KindTypes DEF Typed, Tokens, Submitters
        <5>5. sub'["browser"].pc = "built" /\ sub'["browser"].n = sess'.face.n
          <6>1. sub'["browser"] = [pc |-> "built", tok |-> 0, n |-> Pictured.face.n,
                                   ok |-> Pictured.face.ok, to |-> Outcome(Pictured)]
            BY <5>3, <5>4, BuildTyped
          <6> QED  BY <5>3, <6>1
        <5> QED  BY <5>5 DEF BrowserBuilt
      <4> QED  BY <4>2, <4>3
    <3> QED  BY <3>3, <3>4
  <2> QED  BY <2>2, <2>3, <2>6, <2>7
<1>3. ASSUME NEW t \in 1..Len(issued), SubmitApp(t)
      PROVE  \/ UNCHANGED <<waiting, raced>>
             \/ SubmitApp(t) /\ sess' = sess /\ AppStepsDone(sess) /\ ~Complete(sess)
  BY <1>3 DEF SubmitApp
<1>4. ASSUME NEW c \in Calls, NEW ok \in BOOLEAN, FaceAnswered(c, ok)
      PROVE  waiting' = waiting /\ (~raced' => ~raced)
  BY <1>4 DEF FaceAnswered
<1> QED  BY <1>1, <1>2, <1>3, <1>4, Frame

(* The calls that count have numbers of their own.                         *)
LEMMA CountedBounds ==
  ASSUME Typed, Counted
  PROVE  CallsBounded
<1> SUFFICES ASSUME sess.status \in Running
             PROVE  Cardinality({c \in Calls : Out(c)}) <= MaxAttempts
  BY DEF CallsBounded, Out
<1> DEFINE S == {c \in Calls : Out(c)}
           f == [c \in S |-> call[c].n]
<1>1. MaxAttempts \in Nat /\ sess.reserved \in Nat /\ sess.reserved <= MaxAttempts
  BY BoundTypes, NumberTypes
<1>2. /\ \A c \in Calls : Out(c) => call[c].n \in 1..sess.reserved
      /\ \A c, d \in Calls : Out(c) /\ Out(d) /\ call[c].n = call[d].n => c = d
  BY DEF Counted, Running
<1>3. f \in [S -> 1..MaxAttempts] /\ \A c, d \in S : f[c] = f[d] => c = d
  BY <1>1, <1>2
<1>4. f \in Injection(S, 1..MaxAttempts)
  <2> HIDE DEF f, S
  <2> QED  BY <1>3 DEF Injection, IsInjective
<1>5. IsFiniteSet(1..MaxAttempts) /\ Cardinality(1..MaxAttempts) = MaxAttempts
  BY <1>1, FS_Interval
<1>6. Cardinality(S) <= Cardinality(1..MaxAttempts)
  <2> HIDE DEF f, S
  <2> QED  BY <1>4, <1>5, FS_Injection
<1> QED  BY <1>5, <1>6

LEMMA WaitsEnd ==
  ASSUME WaitsFor
  PROVE  WaitEndsWithPhoto
BY DEF WaitsFor, WaitEndsWithPhoto, Complete, BrowserBuilt, Submitters

LEMMA EvidenceInit ==
  ASSUME Init
  PROVE  /\ Undecided /\ IdemOnly /\ Counted /\ BuiltOf /\ WaitsFor
         /\ PicturesGoWithDecision /\ ResultOfStoredEvidence /\ OutcomeSeen
<1>1. /\ sess.status = "created" /\ sess.method = kind.method /\ sess.reserved = 0
      /\ sess.face = NoFace /\ sess.result = [n |-> 0, ok |-> FALSE]
      /\ ~sess.shown /\ ~sess.pics
      /\ \A r \in Roles : sess.method # "idem" => sess.grant[r].id = 0
      /\ issued = <<>> /\ ~waiting
      /\ \A c \in Calls : call[c].pc = "idle"
      /\ \A p \in Submitters : sub[p].pc = "idle"
  BY DEF Init, NoGrant, NoSub
<1>2. Undecided /\ PicturesGoWithDecision /\ ResultOfStoredEvidence /\ OutcomeSeen
  BY <1>1 DEF Undecided, PicturesGoWithDecision, ResultOfStoredEvidence, OutcomeSeen, Decided, Terminal
<1>3. IdemOnly  BY <1>1, EmptySeq DEF IdemOnly, NoFace
<1>4. Counted  BY <1>1 DEF Counted, Out, NoFace
<1>5. BuiltOf /\ WaitsFor  BY <1>1 DEF BuiltOf, WaitsFor
<1> QED  BY <1>2, <1>3, <1>4, <1>5

(* What decides a session: no more calls than there are attempts, a result *)
(* of the evidence that is stored, no picture past the decision, and the   *)
(* decision seen, by the wallet and by an app that waits                   *)
(* (submit.go, finishSession; engine.go, Run).                             *)
THEOREM DecisionHolds == Spec => []EvidenceDecides
<1> DEFINE IInv == /\ Typed /\ Counted /\ IdemOnly /\ BuiltOf /\ Undecided /\ WaitsFor
                   /\ PicturesGoWithDecision /\ ResultOfStoredEvidence /\ OutcomeSeen
<1>1. Init => IInv  BY InitTyped, EvidenceInit
<1>2. IInv /\ [Next]_vars => IInv'
  <2> SUFFICES ASSUME IInv, [Next]_vars PROVE IInv'  OBVIOUS
  <2>1. Typed'  BY TypedKept
  <2>2. Counted' /\ IdemOnly'  BY CountedKept, IdemKept
  <2>3. BuiltOf'  BY <2>2, BuiltKept
  <2>4. Undecided' /\ PicturesGoWithDecision'  BY PicturesKept
  <2>5. ResultOfStoredEvidence'  BY ResultKept
  <2>6. OutcomeSeen'  BY OutcomeTold
  <2>7. WaitsFor'  BY WaitsForKept
  <2> QED  BY <2>1, <2>2, <2>3, <2>4, <2>5, <2>6, <2>7
<1>3. IInv => EvidenceDecides
  BY CountedBounds, WaitsEnd DEF EvidenceDecides
<1> HIDE DEF IInv
<1> QED  BY <1>1, <1>2, <1>3, PTL DEF Spec

----------------------------------------------------------------------------
(* What the wallet is promised (SessionLifecycle).                         *)

LEMMA ToldIs ==
  ASSUME sess \in SessType
  PROVE  /\ IsExpired(sess) => Told = "expired"
         /\ ~IsExpired(sess) => Told = (IF sess.status = "in_progress" THEN "opened"
                                       ELSE IF sess.status = "gone" THEN "deleted"
                                       ELSE sess.status)
<1>1. IsExpired(sess) => Fresh.status = "expired"
  BY DEF Fresh, ForStorage, SetStatus, SessType
<1>2. ~IsExpired(sess) => Fresh.status = sess.status  BY DEF Fresh
<1> QED  BY <1>1, <1>2 DEF Told

(* A session once opened never reads as created again.                     *)
LEMMA NeverBack ==
  ASSUME Typed, [Next]_vars, sess'.status = "created"
  PROVE  sess.status = "created"
<1>1. sess \in SessType /\ Stays  BY GoesOn DEF Typed, Running
<1> SUFFICES ASSUME sess.status # "created" PROVE FALSE  OBVIOUS
<1>2. ASSUME NEW s \in SessType, s.status = sess.status, sess' = InProgress(s)
      PROVE  FALSE
  <2>1. s.status \in Running  BY <1>1, <1>2 DEF Stays
  <2>2. PICK st \in Running : InProgress(s) = [s EXCEPT !.status = st] /\ st # "created"
    BY <1>2, <2>1, Advance
  <2> QED  BY <1>2, <2>2 DEF SessType
<1>3. ~Starts  BY <1>1, <1>2 DEF Starts
<1>4. ~Scans
  <2>1. [sess EXCEPT !.doc = "mrz"] \in SessType
        /\ [sess EXCEPT !.doc = "mrz"].status = sess.status
    BY <1>1 DEF SessType
  <2> QED  BY <1>2, <2>1 DEF Scans
<1>5. ~Photos
  <2>1. [sess EXCEPT !.photo = TRUE] \in SessType
        /\ [sess EXCEPT !.photo = TRUE].status = sess.status
    BY <1>1 DEF SessType
  <2> QED  BY <1>2, <2>1 DEF Photos
<1>6. ASSUME NEW t \in 1..Len(issued), Chips(t)
      PROVE  FALSE
  <2>1. [sess EXCEPT !.chip = t, !.doc = "chip", !.pics = TRUE] \in SessType
        /\ [sess EXCEPT !.chip = t, !.doc = "chip", !.pics = TRUE].status = sess.status
    BY <1>1, IssuedTypes DEF SessType
  <2> QED  BY <1>2, <1>6, <2>1 DEF Chips
<1>7. ASSUME NEW c \in Calls, NEW ok \in BOOLEAN, Lands(c, ok)
      PROVE  FALSE
  <2>1. FaceOf(c, ok) \in FaceType  BY <1>7, LandStores
  <2>2. [sess EXCEPT !.face = FaceOf(c, ok), !.pics = TRUE] \in SessType
        /\ [sess EXCEPT !.face = FaceOf(c, ok), !.pics = TRUE].status = sess.status
    BY <1>1, <2>1 DEF SessType
  <2> QED  BY <1>2, <1>7, <2>2 DEF Lands, FaceOf
<1>8. ASSUME NEW r \in Roles, Claims(r) \/ Mints(r) \/ Flags(r)
      PROVE  FALSE
  <2>1. CASE Claims(r)  BY <2>1, ClaimStores
  <2>2. CASE Mints(r)  BY <1>1, <2>2, MintStores DEF SessType
  <2>3. CASE Flags(r)  BY <1>1, <2>3, FlagStores DEF SessType
  <2> QED  BY <1>8, <2>1, <2>2, <2>3
<1>9. ASSUME NEW t \in 1..Len(issued), Returns(t)
      PROVE  FALSE
  <2>1. PICK l, g : sess' = [sess EXCEPT !.slot = l, !.grant = g]  BY <1>9, ReturnStores
  <2> QED  BY <1>1, <2>1 DEF SessType
<1>10. ASSUME NEW c \in Calls, NEW t \in 1..Len(issued), Spends(c, t)
       PROVE  FALSE
  BY <1>1, <1>10 DEF Spends, SessType
<1>11. ASSUME NEW m \in {"idem", "yivi"}, Chooses(m)
       PROVE  FALSE
  BY <1>1, <1>11 DEF Chooses, SessType
<1>12. ASSUME NEW c \in Calls, Refunds(c)
       PROVE  FALSE
  BY <1>1, <1>12, RefundStores
<1>13. ~Quiet /\ ~Lapses  BY <1>1, LapseStores DEF Quiet
<1>14. ~Erases /\ ~Cancels  BY EraseStores, CancelStores
<1>15. ~Outcomes  BY OutcomeKeeps
<1>16. SessStep  BY Stores
<1> QED
  BY <1>3, <1>4, <1>5, <1>6, <1>7, <1>8, <1>9, <1>10, <1>11, <1>12, <1>13, <1>14, <1>15, <1>16
     DEF SessStep, Outcomes

(* A session is decided while it runs, within its deadline, or in review.  *)
LEMMA DecidedOpen ==
  ASSUME Outcomes, sess \in SessType
  PROVE  ~IsExpired(sess) /\ sess.status \in Running \cup {"needs_review"}
BY DEF Outcomes, Decides, Refers, Rejects, Reviews, Open, IsExpired, Running

(* Every step is one of the contract's, or nothing a reader notices.       *)
LEMMA ContractStep ==
  ASSUME Typed, Typed', [Next]_vars
  PROVE  [Contract!Next]_Told
<1> USE DEF Contract!Next, Contract!Own, Contract!Asked, Contract!Moves, Contract!Running,
            Contract!Findings, Contract!Finished, Contract!Statuses
<1>1. sess \in SessType /\ sess.status \in Statuses
  <2>1. sess \in SessType  BY DEF Typed
  <2> QED  BY <2>1 DEF SessType
<1>2. /\ IsExpired(sess)' => Told' = "expired"
      /\ ~IsExpired(sess)' => Told' = (IF sess'.status = "in_progress" THEN "opened"
                                      ELSE IF sess'.status = "gone" THEN "deleted"
                                      ELSE sess'.status)
  <2>1. (sess \in SessType)'
    BY DEF Typed
  <2>2. (IsExpired(sess) => Fresh.status = "expired")'
    BY <2>1 DEF Fresh, ForStorage, SetStatus, SessType
  <2>3. (~IsExpired(sess) => Fresh.status = sess.status)'  BY DEF Fresh
  <2> QED  BY <2>2, <2>3 DEF Told
<1>3. CASE IsExpired(sess)
  <2>1. sess.status \in Running /\ Told = "expired"  BY <1>1, <1>3, ToldIs DEF IsExpired
  <2>2. sess'.status \in {"expired", "gone", sess.status}  BY <1>3, EvidenceMoves
  <2>3. Told' \in {"expired", "deleted"}
    BY <1>2, <1>3, <2>1, <2>2, DeadlineStays
  <2> QED  BY <2>1, <2>3 DEF Contract!Remove
<1>4. CASE ~IsExpired(sess) /\ sess.status \in Running
  <2>1. Told = (IF sess.status = "in_progress" THEN "opened" ELSE sess.status)
    BY <1>1, <1>4, ToldIs DEF Running
  <2>2. CASE Stays
    BY <1>2, <2>1, <2>2, NeverBack DEF Stays, Running, Contract!Open, Contract!Expire
  <2>3. CASE Ends
    BY <1>2, <1>4, <2>1, <2>3 DEF Ends, Running, Contract!Expire, Contract!Cancel, IsExpired
  <2>4. CASE Erases
    BY <1>2, <1>4, <2>1, <2>4, EraseStores DEF Running, Contract!Erase, IsExpired
  <2>5. CASE Outcomes
    BY <1>2, <1>4, <2>1, <2>5, OutcomeKeeps DEF Running, Contract!Find, IsExpired
  <2>6. ~Rests  BY <1>4 DEF Rests
  <2> QED  BY <2>2, <2>3, <2>4, <2>5, <2>6, SessMoves
<1>5. CASE sess.status \notin Running
  <2>1. ~IsExpired(sess)  BY <1>5 DEF IsExpired
  <2>2. Told = (IF sess.status = "gone" THEN "deleted" ELSE sess.status)
    BY <1>1, <1>5, <2>1, ToldIs DEF Running
  <2>3. CASE sess'.status = sess.status
    <3>1. Told' = Told  BY <1>2, <1>5, <2>2, <2>3 DEF IsExpired, Running
    <3> QED  BY <3>1
  <2>4. CASE Rests
    <3>1. sess'.status = sess.status  BY <1>1, <2>4 DEF Rests, SessType
    <3> QED  BY <2>3, <3>1
  <2>5. CASE Ends
    <3>1. CASE CancelSession /\ sess'.status = "cancelled"
      <4>1. sess.status \in Running \cup {"needs_review"}
        <5>1. Fresh.status = sess.status /\ "cancelled" \in Transitions[sess.status]
          BY <2>1, <3>1 DEF CancelSession, Fresh
        <5> QED  BY <1>1, <5>1, Transits DEF Running
      <4>2. Told = "needs_review"  BY <1>5, <2>2, <4>1
      <4>3. Told' = "cancelled"  BY <1>2, <3>1 DEF IsExpired, Running
      <4> QED  BY <4>2, <4>3 DEF Contract!Cancel
    <3> QED  BY <1>5, <2>1, <2>3, <2>5, <3>1 DEF Ends
  <2>6. CASE Erases
    <3>1. Told' = "deleted"  BY <1>2, <2>6, EraseStores DEF IsExpired, Running
    <3>2. Told \in Contract!Statuses  BY <1>1, <1>5, <2>2 DEF Statuses, Terminal, Running
    <3> QED  BY <3>1, <3>2 DEF Contract!Erase
  <2>7. CASE Outcomes
    <3>1. Told = "needs_review"  BY <1>1, <1>5, <2>2, <2>7, DecidedOpen
    <3>2. Told' \in Contract!Findings
      BY <1>2, <2>7, OutcomeKeeps DEF IsExpired, Running
    <3> QED  BY <3>1, <3>2 DEF Contract!Find
  <2>8. ~Stays  BY <1>5 DEF Stays
  <2> QED  BY <2>4, <2>5, <2>6, <2>7, <2>8, SessMoves
<1> QED  BY <1>3, <1>4, <1>5

(* Devices, wallet, jobs and restarts together make of a session no more   *)
(* than its lifecycle: what the request's model takes the engine to do     *)
(* (session.go, transitions; store.go, Update and Get).                    *)
THEOREM ContractKept == Spec => FollowsContract
<1>1. Init => Typed /\ Contract!Init
  <2> SUFFICES ASSUME Init PROVE Typed /\ Contract!Init  OBVIOUS
  <2>1. Typed  BY InitTyped
  <2>2. sess \in SessType /\ sess.status = "created" /\ ~(now > sess.exp)
    <3>1. sess \in SessType  BY <2>1 DEF Typed
    <3>2. sess.exp \in 0..MaxLifetime  BY <3>1 DEF SessType
    <3>3. sess.status = "created" /\ now = 0  BY DEF Init
    <3> QED  BY <3>1, <3>2, <3>3, BoundTypes
  <2>3. Told = "created"  BY <2>2, ToldIs DEF IsExpired
  <2> QED  BY <2>1, <2>3 DEF Contract!Init
<1>2. Typed /\ [Next]_vars => Typed'  BY TypedKept
<1>3. Typed /\ Typed' /\ [Next]_vars => [Contract!Next]_Told  BY ContractStep
<1> QED  BY <1>1, <1>2, <1>3, PTL DEF Spec, FollowsContract, Contract!Spec
=============================================================================
