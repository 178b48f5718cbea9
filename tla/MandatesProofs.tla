--------------------------- MODULE MandatesProofs ---------------------------
(***************************************************************************)
(* Proofs about an organisation, for every set of people, of requests, of  *)
(* syncs, of accounts and of settings: the types, that rights and dates    *)
(* follow what they are made under, that an administrator remains, that a  *)
(* sync touches and owns only what it gave, that who was rejected stays    *)
(* out, and that a mandate ends with the one above it.                     *)
(***************************************************************************)
EXTENDS Mandates, TLAPS, FiniteSetTheorems

Standing == {"gone", "disabled", "member", "admin"}

(* Where a worker can be: at a request's own step or one it leads to, and  *)
(* a sync at one of its own or at one of those it borrows.                 *)
OpPcs == {"update", "invite", "type_settings", "remove", "give_right", "take_right",
          "verify_settings", "policy", "accept", "revoke", "resend", "approve_review",
          "reject_review", "set", "delete", "admit_settings", "admit", "approve_settings",
          "approve", "verify", "retype", "insert_invite", "set_invite", "resolve", "hold"}
OwnPcs    == {"links", "next", "unlink", "link"}
Changing  == {"update", "set", "set_invite"}
Removing  == {"remove", "delete", "revoke", "unlink"}
Inviting  == {"insert_invite", "link"}
ToRole    == {"update", "set", "invite", "insert_invite", "set_invite"}
ToType    == {"type_settings", "retype"}
Accepting == {"resolve", "hold", "admit_settings", "admit"}
Approving == {"approve_settings", "approve"}

JobType ==
  [pc : {"idle"} \cup OpPcs \cup OwnPcs, user : Users \cup {NoOne},
   to : Roles \cup Types \cup {""}, role : Roles \cup {""}, right : BOOLEAN, id : Nat,
   policy : Policies, back : {"idle", "unlink", "next", "link"}, account : Accounts \cup {NoOne},
   todo : SUBSET Accounts, people : SUBSET Accounts, owned : SUBSET Accounts,
   snap : [Accounts -> Standing] \cup {<<>>}]

Causes == {"role", "right", "settings", "invitation", "address", "link"}

Typed ==
  /\ kind \in Kinds /\ policy \in Policies /\ mismatch \subseteq Users
  /\ members \in [Users -> Memberships \cup {NoOne}]
  /\ invites \in [Users -> Invitations \cup {NoOne}]
  /\ nextInvite \in Nat \ {0}
  /\ job \in [Workers -> JobType]
  /\ audited \subseteq Users /\ stale \subseteq Causes
  /\ dir \in [Accounts -> Standing] /\ links \subseteq Accounts
  /\ moves \in Nat /\ faults \in Nat

(* A sync's own record.                                                    *)
SyncSound(j) ==
  /\ j.pc \in OwnPcs \cup Changing \cup Removing \cup Inviting
  /\ j.snap \in [Accounts -> Standing]
  /\ j.todo \subseteq j.owned
  /\ j.pc \notin {"links", "next"} => j.account \in Accounts /\ j.user = Mailbox[j.account]
  /\ j.pc \in Changing => j.back = "next" /\ j.account \in j.owned
  /\ j.pc \in Removing => j.back = "unlink" /\ j.account \in j.owned \ j.todo
  /\ j.pc \in Inviting => j.back = "link"

(* What a worker's own record says, whatever the others do.                *)
Sound(w, j) ==
  /\ j.pc \in ToRole => j.to \in Roles
  /\ j.pc \in ToType => j.to \in Types
  /\ j.pc \in {"set", "delete"} \cup Accepting \cup Approving => j.role \in Roles
  /\ j.pc \in {"set", "delete"} /\ j.right => j.role = "member"
  /\ w \in Calls => /\ j.back = "idle" /\ j.pc \in {"idle"} \cup OpPcs /\ j.owned = {}
                    /\ j.pc # "idle" => j.user \in Users
  /\ w \in Syncs /\ j.pc # "idle" => SyncSound(j)

JobsSound == \A w \in Workers : Sound(w, job[w])

(* Only a member's own right is on record as theirs to have.               *)
RightsSound ==
  /\ \A u \in Users : IsMember(u) /\ members[u].right => members[u].role = "member"
  /\ ReviewsFollowPolicy

(* What an acceptance or an approval under way knows of its invitation.    *)
There(j) == IsInvited(j.user) /\ invites[j.user].id = j.id

Knows(j) ==
  /\ j.pc \in Accepting =>
       j.id < nextInvite /\ j.user \in Users /\ (There(j) \/ <<j.user, j.id>> \in taken)
  /\ j.pc = "hold" /\ There(j) => j.user \in mismatch
  /\ j.pc \in {"admit_settings", "admit"} => j.user \notin mismatch
  /\ j.pc \in Approving =>
       j.user \in Users /\ There(j) /\ invites[j.user].review = "pending"

InvitesSound ==
  /\ \A u \in Users : IsInvited(u) =>
       /\ invites[u].id \in 1..(nextInvite - 1)
       /\ invites[u].review # "none" => u \in mismatch
  /\ \A u \in Users, n \in Nat : <<u, n>> \in made => n < nextInvite
  /\ \A w \in Workers : Knows(job[w])

Excused == stale \cap {"address", "invitation"} # {}

(* Whom a sync holds it holds by what a sync gave.                         *)
HeldSafe ==
  \A u \in Users : Held(u) =>
    /\ IsMember(u) \/ IsInvited(u) => FromSync(u) \/ u \in rehired \/ Excused
    /\ IsMember(u) /\ IsInvited(u) => Excused

PeopleInv ==
  /\ Typed /\ JobsSound /\ RightsSound /\ InvitesSound /\ AdminRemains
  /\ HeldSafe /\ GivenIsOwned

----------------------------------------------------------------------------
(* Mandates.                                                               *)
Rows == [grantor : Users, grantee : Users, type : Tiers, scope : Scopes, parent : Nat,
         from : Days, until : 1..Ever, revoked : 0..Ever]

ActType ==
  [pc : {"idle", "grant", "insert", "revoke", "cascade"}, by : Users \cup {NoOne}, at : Days,
   rep : BOOLEAN, target : Nat, end : 1..Ever, found : SUBSET Nat, grant : Rows \cup {<<>>}]

MandatesTyped ==
  /\ kind \in Kinds
  /\ register \in Seq(Rows) /\ today \in Days /\ reps \subseteq Users /\ late \subseteq Ids
  /\ act \in [Callers -> ActType]

RowsSound ==
  \A m \in Ids : /\ Mandate(m).from < Mandate(m).until /\ Mandate(m).parent \in 0..(m - 1)
                 /\ Mandate(m).revoked # Ever =>
                      Mandate(m).revoked <= today /\ Mandate(m).revoked < Mandate(m).until

(* A grant under way, and a revocation.                                    *)
Grants(g) ==
  /\ g \in Rows /\ g.from < g.until /\ g.revoked = Ever /\ g.parent \in 0..Len(register)

Revokes(a) ==
  /\ a.at <= today /\ a.at < a.end /\ a.target \in Ids
  /\ a.pc = "cascade" => a.found \subseteq Ids /\ a.target \in a.found

ActsSound ==
  \A c \in Callers : /\ act[c].pc \in {"grant", "insert"} => Grants(act[c].grant)
                     /\ act[c].pc \in {"revoke", "cascade"} => Revokes(act[c])

(* What was cut from what a cascade found, it found too.                   *)
Covered ==
  \A c \in Callers : act[c].pc = "cascade" =>
    \A n \in Ids : Mandate(n).parent \in act[c].found => n \in act[c].found \cup late

(* A mandate lies within the one it was cut from.                          *)
Within(n, p) ==
  /\ Rank(n.type) <= Rank(p.type)
  /\ p.scope = "department" => n.scope = "department"
  /\ p.from <= n.from
  /\ n.revoked = Ever => n.until <= p.until /\ n.until <= p.revoked

Cut ==
  \A n \in Ids \ late :
    Mandate(n).parent # NoParent => Within(Mandate(n), Mandate(Mandate(n).parent))

MandateInv == MandatesTyped /\ RowsSound /\ ActsSound /\ Covered /\ Cut

----------------------------------------------------------------------------
(* The mandates: what the operators keep.                                  *)

LEMMA DaysFacts ==
  /\ LastDay \in Nat \ {0} /\ Ever \in Nat /\ Ever = LastDay + 1
  /\ \A d \in Days : d \in Nat /\ d < Ever
  /\ \A k \in Kinds : k.days \in Nat /\ k.days <= LastDay /\ k.mandates \in Nat
                        /\ k.reps \subseteq Users
<1>1. \A k \in Kinds : k.days \in Nat /\ k.mandates \in Nat /\ k.reps \subseteq Users
  BY OrgAssumption
<1> QED  BY <1>1, DayAssumption DEF Ever, Days

(* A row is a row of the register, and the register's rows are typed.      *)
LEMMA RowsOf ==
  ASSUME MandatesTyped
  PROVE  /\ Ids = 1..Len(register) /\ Len(register) \in Nat
         /\ \A m \in Ids : Mandate(m) \in Rows
BY DEF MandatesTyped, Ids, Mandate

(* RevokeMandate's subtree: all that was cut from it, however far down.    *)
LEMMA SubtreeClosed ==
  ASSUME NEW m \in Ids
  PROVE  /\ Subtree(m) \subseteq Ids /\ m \in Subtree(m)
         /\ \A n \in Ids : Mandate(n).parent \in Subtree(m) => n \in Subtree(m)
BY DEF Subtree

(* A cut grant stays within what it is cut from, and is not empty.         *)
LEMMA ClampedWithin ==
  ASSUME NEW g \in Rows, NEW p \in Rows, NEW day \in Days, Fits(g, p, day),
         g.revoked = Ever, p.revoked # Ever => p.revoked <= day
  PROVE  LET c == Clamped(g, p) IN
         /\ c \in Rows /\ c.from < c.until /\ c.revoked = Ever /\ c.parent = g.parent
         /\ Within(c, p)
<1> USE DaysFacts
<1>1. g.from \in Days /\ p.from \in Days /\ g.until \in 1..Ever /\ p.until \in 1..Ever
      /\ p.revoked \in 0..Ever
  BY DEF Rows
<1>2. Latest(g.from, p.from) \in Days /\ p.from <= Latest(g.from, p.from)
  BY <1>1 DEF Latest, Days
<1>3. /\ Earliest(g.until, p.until) \in 1..Ever /\ Earliest(g.until, p.until) <= p.until
      /\ Earliest(g.until, p.until) <= Ever
  BY <1>1 DEF Earliest
<1> DEFINE c == Clamped(g, p)
<1>4. /\ c \in Rows /\ c.from = Latest(g.from, p.from) /\ c.until = Earliest(g.until, p.until)
      /\ c.type = g.type /\ c.scope = g.scope /\ c.parent = g.parent /\ c.revoked = g.revoked
  BY <1>2, <1>3 DEF Clamped, Rows
<1>5. p.revoked = Ever
  BY <1>1 DEF Fits, Status, Days
<1>6. c.from < c.until /\ Rank(c.type) <= Rank(p.type)
      /\ (p.scope = "department" => c.scope = "department")
  BY <1>4 DEF Fits
<1> QED  BY <1>2, <1>3, <1>4, <1>5, <1>6 DEF Within

(* A revocation ends a mandate within its window, and never later.         *)
LEMMA EndedSooner ==
  ASSUME NEW m \in Rows, NEW day \in Days, NEW end \in 1..Ever, Lives(m, day), day < end,
         m.from < m.until
  PROVE  LET e == Ended(m, end, day) IN
         /\ e \in Rows /\ e.parent = m.parent /\ e.type = m.type /\ e.scope = m.scope
         /\ e.from = m.from /\ e.from < e.until /\ e.until <= m.until
         /\ \/ e.revoked = day /\ day < e.until /\ (end = Ever \/ m.from >= end)
            \/ e.revoked = Ever /\ e.until = Earliest(m.until, end) /\ end # Ever /\ m.from < end
<1> USE DaysFacts
<1>1. m.from \in Days /\ m.until \in 1..Ever /\ day \in 0..Ever  BY DEF Rows, Days
<1>2. m.revoked = Ever /\ day < m.until  BY <1>1 DEF Lives, Days
<1>3. CASE end = Ever \/ m.from >= end
  <2>1. Ended(m, end, day) = [m EXCEPT !.revoked = day]  BY <1>3 DEF Ended
  <2> QED  BY <1>1, <1>2, <1>3, <2>1 DEF Rows
<1>4. CASE end # Ever /\ m.from < end
  <2>1. Ended(m, end, day) = [m EXCEPT !.until = Earliest(m.until, end)]
    BY <1>1, <1>4 DEF Ended, Days
  <2>2. Earliest(m.until, end) \in 1..Ever /\ Earliest(m.until, end) <= m.until
        /\ m.from < Earliest(m.until, end)
    BY <1>1, <1>4 DEF Earliest, Days
  <2> QED  BY <1>1, <1>2, <1>4, <2>1, <2>2 DEF Rows
<1> QED  BY <1>1, <1>3, <1>4 DEF Days

----------------------------------------------------------------------------
(* The mandates: what each step keeps.                                     *)

LEMMA RestingTyped ==
  /\ Resting \in ActType /\ Resting.pc = "idle" /\ Resting.end = Ever /\ Resting.target = 0
  /\ Resting.found = {} /\ Resting.rep = FALSE
BY DaysFacts DEF Resting, ActType, Days

(* A step of the requests alone, which only looks at the register.         *)
LEMMA ActStep ==
  ASSUME MandateInv, kind' \in Kinds, reps' \subseteq Users, today' \in Days, today <= today',
         register' = register, late' = late, NEW c \in Callers, NEW a \in ActType,
         act' = [act EXCEPT ![c] = a],
         a.pc \in {"grant", "insert"} => Grants(a.grant),
         a.pc \in {"revoke", "cascade"} => Revokes(a),
         a.pc = "cascade" =>
           \A n \in Ids : Mandate(n).parent \in a.found => n \in a.found \cup late
  PROVE  MandateInv'
<1> USE DEF MandateInv
<1>1. /\ Ids' = Ids /\ \A m : Mandate(m)' = Mandate(m)  BY DEF Ids, Mandate
<1>2. MandatesTyped'  BY <1>1 DEF MandatesTyped
<1>3. act'[c] = a /\ \A x \in Callers \ {c} : act'[x] = act[x]  BY DEF MandatesTyped
<1>4. today \in Nat /\ today' \in Nat  BY DaysFacts DEF MandatesTyped
<1>5. RowsSound'
  <2>1. \A m \in Ids : Mandate(m).revoked \in Nat  BY RowsOf, DaysFacts DEF Rows
  <2> QED  BY <1>1, <1>4, <2>1 DEF RowsSound
<1>6. ActsSound'
  <2>1. \A x \in Callers : act[x].at \in Nat  BY DaysFacts DEF MandatesTyped, ActType
  <2>2. a.at \in Nat  BY DaysFacts DEF ActType
  <2>3. \A x \in Callers \ {c} : act'[x].pc \in {"grant", "insert"} => Grants(act[x].grant)'
    BY <1>3 DEF ActsSound, Grants
  <2>4. act'[c].pc \in {"grant", "insert"} => Grants(act[c].grant)'
    BY <1>3 DEF Grants
  <2>5. \A x \in Callers \ {c} : act'[x].pc \in {"revoke", "cascade"} => Revokes(act[x])'
    BY <1>1, <1>3, <1>4, <2>1 DEF ActsSound, Revokes
  <2>6. act'[c].pc \in {"revoke", "cascade"} => Revokes(act[c])'
    BY <1>1, <1>3, <1>4, <2>2 DEF Revokes
  <2> QED  BY <2>3, <2>4, <2>5, <2>6 DEF ActsSound
<1>7. Covered'  BY <1>1, <1>3 DEF Covered
<1>8. Cut'  BY <1>1 DEF Cut
<1> QED  BY <1>2, <1>5, <1>6, <1>7, <1>8

LEMMA ReadGrantKeeps ==
  ASSUME MandateInv, NEW c \in Callers, ReadGrant(c), UNCHANGED kind
  PROVE  MandateInv'
<1> DEFINE a == act[c]
           g == a.grant
<1>1. a \in ActType /\ Grants(g) /\ kind' \in Kinds /\ reps' \subseteq Users /\ today' \in Days
      /\ today <= today'
  BY DaysFacts DEF MandateInv, ReadGrant, MandatesTyped, ActsSound
<1>2. CASE act' = [act EXCEPT ![c] = Resting]
  <2> QED  BY <1>1, <1>2, RestingTyped, ActStep DEF ReadGrant
<1>3. CASE \E p \in {g.parent} \cup OwnFull(a.by), rep \in BOOLEAN :
             act' = [act EXCEPT ![c].pc = "insert", ![c].rep = rep, ![c].grant.parent = p]
  <2>1. PICK p \in {g.parent} \cup OwnFull(a.by), rep \in BOOLEAN :
               act' = [act EXCEPT ![c].pc = "insert", ![c].rep = rep, ![c].grant.parent = p]
    BY <1>3
  <2> DEFINE h == [g EXCEPT !.parent = p]
             b == [a EXCEPT !.pc = "insert", !.rep = rep, !.grant = h]
  <2>2. p \in 0..Len(register)
    BY <1>1, RowsOf DEF OwnFull, Grants, MandateInv
  <2>3. Grants(h)  BY <1>1, <2>2 DEF Grants, Rows
  <2>4. b \in ActType /\ b.pc = "insert" /\ b.grant = h
    BY <1>1, <2>3 DEF ActType, Grants
  <2>5. act' = [act EXCEPT ![c] = b]  BY <2>1, <1>1
  <2> HIDE DEF h, b
  <2> QED  BY <1>1, <2>3, <2>4, <2>5, ActStep DEF ReadGrant
<1>4. (a.by \in reps) \in BOOLEAN  OBVIOUS
<1> QED  BY <1>2, <1>3, <1>4 DEF ReadGrant

LEMMA LockTargetKeeps ==
  ASSUME MandateInv, NEW c \in Callers, LockTarget(c), UNCHANGED kind
  PROVE  MandateInv'
<1> DEFINE a == act[c]
<1>1. a \in ActType /\ Revokes(a) /\ kind' \in Kinds /\ reps' \subseteq Users /\ today' \in Days
      /\ today <= today'
  BY DaysFacts DEF MandateInv, LockTarget, MandatesTyped, ActsSound
<1>2. CASE act' = [act EXCEPT ![c] = Resting]
  <2> QED  BY <1>1, <1>2, RestingTyped, ActStep DEF LockTarget
<1>3. CASE act' = [act EXCEPT ![c].pc = "cascade", ![c].found = Subtree(a.target)]
  <2> DEFINE b == [a EXCEPT !.pc = "cascade", !.found = Subtree(a.target)]
  <2>1. a.target \in Ids  BY <1>1 DEF Revokes
  <2>2. Subtree(a.target) \subseteq Ids /\ a.target \in Subtree(a.target)
        /\ \A n \in Ids : Mandate(n).parent \in Subtree(a.target) => n \in Subtree(a.target)
    BY <2>1, SubtreeClosed
  <2>3. Ids \subseteq Nat  BY RowsOf DEF MandateInv
  <2>4. /\ b \in ActType /\ b.pc = "cascade" /\ b.found = Subtree(a.target) /\ b.at = a.at
        /\ b.end = a.end /\ b.target = a.target
    BY <1>1, <2>2, <2>3 DEF ActType
  <2>5. act' = [act EXCEPT ![c] = b]  BY <1>3, <1>1
  <2> HIDE DEF b
  <2>6. Revokes(b)  BY <1>1, <2>2, <2>4 DEF Revokes
  <2> QED  BY <1>1, <2>2, <2>4, <2>5, <2>6, ActStep DEF LockTarget
<1> QED  BY <1>2, <1>3 DEF LockTarget

LEMMA AskMandateKeeps ==
  ASSUME MandateInv, NEW c \in Callers, AskMandate(c), UNCHANGED kind
  PROVE  MandateInv'
<1>1. kind \in Kinds /\ kind' \in Kinds /\ reps' \subseteq Users /\ today' \in Days
      /\ today \in Days /\ today <= today'
  BY DaysFacts DEF MandateInv, AskMandate, MandatesTyped
<1>2. PICK u \in Users : AskGrant(c, u) \/ AskRevoke(c, u)  BY DEF AskMandate
<1>3. CASE AskGrant(c, u)
  <2>1. PICK v \in Users, p \in {NoParent} \cup Ids, ask \in kind.grants :
          LET g == Requested(u, v, p, ask) IN
          /\ g.from < g.until
          /\ act' = [act EXCEPT ![c] = [Resting EXCEPT !.pc = "grant", !.by = u, !.at = today,
                                                       !.grant = g]]
    BY <1>3 DEF AskGrant
  <2> DEFINE g == Requested(u, v, p, ask)
             b == [Resting EXCEPT !.pc = "grant", !.by = u, !.at = today, !.grant = g]
  <2>2. ask.type \in Tiers /\ ask.scope \in Scopes
    BY <1>1, OrgAssumption DEF Tiers, Scopes
  <2>3. p \in 0..Len(register)  BY RowsOf DEF NoParent, MandateInv
  <2>4. g \in Rows /\ g.revoked = Ever /\ g.parent = p
    BY <1>1, <2>2, <2>3, DaysFacts DEF Requested, Rows, Days
  <2>5. Grants(g)  BY <2>1, <2>3, <2>4 DEF Grants
  <2> HIDE DEF g
  <2>6. b \in ActType /\ b.pc = "grant" /\ b.grant = g
    BY <1>1, <2>4, RestingTyped DEF ActType, Resting
  <2>7. act' = [act EXCEPT ![c] = b]  BY <2>1 DEF g
  <2> HIDE DEF b
  <2> QED  BY <1>1, <2>5, <2>6, <2>7, ActStep DEF AskMandate
<1>4. CASE AskRevoke(c, u)
  <2>1. PICK m \in Ids, end \in (today + 1)..kind.days \cup {Ever} :
          act' = [act EXCEPT ![c] = [Resting EXCEPT !.pc = "revoke", !.by = u, !.at = today,
                                                    !.target = m, !.end = end]]
    BY <1>4 DEF AskRevoke
  <2> DEFINE b == [Resting EXCEPT !.pc = "revoke", !.by = u, !.at = today, !.target = m,
                                  !.end = end]
  <2>2. end \in 1..Ever /\ today < end /\ today \in Nat
    BY <1>1, <2>1, DaysFacts
  <2>3. m \in Nat  BY RowsOf DEF MandateInv
  <2>4. b \in ActType /\ b.pc = "revoke" /\ b.target = m /\ b.at = today /\ b.end = end
    BY <1>1, <2>2, <2>3, RestingTyped DEF ActType, Resting
  <2>5. act' = [act EXCEPT ![c] = b]  BY <2>1
  <2> HIDE DEF b
  <2>6. Revokes(b)  BY <2>2, <2>4 DEF Revokes
  <2> QED  BY <1>1, <2>4, <2>5, <2>6, ActStep DEF AskMandate
<1> QED  BY <1>2, <1>3, <1>4

LEMMA InsertMandateKeeps ==
  ASSUME MandateInv, NEW c \in Callers, InsertMandate(c), UNCHANGED kind
  PROVE  MandateInv' /\ \A m \in Ids : register'[m] = register[m]
<1> DEFINE a == act[c]
           g == a.grant
           p == Mandate(g.parent)
           row == IF g.parent = NoParent THEN g ELSE Clamped(g, p)
<1>0. PICK N \in Nat \ {0} : N = Len(register) + 1
  BY RowsOf DEF MandateInv
<1>1. /\ a \in ActType /\ Grants(g) /\ kind' \in Kinds /\ reps' \subseteq Users
      /\ today \in Days /\ today' = today /\ today <= today'
      /\ Ids = 1..(N - 1) /\ g \in Rows /\ g.parent \in 0..(N - 1)
  <2>1. a.pc = "insert"  BY DEF InsertMandate
  <2>2. Grants(g)  BY <2>1 DEF MandateInv, ActsSound
  <2> QED  BY <1>0, <2>2, RowsOf, DaysFacts DEF InsertMandate, MandateInv, MandatesTyped, Grants
<1>2. CASE register' = register /\ late' = late
  <2>1. act' = [act EXCEPT ![c] = Resting]  BY DEF InsertMandate
  <2>2. Resting.pc = "idle" /\ Resting \in ActType  BY RestingTyped
  <2>3. \A m \in Ids : register'[m] = register[m]  BY <1>2
  <2>4. today' \in Days  BY <1>1
  <2> HIDE DEF a, g, p, row
  <2>5. MandateInv'  BY <1>1, <1>2, <2>1, <2>2, <2>4, ActStep
  <2> QED  BY <2>3, <2>5
<1>3. CASE ~(register' = register /\ late' = late)
  <2>1. /\ register' = Append(register, row)
        /\ late' = IF \E x \in Callers : /\ act[x].pc = "cascade"
                                         /\ g.parent \in act[x].found \ {act[x].target}
                   THEN late \cup {N} ELSE late
        /\ g.parent # NoParent => Fits(g, p, today)
    BY <1>0, <1>3 DEF InsertMandate
  <2>2. row \in Rows /\ row.from < row.until /\ row.revoked = Ever /\ row.parent = g.parent
        /\ (g.parent # NoParent => Within(row, p))
    <3>1. CASE g.parent = NoParent  BY <1>1, <3>1 DEF Grants
    <3>2. CASE g.parent # NoParent
      <4>1. g.parent \in Ids  BY <1>1, <3>2 DEF NoParent
      <4>2. p \in Rows  BY <4>1, RowsOf DEF MandateInv
      <4>3. p.revoked # Ever => p.revoked <= today  BY <4>1 DEF MandateInv, RowsSound
      <4> QED  BY <1>1, <2>1, <3>2, <4>2, <4>3, ClampedWithin DEF Grants
    <3> QED  BY <3>1, <3>2
  <2> HIDE DEF row
  <2>3. /\ register' \in Seq(Rows) /\ Len(register') = N /\ Ids' = 1..N /\ Ids' = Ids \cup {N}
        /\ Mandate(N)' = row /\ \A m \in Ids : Mandate(m)' = Mandate(m) /\ Mandate(m) \in Rows
        /\ \A m \in Ids : register'[m] = register[m]
    BY <1>0, <1>1, <2>1, <2>2, RowsOf DEF MandateInv, MandatesTyped, Mandate, Ids
  <2>4. act' = [act EXCEPT ![c] = Resting]  BY DEF InsertMandate
  <2>5. act'[c] = Resting /\ \A x \in Callers \ {c} : act'[x] = act[x]
    BY <2>4 DEF MandateInv, MandatesTyped
  <2>6. late \subseteq late' /\ late' \subseteq late \cup {N}  BY <2>1
  <2>7. MandatesTyped'
    <3>1. act' \in [Callers -> ActType]
      BY <2>4, RestingTyped DEF MandateInv, MandatesTyped
    <3>2. late' \subseteq Ids'  BY <2>3, <2>6 DEF MandateInv, MandatesTyped
    <3> QED  BY <1>1, <2>3, <3>1, <3>2 DEF MandatesTyped
  <2>8. RowsSound'
    <3>1. \A m \in Ids : /\ Mandate(m)'.from < Mandate(m)'.until
                         /\ Mandate(m)'.parent \in 0..(m - 1)
                         /\ Mandate(m)'.revoked # Ever =>
                              Mandate(m)'.revoked <= today'
                                /\ Mandate(m)'.revoked < Mandate(m)'.until
      BY <1>1, <2>3 DEF MandateInv, RowsSound
    <3>2. /\ Mandate(N)'.from < Mandate(N)'.until /\ Mandate(N)'.parent \in 0..(N - 1)
          /\ Mandate(N)'.revoked = Ever
      BY <1>1, <2>2, <2>3
    <3> QED  BY <2>3, <3>1, <3>2 DEF RowsSound
  <2>9. ActsSound'
    <3>1. \A x \in Callers \ {c} : act'[x].pc \in {"grant", "insert"} => Grants(act[x].grant)'
      BY <1>0, <1>1, <2>3, <2>5 DEF MandateInv, ActsSound, Grants
    <3>2. \A x \in Callers \ {c} : act'[x].pc \in {"revoke", "cascade"} => Revokes(act[x])'
      BY <1>1, <2>3, <2>5 DEF MandateInv, ActsSound, Revokes
    <3> QED  BY <2>5, <3>1, <3>2, RestingTyped DEF ActsSound
  <2>10. Covered'
    <3> SUFFICES ASSUME NEW x \in Callers \ {c}, act[x].pc = "cascade", NEW n \in Ids',
                        Mandate(n)'.parent \in act[x].found
                 PROVE  n \in act[x].found \cup late'
      BY <2>5, RestingTyped DEF Covered
    <3>1. CASE n \in Ids  BY <2>3, <2>6, <3>1 DEF MandateInv, Covered
    <3>2. CASE n = N
      <4>1. g.parent \in act[x].found  BY <2>2, <2>3, <3>2
      <4>2. act[x].target # g.parent  BY DEF InsertMandate, ParentFree
      <4> QED  BY <2>1, <3>2, <4>1, <4>2
    <3> QED  BY <2>3, <3>1, <3>2
  <2>11. Cut'
    <3> SUFFICES ASSUME NEW n \in Ids' \ late', Mandate(n)'.parent # NoParent
                 PROVE  Within(Mandate(n)', Mandate(Mandate(n).parent)')
      BY DEF Cut
    <3>1. CASE n \in Ids
      <4>1. n \in Ids \ late /\ Mandate(n)' = Mandate(n)  BY <2>3, <2>6, <3>1
      <4>2. Mandate(n).parent \in Ids
        BY <1>1, <4>1 DEF MandateInv, RowsSound, NoParent
      <4>3. Mandate(Mandate(n).parent)' = Mandate(Mandate(n).parent)
        BY <2>3, <4>1, <4>2 DEF Mandate
      <4> QED  BY <4>1, <4>3 DEF MandateInv, Cut
    <3>2. CASE n = N
      <4>1. g.parent \in Ids /\ Mandate(n)'.parent = g.parent
        BY <1>1, <2>2, <2>3, <3>2 DEF NoParent
      <4>2. Mandate(Mandate(n).parent)' = p
        BY <2>3, <4>1 DEF Mandate
      <4> QED  BY <2>2, <2>3, <3>2, <4>1, <4>2
    <3> QED  BY <2>3, <3>1, <3>2
  <2> QED  BY <2>3, <2>7, <2>8, <2>9, <2>10, <2>11 DEF MandateInv
<1> QED  BY <1>2, <1>3

(* What the cascade does to one row.                                       *)
Cascaded(a, m) ==
  IF m \in a.found /\ Lives(Mandate(m), a.at) THEN Ended(Mandate(m), a.end, a.at) ELSE Mandate(m)

LEMMA CascadeKeeps ==
  ASSUME MandateInv, NEW c \in Callers, Cascade(c), UNCHANGED kind
  PROVE  /\ MandateInv'
         /\ \A m \in Ids : /\ register'[m].until <= Mandate(m).until
                           /\ Mandate(m).revoked # Ever => register'[m] = Mandate(m)
<1> USE DaysFacts
<1> DEFINE a == act[c]
<1>1. /\ a \in ActType /\ Revokes(a) /\ a.found \subseteq Ids /\ a.pc = "cascade"
      /\ kind' \in Kinds /\ reps' \subseteq Users /\ today \in Days /\ today' = today
      /\ a.at \in Days /\ a.at <= today /\ a.at < a.end /\ a.end \in 1..Ever
  BY DEF MandateInv, MandatesTyped, Cascade, ActsSound, Revokes, ActType
<1>2. Ids = 1..Len(register) /\ Len(register) \in Nat /\ \A m \in Ids : Mandate(m) \in Rows
  BY RowsOf DEF MandateInv
<1>3. register' = [m \in Ids |-> Cascaded(a, m)]  BY DEF Cascade, Cascaded
<1>4. \A m \in Ids :
        \/ /\ Cascaded(a, m) = Mandate(m)
           /\ m \notin a.found \/ ~Lives(Mandate(m), a.at)
        \/ LET e == Cascaded(a, m) IN
           /\ m \in a.found /\ Lives(Mandate(m), a.at)
           /\ e \in Rows /\ e.parent = Mandate(m).parent /\ e.type = Mandate(m).type
           /\ e.scope = Mandate(m).scope /\ e.from = Mandate(m).from
           /\ e.from < e.until /\ e.until <= Mandate(m).until
           /\ \/ e.revoked = a.at /\ a.at < e.until /\ (a.end = Ever \/ Mandate(m).from >= a.end)
              \/ /\ e.revoked = Ever /\ e.until = Earliest(Mandate(m).until, a.end)
                 /\ a.end # Ever /\ Mandate(m).from < a.end
  <2> SUFFICES ASSUME NEW m \in Ids, m \in a.found, Lives(Mandate(m), a.at)
               PROVE  LET e == Ended(Mandate(m), a.end, a.at) IN
           /\ e \in Rows /\ e.parent = Mandate(m).parent /\ e.type = Mandate(m).type
           /\ e.scope = Mandate(m).scope /\ e.from = Mandate(m).from
           /\ e.from < e.until /\ e.until <= Mandate(m).until
           /\ \/ e.revoked = a.at /\ a.at < e.until /\ (a.end = Ever \/ Mandate(m).from >= a.end)
              \/ /\ e.revoked = Ever /\ e.until = Earliest(Mandate(m).until, a.end)
                 /\ a.end # Ever /\ Mandate(m).from < a.end
    BY DEF Cascaded
  <2>1. Mandate(m) \in Rows /\ Mandate(m).from < Mandate(m).until
    BY <1>2 DEF MandateInv, RowsSound
  <2> QED  BY <1>1, <2>1, EndedSooner
<1>5. /\ register' \in Seq(Rows) /\ Len(register') = Len(register) /\ Ids' = Ids
      /\ \A m \in Ids : Mandate(m)' = Cascaded(a, m) /\ register'[m] = Cascaded(a, m)
  <2>1. \A m \in Ids : Cascaded(a, m) \in Rows  BY <1>2, <1>4
  <2>2. register' \in [1..Len(register) -> Rows]  BY <1>2, <1>3, <2>1
  <2>3. register' \in Seq(Rows) /\ Len(register') = Len(register) /\ DOMAIN register' = Ids
    BY <1>2, <2>2
  <2> QED  BY <1>3, <2>3 DEF Mandate, Ids
<1>6. act'[c] = Resting /\ \A x \in Callers \ {c} : act'[x] = act[x]
  BY DEF MandateInv, MandatesTyped, Cascade
<1>7. late' = late  BY DEF Cascade
<1>8. \A m \in Ids : Cascaded(a, m).parent = Mandate(m).parent  BY <1>4
<1>9. MandatesTyped'
  <2>1. act' \in [Callers -> ActType]
    BY RestingTyped DEF MandateInv, MandatesTyped, Cascade
  <2> QED  BY <1>1, <1>5, <1>7, <2>1 DEF MandatesTyped, MandateInv
<1>10. RowsSound'
  <2> SUFFICES ASSUME NEW m \in Ids
               PROVE  LET e == Cascaded(a, m) IN
                      /\ e.from < e.until /\ e.parent \in 0..(m - 1)
                      /\ e.revoked # Ever => e.revoked <= today /\ e.revoked < e.until
    BY <1>1, <1>5 DEF RowsSound
  <2> QED  BY <1>1, <1>4, <1>8 DEF MandateInv, RowsSound
<1>11. ActsSound'
  <2>1. \A x \in Callers \ {c} : act'[x].pc \in {"grant", "insert"} => Grants(act[x].grant)'
    BY <1>1, <1>5, <1>6 DEF MandateInv, ActsSound, Grants
  <2>2. \A x \in Callers \ {c} : act'[x].pc \in {"revoke", "cascade"} => Revokes(act[x])'
    BY <1>1, <1>5, <1>6 DEF MandateInv, ActsSound, Revokes
  <2> QED  BY <1>6, <2>1, <2>2, RestingTyped DEF ActsSound
<1>12. Covered'
  BY <1>5, <1>6, <1>7, <1>8, RestingTyped DEF MandateInv, Covered
<1>13. Cut'
  <2> SUFFICES ASSUME NEW n \in Ids \ late, Mandate(n).parent # NoParent
               PROVE  Within(Cascaded(a, n), Cascaded(a, Mandate(n).parent))
    <3>1. \A n \in Ids : Mandate(n).parent # NoParent => Mandate(n).parent \in Ids
      BY <1>2 DEF MandateInv, RowsSound, NoParent
    <3>2. \A n \in Ids : Mandate(n).parent # NoParent =>
            Mandate(Mandate(n).parent)' = Cascaded(a, Mandate(n).parent)
      BY <1>5, <1>8, <3>1 DEF Mandate
    <3> QED  BY <1>5, <1>7, <1>8, <3>1, <3>2 DEF Cut
  <2> DEFINE r == Mandate(n)
             q == Mandate(r.parent)
             d == Cascaded(a, n)
             e == Cascaded(a, r.parent)
  <2>1. r.parent \in Ids /\ r \in Rows /\ q \in Rows /\ Within(r, q) /\ r.from < r.until
        /\ (q.revoked # Ever => q.revoked < q.until)
    BY <1>2 DEF MandateInv, RowsSound, Cut, NoParent
  <2>2. r.parent \in a.found => n \in a.found  BY <1>1 DEF MandateInv, Covered
  <2>3. /\ r.from \in Nat /\ q.from \in Nat /\ r.until \in Nat /\ q.until \in Nat
        /\ r.revoked \in Nat /\ q.revoked \in Nat /\ a.at \in Nat /\ a.end \in Nat
        /\ r.revoked <= Ever /\ q.revoked <= Ever /\ r.until <= Ever /\ q.until <= Ever
    BY <1>1, <2>1 DEF Rows, ActType
  <2>4. \/ d = r /\ (n \notin a.found \/ ~Lives(r, a.at))
        \/ /\ n \in a.found /\ Lives(r, a.at)
           /\ d.type = r.type /\ d.scope = r.scope /\ d.from = r.from /\ d.until <= r.until
           /\ d.until \in Nat
           /\ \/ d.revoked = a.at
              \/ /\ d.revoked = Ever /\ d.until = Earliest(r.until, a.end)
                 /\ r.from < a.end /\ a.end # Ever
    BY <1>4 DEF Rows
  <2>5. \/ e = q
        \/ /\ r.parent \in a.found /\ Lives(q, a.at)
           /\ e.type = q.type /\ e.scope = q.scope /\ e.from = q.from
           /\ \/ e.revoked = a.at /\ e.until = q.until /\ (a.end = Ever \/ q.from >= a.end)
              \/ e.revoked = Ever /\ e.until = Earliest(q.until, a.end) /\ a.end # Ever
    <3>1. CASE r.parent \in a.found /\ Lives(q, a.at) /\ (a.end = Ever \/ q.from >= a.end)
      <4>1. e = [q EXCEPT !.revoked = a.at]  BY <3>1 DEF Cascaded, Ended
      <4> QED  BY <2>1, <3>1, <4>1 DEF Rows
    <3>2. CASE r.parent \in a.found /\ Lives(q, a.at) /\ ~(a.end = Ever \/ q.from >= a.end)
      <4>1. e = [q EXCEPT !.until = Earliest(q.until, a.end)]  BY <3>2 DEF Cascaded, Ended
      <4> QED  BY <2>1, <3>2, <4>1 DEF Rows, Lives
    <3>3. CASE ~(r.parent \in a.found /\ Lives(q, a.at))  BY <3>3 DEF Cascaded
    <3> QED  BY <3>1, <3>2, <3>3
  <2>6. /\ Rank(d.type) <= Rank(e.type) /\ (e.scope = "department" => d.scope = "department")
        /\ e.from <= d.from
    BY <2>1, <2>4, <2>5 DEF Within
  <2>7. ASSUME d.revoked = Ever  PROVE d.until <= e.until /\ d.until <= e.revoked
    <3> HIDE DEF d, e, r, q, a
    <3>1. r.revoked = Ever  BY <2>4, <2>7 DEF Lives
    <3>2. r.until <= q.until /\ r.until <= q.revoked /\ d.until <= r.until
      BY <2>1, <2>3, <2>4, <3>1 DEF Within
    <3>3. CASE e = q  BY <2>3, <2>4, <3>2, <3>3 DEF Earliest
    <3>4. CASE e # q
      <4>1. n \in a.found  BY <2>2, <2>5, <3>4
      <4>2. CASE Lives(r, a.at)
        <5>1. /\ d.revoked = Ever /\ d.until = Earliest(r.until, a.end)
              /\ r.from < a.end /\ a.end # Ever
          <6>1. a.at # Ever  BY <1>1, <2>3 DEF Days
          <6>2. d # r => a.at # d.revoked  BY <2>7, <6>1
          <6> QED  BY <2>4, <2>7, <4>1, <4>2, <6>1, <6>2
        <5>2. q.from < a.end  BY <2>1, <2>3, <5>1 DEF Within
        <5> QED  BY <2>3, <2>5, <3>2, <3>4, <5>1, <5>2 DEF Earliest
      <4>3. CASE ~Lives(r, a.at)
        <5>1. d = r /\ r.until <= a.at  BY <2>3, <2>4, <3>1, <4>3 DEF Lives
        <5> QED  BY <1>1, <2>3, <2>5, <3>2, <3>4, <5>1 DEF Earliest
      <4> QED  BY <4>2, <4>3
    <3> QED  BY <3>3, <3>4
  <2> QED  BY <2>6, <2>7 DEF Within
<1>14. \A m \in Ids : /\ register'[m].until <= Mandate(m).until
                      /\ Mandate(m).revoked # Ever => register'[m] = Mandate(m)
  <2>1. \A m \in Ids : Mandate(m).until \in Nat  BY <1>2 DEF Rows
  <2> QED  BY <1>4, <1>5, <2>1 DEF Lives
<1> QED  BY <1>9, <1>10, <1>11, <1>12, <1>13, <1>14 DEF MandateInv

(* Nothing of the mandates moves but the day, or who is a representative.  *)
LEMMA AroundKeeps ==
  ASSUME MandateInv, kind' = kind, reps' \subseteq Users, today' \in Days, today <= today',
         UNCHANGED <<register, act, late>>
  PROVE  MandateInv'
<1>1. Ids' = Ids /\ \A m : Mandate(m)' = Mandate(m)  BY DEF Ids, Mandate
<1>2. MandatesTyped'  BY <1>1 DEF MandateInv, MandatesTyped
<1>3. today \in Nat /\ today' \in Nat  BY DaysFacts DEF MandateInv, MandatesTyped
<1>4. RowsSound'
  <2>1. \A m \in Ids : Mandate(m).revoked \in Nat
    BY RowsOf, DaysFacts DEF Rows, MandateInv
  <2> QED  BY <1>1, <1>3, <2>1 DEF MandateInv, RowsSound
<1>5. ActsSound'
  <2>1. \A c \in Callers : act[c].at \in Nat
    BY DaysFacts DEF MandateInv, MandatesTyped, ActType
  <2>2. \A c \in Callers : Grants(act[c].grant) => Grants(act[c].grant)'  BY DEF Grants
  <2>3. \A c \in Callers : Revokes(act[c]) => Revokes(act[c])'
    BY <1>1, <1>3, <2>1 DEF Revokes
  <2> QED  BY <2>2, <2>3 DEF MandateInv, ActsSound
<1>6. Covered'  BY <1>1 DEF MandateInv, Covered
<1>7. Cut'  BY <1>1 DEF MandateInv, Cut
<1> QED  BY <1>2, <1>4, <1>5, <1>6, <1>7 DEF MandateInv

LEMMA MandateInvInit == MandateInit => MandateInv
<1> SUFFICES ASSUME MandateInit  PROVE MandateInv
  OBVIOUS
<1>1. kind \in Kinds /\ reps = kind.reps  BY DEF MandateInit, Init, OrgInit
<1>2. register \in Seq(Rows) /\ Ids = {} /\ late = {} /\ today = 0
  BY DEF MandateInit, Ids
<1>3. \A c \in Callers : act[c] = Resting  BY DEF MandateInit
<1>4. MandatesTyped
  BY <1>1, <1>2, RestingTyped, DaysFacts DEF MandateInit, MandatesTyped, Days
<1> QED
  BY <1>2, <1>3, <1>4, RestingTyped
     DEF MandateInv, RowsSound, ActsSound, Covered, Cut

(* A step that may end a mandate, and never moves its end later.           *)
EndsSooner ==
  \A m \in Ids : /\ register'[m].until <= Mandate(m).until
                 /\ Mandate(m).revoked # Ever => register'[m] = Mandate(m)

LEMMA MandateInvNext ==
  ASSUME MandateInv, MandateNext, UNCHANGED kind
  PROVE  MandateInv' /\ EndsSooner
<1>1. (\A m \in Ids : register'[m] = register[m]) => EndsSooner
  <2>1. \A m \in Ids : Mandate(m).until \in Nat
    BY RowsOf, DaysFacts DEF Rows, MandateInv
  <2> QED  BY <2>1 DEF EndsSooner, Mandate
<1>2. ASSUME NEW c \in Callers, ReadGrant(c)  PROVE MandateInv' /\ EndsSooner
  BY <1>1, <1>2, ReadGrantKeeps DEF ReadGrant
<1>3. ASSUME NEW c \in Callers, InsertMandate(c)  PROVE MandateInv' /\ EndsSooner
  BY <1>1, <1>3, InsertMandateKeeps
<1>4. ASSUME NEW c \in Callers, LockTarget(c)  PROVE MandateInv' /\ EndsSooner
  BY <1>1, <1>4, LockTargetKeeps DEF LockTarget
<1>5. ASSUME NEW c \in Callers, Cascade(c)  PROVE MandateInv' /\ EndsSooner
  BY <1>5, CascadeKeeps DEF EndsSooner
<1>6. ASSUME NEW c \in Callers, AskMandate(c)  PROVE MandateInv' /\ EndsSooner
  BY <1>1, <1>6, AskMandateKeeps DEF AskMandate
<1>7. CASE DayPasses
  <2>1. today \in Days /\ kind \in Kinds /\ reps \subseteq Users
    BY DEF MandateInv, MandatesTyped
  <2>2. today' \in Days /\ today <= today'
    BY <1>7, <2>1, DaysFacts DEF DayPasses, Days
  <2> QED  BY <1>1, <1>7, <2>1, <2>2, AroundKeeps DEF DayPasses
<1>8. ASSUME NEW u \in Users, RepresentationEnds(u)  PROVE MandateInv' /\ EndsSooner
  <2>1. today \in Days /\ reps \subseteq Users  BY DEF MandateInv, MandatesTyped
  <2>2. today' \in Days /\ today <= today' /\ reps' \subseteq Users
    BY <1>8, <2>1, DaysFacts DEF RepresentationEnds, Days
  <2> QED  BY <1>1, <1>8, <2>2, AroundKeeps DEF RepresentationEnds
<1> QED  BY <1>2, <1>3, <1>4, <1>5, <1>6, <1>7, <1>8 DEF MandateNext

LEMMA MandateInvKept ==
  ASSUME MandateInv, UNCHANGED mandateVars, UNCHANGED kind
  PROVE  MandateInv' /\ EndsSooner
<1>1. today \in Days /\ reps \subseteq Users  BY DEF MandateInv, MandatesTyped
<1>2. today' \in Days /\ today <= today' /\ reps' \subseteq Users
  BY <1>1, DaysFacts DEF mandateVars, Days
<1>3. \A m \in Ids : Mandate(m).until \in Nat
  BY RowsOf, DaysFacts DEF Rows, MandateInv
<1> QED  BY <1>2, <1>3, AroundKeeps DEF mandateVars, EndsSooner, Mandate

(* The mandates' half of the types, and what the invariant is for.         *)
LEMMA MandatesFine ==
  ASSUME MandateInv
  PROVE  /\ DelegatesEndToo /\ RevokedWithinWindow
         /\ DirTypeOK => TypeOK
<1>1. /\ Ids = 1..Len(register) /\ Len(register) \in Nat /\ \A m \in Ids : Mandate(m) \in Rows
      /\ today \in Days /\ today \in Nat
  BY RowsOf, DaysFacts DEF MandateInv, MandatesTyped
<1>2. RevokedWithinWindow  BY DEF MandateInv, RowsSound, RevokedWithinWindow
<1>3. DirTypeOK => TypeOK
  BY <1>1 DEF MandateInv, MandatesTyped, RowsSound, TypeOK, Rows, ActType
<1>4. DelegatesEndToo
  <2> SUFFICES ASSUME NEW m \in Ids \ late, InForce(m), Mandate(m).parent # NoParent
               PROVE  LET p == Mandate(Mandate(m).parent) IN
                      /\ Status(p, today) = "active" /\ Rank(Mandate(m).type) <= Rank(p.type)
                      /\ p.scope = "department" => Mandate(m).scope = "department"
    BY DEF DelegatesEndToo
  <2> DEFINE n == Mandate(m)
             p == Mandate(n.parent)
  <2>1. n.parent \in Ids /\ n \in Rows /\ p \in Rows /\ Within(n, p)
        /\ (n.revoked # Ever => n.revoked <= today)
    BY <1>1 DEF MandateInv, RowsSound, Cut, NoParent
  <2>2. /\ n.from \in Nat /\ n.until \in Nat /\ n.revoked \in Nat
        /\ p.from \in Nat /\ p.until \in Nat /\ p.revoked \in Nat
    BY <2>1, DaysFacts DEF Rows
  <2>3. n.revoked > today /\ n.until > today /\ n.from <= today
    <3> HIDE DEF n
    <3>1. Status(n, today) = "active"  BY DEF InForce, n
    <3> QED  BY <1>1, <2>2, <3>1 DEF Status
  <2>4. n.revoked = Ever  BY <1>1, <2>1, <2>2, <2>3
  <2>5. p.from <= today /\ p.until > today /\ p.revoked > today
    BY <1>1, <2>1, <2>2, <2>3, <2>4 DEF Within
  <2>6. Status(p, today) = "active"
    <3> HIDE DEF p
    <3> QED  BY <1>1, <2>2, <2>5 DEF Status
  <2> QED  BY <2>1, <2>6 DEF Within
<1> QED  BY <1>2, <1>3, <1>4

----------------------------------------------------------------------------
(* The people: a worker's record, and how it moves.                        *)

LEMMA IdleFacts ==
  /\ Idle \in JobType /\ Idle.pc = "idle" /\ Idle.back = "idle" /\ Idle.owned = {}
  /\ Idle.todo = {} /\ Idle.right = FALSE /\ \A w \in Workers : Sound(w, Idle)
BY DEF Idle, JobType, Sound, Policies, OpPcs, ToRole, ToType, Accepting, Approving

LEMMA ToPc ==
  ASSUME NEW j \in JobType, NEW pc \in {"idle"} \cup OpPcs \cup OwnPcs
  PROVE  LET k == [j EXCEPT !.pc = pc] IN
         /\ k \in JobType /\ k.pc = pc /\ k.back = j.back /\ k.user = j.user /\ k.to = j.to
         /\ k.role = j.role /\ k.right = j.right /\ k.id = j.id /\ k.policy = j.policy
         /\ k.account = j.account /\ k.owned = j.owned /\ k.todo = j.todo
         /\ k.people = j.people /\ k.snap = j.snap
BY DEF JobType

(* A call that ends, or a sync that goes on from what it borrowed.         *)
LEMMA AfterFacts ==
  ASSUME NEW w \in Workers, NEW j \in JobType, Sound(w, j), j.pc \in OpPcs,
         NEW how \in {"done", "refused", "error"}
  PROVE  LET k == After(j, how) IN
         /\ k \in JobType /\ Sound(w, k)
         /\ k.pc \in {"idle", "next", "unlink", "link"}
         /\ k.owned \subseteq j.owned
         /\ k.pc = "link" => j.pc = "insert_invite" /\ how = "done" /\ k.user = j.user
<1> DEFINE k == After(j, how)
<1>1. CASE j.back = "idle" \/ how = "error"
  <2>1. k = Idle  BY <1>1 DEF After
  <2> QED  BY <2>1, IdleFacts
<1>2. CASE ~(j.back = "idle" \/ how = "error")
  <2> DEFINE pc == IF how = "done" THEN j.back ELSE "next"
  <2>1. k = [j EXCEPT !.pc = pc]  BY <1>2 DEF After
  <2>2. w \in Syncs /\ SyncSound(j)
    BY <1>2 DEF Sound, Workers, OpPcs
  <2>3. pc \in {"next", "unlink", "link"}  BY <1>2 DEF JobType
  <2>4. /\ k \in JobType /\ k.pc = pc /\ k.back = j.back /\ k.user = j.user
        /\ k.account = j.account /\ k.owned = j.owned /\ k.todo = j.todo /\ k.snap = j.snap
    <3>1. pc \in {"idle"} \cup OpPcs \cup OwnPcs  BY <2>3 DEF OwnPcs
    <3> HIDE DEF pc, k
    <3> QED  BY <2>1, <3>1, ToPc
  <2>5. j.pc \in OpPcs \cap (Changing \cup Removing \cup Inviting)
    BY <2>2 DEF SyncSound, OpPcs, OwnPcs, Changing, Removing, Inviting
  <2>6. how = "done" =>
          /\ pc = "link" <=> j.pc \in Inviting
          /\ pc = "unlink" <=> j.pc \in Removing
          /\ pc = "next" <=> j.pc \in Changing
    BY <2>2, <2>5 DEF SyncSound, OpPcs, Changing, Removing, Inviting
  <2>7. pc # "next" => how = "done"  OBVIOUS
  <2>8. j.pc \in Inviting => j.pc = "insert_invite"
    BY DEF OpPcs, Inviting
  <2> HIDE DEF k, pc
  <2>9. SyncSound(k)
    BY <2>2, <2>3, <2>4, <2>5, <2>6, <2>7
       DEF SyncSound, OpPcs, OwnPcs, Changing, Removing, Inviting
  <2>10. Calls \cap Syncs = {}  BY OrgAssumption
  <2>11. Sound(w, k)
    BY <2>2, <2>3, <2>4, <2>9, <2>10 DEF Sound, ToRole, ToType, Accepting, Approving
  <2> QED  BY <2>3, <2>4, <2>6, <2>7, <2>8, <2>11 DEF k
<1> QED  BY <1>1, <1>2

(* Worker w moves, and with it at most approvals that end.                 *)
Others(w) ==
  \A x \in Workers \ {w} : job'[x] = job[x] \/ (job'[x] = Idle /\ job[x].pc \in Approving)

Moves(w, j) ==
  /\ j \in JobType /\ Sound(w, j)
  /\ job' \in [Workers -> JobType] /\ job'[w] = j /\ Others(w)

(* What it moves to when its call ends, or its sync goes on.               *)
Over(w, j) ==
  /\ j.pc \in {"idle", "next", "unlink", "link"}
  /\ j.owned \subseteq job[w].owned
  /\ j.pc = "link" => job[w].pc = "insert_invite" /\ j.user = job[w].user

LEMMA MovesSound ==
  ASSUME Typed, JobsSound, NEW w \in Workers, NEW j, Moves(w, j)
  PROVE  JobsSound'
<1>1. \A x \in Workers : Sound(x, job'[x])
  BY IdleFacts DEF Moves, Others, JobsSound
<1> QED  BY <1>1 DEF JobsSound

LEMMA OneMoves ==
  ASSUME Typed, NEW w \in Workers, NEW j \in JobType, Sound(w, j), job' = [job EXCEPT ![w] = j]
  PROVE  Moves(w, j)
BY DEF Typed, Moves, Others

LEMMA EndsMoves ==
  ASSUME Typed, JobsSound, NEW w \in Workers, NEW how \in {"done", "refused", "error"},
         job[w].pc \in OpPcs, Ends(w, how)
  PROVE  LET j == After(job[w], how) IN
         /\ Moves(w, j) /\ Over(w, j)
         /\ how = "error" \/ job[w].back = "idle" => j = Idle
         /\ j.pc = "link" => how = "done"
<1> DEFINE j == After(job[w], how)
<1>1. job[w] \in JobType /\ Sound(w, job[w])  BY DEF Typed, JobsSound
<1>2. job' = [job EXCEPT ![w] = j]  BY DEF Ends, Typed
<1>3. /\ j \in JobType /\ Sound(w, j)
      /\ j.pc \in {"idle", "next", "unlink", "link"}
      /\ j.owned \subseteq job[w].owned
      /\ j.pc = "link" => job[w].pc = "insert_invite" /\ how = "done" /\ j.user = job[w].user
  BY <1>1, AfterFacts
<1>4. how = "error" \/ job[w].back = "idle" => j = Idle  BY DEF After
<1> HIDE DEF j
<1>5. Moves(w, j)  BY <1>2, <1>3, OneMoves
<1> QED  BY <1>3, <1>4, <1>5 DEF Over, j

(* Where an invitation goes, the approvals that hold its review end.       *)
LEMMA WithdrawMoves ==
  ASSUME Typed, JobsSound, NEW w \in Workers, NEW u \in Users, job[w].pc \in OpPcs,
         job' = WithoutApprovers(u, w, After(job[w], "done"))
  PROVE  LET j == After(job[w], "done") IN
         /\ Moves(w, j) /\ Over(w, j) /\ \A x \in Approvers(u) : job'[x].pc \notin Approving
<1> DEFINE j == After(job[w], "done")
<1>1. job[w] \in JobType /\ Sound(w, job[w])  BY DEF Typed, JobsSound
<1>2. /\ j \in JobType /\ Sound(w, j)
      /\ j.pc \in {"idle", "next", "unlink", "link"}
      /\ j.owned \subseteq job[w].owned
      /\ j.pc = "link" => job[w].pc = "insert_invite" /\ j.user = job[w].user
  BY <1>1, AfterFacts
<1> HIDE DEF j
<1>3. job' = [x \in Workers |-> IF x = w THEN j ELSE IF x \in Approvers(u) THEN Idle ELSE job[x]]
  BY DEF WithoutApprovers, j
<1>4. job' \in [Workers -> JobType]  BY <1>2, <1>3, IdleFacts DEF Typed
<1>5. Approvers(u) \subseteq Workers /\ \A x \in Approvers(u) : job[x].pc \in Approving
  BY DEF Approvers, Approving
<1>6. job'[w] = j /\ Others(w)  BY <1>3, <1>5 DEF Others
<1>7. \A x \in Approvers(u) : job'[x].pc \notin Approving
  BY <1>2, <1>3, <1>5, IdleFacts DEF Approving
<1> QED  BY <1>2, <1>4, <1>6, <1>7 DEF Moves, Over, j

----------------------------------------------------------------------------
(* The people: steps that leave every invitation and every link in place.  *)

(* Nobody is admitted on a rejected invitation, whose decision stands.     *)
RejectedStep ==
  \A u \in Users : IsInvited(u) /\ invites[u].review = "rejected" =>
    /\ ~IsMember(u) /\ members'[u] # NoOne => members'[u].by # invites[u].id
    /\ invites'[u] # NoOne /\ invites'[u].id = invites[u].id => invites'[u].review = "rejected"

(* The workers know what they did, and hold no more than they did.         *)
QuietJobs ==
  /\ job' \in [Workers -> JobType] /\ JobsSound'
  /\ \A x \in Workers : Knows(job'[x])
  /\ \A s \in Syncs :
       /\ job'[s].owned \subseteq job[s].owned \cup links
       /\ job'[s].pc = "link" => job[s].pc = "link" /\ job'[s].user = job[s].user
       /\ job[s].pc = "link" /\ job'[s].pc # "link" => faults' > 0

(* No membership begins, and each goes on as who gave it gave it.          *)
MembersStay ==
  /\ members' \in [Users -> Memberships \cup {NoOne}]
  /\ \A u \in Users : members'[u] # NoOne => IsMember(u) /\ members'[u].by = members[u].by

(* No invitation begins or goes, and its review goes on as it should.      *)
InvitesStay ==
  /\ invites' \in [Users -> Invitations \cup {NoOne}]
  /\ \A u \in Users : invites'[u] # NoOne <=> IsInvited(u)
  /\ \A u \in Users : IsInvited(u) =>
       /\ invites'[u].id = invites[u].id
       /\ \/ invites'[u].review = invites[u].review
          \/ invites[u].review = "none" /\ u \in mismatch
          \/ /\ invites[u].review = "pending" /\ u \in mismatch
             /\ \A x \in Workers : job'[x].pc \in Approving => job'[x].user # u
       /\ invites[u].review = "rejected" => invites'[u].review = "rejected"
       /\ invites[u].review = "none" => invites'[u].review \in {"none", "pending"}

LEMMA PeopleStep ==
  ASSUME PeopleInv, QuietJobs, MembersStay, InvitesStay, RightsSound', AdminRemains',
         UNCHANGED <<kind, mismatch, nextInvite, taken, links, made, rehired>>,
         policy' \in Policies, audited' \subseteq Users,
         stale \subseteq stale', stale' \subseteq Causes,
         dir' \in [Accounts -> Standing], moves' \in Nat, faults' \in Nat, faults <= faults'
  PROVE  PeopleInv' /\ RejectedStep
<1> USE DEF PeopleInv
<1>1. Typed'  BY DEF Typed, QuietJobs, MembersStay, InvitesStay
<1>2. JobsSound'  BY DEF QuietJobs
<1>3. InvitesSound'
  <2>1. \A u \in Users : IsInvited(u)' =>
          /\ invites'[u].id \in 1..(nextInvite' - 1)
          /\ invites'[u].review # "none" => u \in mismatch'
    BY DEF InvitesSound, InvitesStay, IsInvited
  <2>2. \A u \in Users, n \in Nat : <<u, n>> \in made' => n < nextInvite'
    BY DEF InvitesSound
  <2>3. ASSUME NEW x \in Workers  PROVE Knows(job[x])'
    <3>1. Knows(job'[x])  BY DEF QuietJobs
    <3>2. job'[x].user \in Users => (There(job[x])' <=> There(job'[x]))
      BY DEF There, InvitesStay, IsInvited
    <3>3. CASE job'[x].pc \in Accepting
      <4>1. job'[x].pc \notin Approving  BY <3>3 DEF Accepting, Approving
      <4> QED  BY <3>1, <3>2, <3>3, <4>1 DEF Knows
    <3>4. CASE job'[x].pc \in Approving
      <4>1. job'[x].pc \notin Accepting /\ job'[x].pc \notin {"hold", "admit_settings", "admit"}
        BY <3>4 DEF Accepting, Approving
      <4>2. job'[x].user \in Users /\ There(job'[x]) /\ invites[job'[x].user].review = "pending"
        BY <3>1, <3>4 DEF Knows
      <4>3. invites'[job'[x].user].review = "pending"
        BY <3>4, <4>2 DEF InvitesStay, There
      <4> QED  BY <3>2, <4>1, <4>2, <4>3 DEF Knows
    <3>5. CASE job'[x].pc \notin Accepting \cup Approving
      BY <3>5 DEF Knows, Accepting, Approving
    <3> QED  BY <3>3, <3>4, <3>5
  <2> QED  BY <2>1, <2>2, <2>3 DEF InvitesSound
<1>4. \A u \in Users : FromSync(u)' => FromSync(u)
  BY DEF FromSync, InvitesStay, MembersStay, IsMember, IsInvited
<1>5. \A u \in Users : FromSync(u) /\ (IsMember(u) => members'[u] # NoOne) => FromSync(u)'
  BY DEF FromSync, InvitesStay, MembersStay, IsMember, IsInvited
<1>6. \A u \in Users : Held(u)' => Held(u)
  BY DEF Held, Linked, At, QuietJobs
<1>7. faults' > 0 \/ \A u \in Users : Linked(u) => Linked(u)'
  <2> SUFFICES ASSUME ~(faults' > 0), NEW u \in Users, Linked(u)  PROVE Linked(u)'
    OBVIOUS
  <2>1. CASE \E a \in links : Mailbox[a] = u  BY <2>1 DEF Linked
  <2>2. CASE \E s \in Syncs : At(s, "link") /\ job[s].user = u
    BY <2>2 DEF Linked, At, QuietJobs
  <2> QED  BY <2>1, <2>2 DEF Linked
<1>8. GivenIsOwned'
  <2>1. faults > 0 => faults' > 0  BY DEF Typed
  <2> QED  BY <1>4, <1>7, <2>1 DEF GivenIsOwned
<1>9. HeldSafe'
  <2> SUFFICES ASSUME NEW u \in Users, Held(u)', ~Excused'
               PROVE  /\ IsMember(u)' \/ IsInvited(u)' => FromSync(u)' \/ u \in rehired'
                      /\ ~(IsMember(u)' /\ IsInvited(u)')
    BY DEF HeldSafe
  <2>1. Held(u) /\ ~Excused  BY <1>6 DEF Excused
  <2>2. (IsMember(u)' => IsMember(u)) /\ (IsInvited(u)' <=> IsInvited(u))
    BY DEF MembersStay, InvitesStay, IsMember, IsInvited
  <2>3. ~(IsMember(u) /\ IsInvited(u))  BY <2>1 DEF HeldSafe
  <2>4. IsMember(u)' \/ IsInvited(u)' => (FromSync(u) \/ u \in rehired)
    BY <2>1, <2>2 DEF HeldSafe
  <2>5. IsMember(u)' \/ IsInvited(u)' => (IsMember(u) => members'[u] # NoOne)
    BY <2>2, <2>3 DEF IsMember
  <2> QED  BY <1>5, <2>2, <2>3, <2>4, <2>5
<1>10. RejectedStep  BY DEF RejectedStep, MembersStay, InvitesStay, IsMember
<1> QED  BY <1>1, <1>2, <1>3, <1>8, <1>9, <1>10

(* Memberships that stay as they are, and all that stands on them.         *)
LEMMA RightsKept ==
  ASSUME PeopleInv, UNCHANGED <<members, audited, policy>>, stale \subseteq stale'
  PROVE  RightsSound' /\ AdminRemains' /\ MembersStay
BY DEF PeopleInv, RightsSound, ReviewsFollowPolicy, RightAudited, DuesFollowPolicy, AdminRemains,
       AdminsNow, IsMember, MembersStay, Typed

LEMMA InvitesKept ==
  ASSUME PeopleInv, invites' = invites
  PROVE  InvitesStay
<1>1. \A u \in Users : IsInvited(u) => invites[u].review \in {"none", "pending", "rejected"}
  BY DEF PeopleInv, Typed, Invitations, IsInvited
<1> QED  BY <1>1 DEF InvitesStay, PeopleInv, Typed, IsInvited

(* One worker's move that holds nothing new.                               *)
LEMMA MovesQuietly ==
  ASSUME PeopleInv, NEW w \in Workers, NEW j, Moves(w, j), Knows(j),
         w \in Syncs => /\ job[w].pc # "link" \/ faults' > 0
                        /\ j.pc # "link" /\ j.owned \subseteq job[w].owned \cup links
  PROVE  QuietJobs
<1>1. job' \in [Workers -> JobType] /\ JobsSound'
  BY MovesSound DEF PeopleInv, Moves
<1>2. \A x \in Workers : Knows(job'[x])
  <2>1. Knows(Idle)  BY IdleFacts DEF Knows, Accepting, Approving
  <2> QED  BY <2>1 DEF Moves, Others, PeopleInv, InvitesSound
<1>3. ASSUME NEW s \in Syncs
      PROVE  /\ job'[s].owned \subseteq job[s].owned \cup links
             /\ job'[s].pc = "link" => job[s].pc = "link" /\ job'[s].user = job[s].user
             /\ job[s].pc = "link" /\ job'[s].pc # "link" => faults' > 0
  <2>1. CASE s = w  BY <2>1 DEF Moves
  <2>2. CASE s # w  BY <2>2, IdleFacts DEF Moves, Others, Workers, Approving
  <2> QED  BY <2>1, <2>2
<1> QED  BY <1>1, <1>2, <1>3 DEF QuietJobs

LEMMA EndsQuietly ==
  ASSUME PeopleInv, NEW w \in Workers, NEW how \in {"done", "refused", "error"}, Ends(w, how),
         job[w].pc \in OpPcs, how # "done" \/ job[w].pc # "insert_invite"
  PROVE  QuietJobs
<1> DEFINE j == After(job[w], how)
<1>1. Moves(w, j) /\ Over(w, j) /\ (j.pc = "link" => how = "done")
  BY EndsMoves DEF PeopleInv
<1> HIDE DEF j
<1>2. Knows(j)  BY <1>1 DEF Over, Knows, Accepting, Approving
<1>3. job[w].pc # "link"  BY DEF OpPcs
<1> QED  BY <1>1, <1>2, <1>3, MovesQuietly DEF Over

(* A step of a worker's that invites nobody anew.                          *)
LEMMA QuietStep ==
  ASSUME PeopleInv, NEW w \in Workers, QuietJobs, MembersStay, InvitesStay, RightsSound',
         AdminRemains', UNCHANGED <<kind, mismatch, nextInvite, taken>>,
         policy' \in Policies, audited' \subseteq Users, stale \subseteq stale',
         stale' \subseteq Causes, Remember(w), UNCHANGED <<dir, links, moves, faults>>
  PROVE  PeopleInv' /\ RejectedStep
<1>1. NewInvites = {}  BY DEF NewInvites, InvitesStay, IsInvited
<1>2. UNCHANGED <<made, rehired>>  BY <1>1 DEF Remember
<1>3. dir' \in [Accounts -> Standing] /\ moves' \in Nat /\ faults' \in Nat /\ faults <= faults'
  BY DEF PeopleInv, Typed
<1> QED  BY <1>2, <1>3, PeopleStep

(* Where a worker is says whose it is.                                     *)
LEMMA Places ==
  ASSUME Typed, JobsSound, NEW w \in Workers, job[w].pc # "idle"
  PROVE  /\ w \in Syncs => SyncSound(job[w]) /\ w \notin Calls
         /\ w \in Syncs => job[w].pc \in OwnPcs \cup Changing \cup Removing \cup Inviting
         /\ w \in Calls => job[w].pc \in OpPcs /\ job[w].user \in Users /\ job[w].back = "idle"
         /\ job[w].pc \in OpPcs => job[w].user \in Users
         /\ w \in Calls \/ w \in Syncs
<1>1. Sound(w, job[w]) /\ Calls \cap Syncs = {}  BY OrgAssumption DEF JobsSound
<1>2. w \in Syncs => SyncSound(job[w])  BY <1>1 DEF Sound
<1>3. w \in Syncs /\ job[w].pc \in OpPcs => job[w].user \in Users
  BY <1>2, MailboxAssumption DEF SyncSound, OpPcs
<1> QED  BY <1>1, <1>2, <1>3 DEF Sound, SyncSound, Workers

(* A call goes on to its next statement.                                   *)
LEMMA GoesOn ==
  ASSUME PeopleInv, NEW w \in Workers, job[w].pc \in OpPcs,
         NEW j \in JobType, job' = [job EXCEPT ![w] = j], j.pc \in OpPcs, Knows(j),
         j.user = job[w].user, j.to = job[w].to, j.back = job[w].back,
         j.account = job[w].account, j.owned = job[w].owned, j.todo = job[w].todo,
         j.snap = job[w].snap,
         w \in Syncs => \E S \in {Changing, Removing, Inviting} : job[w].pc \in S /\ j.pc \in S,
         j.pc \in ToRole => j.to \in Roles, j.pc \in ToType => j.to \in Types,
         j.pc \in {"set", "delete"} \cup Accepting \cup Approving => j.role \in Roles,
         j.pc \in {"set", "delete"} /\ j.right => j.role = "member"
  PROVE  Moves(w, j) /\ QuietJobs
<1> USE DEF PeopleInv
<1>1. job[w].pc # "idle" /\ j.pc # "idle" /\ j.pc # "link" /\ job[w].pc # "link"
  BY DEF OpPcs
<1>2. w \in Syncs => SyncSound(job[w]) /\ w \notin Calls  BY <1>1, Places
<1>3. w \in Syncs => SyncSound(j)
  BY <1>2 DEF SyncSound, Changing, Removing, Inviting
<1>4. w \in Calls => job[w].user \in Users /\ job[w].back = "idle" /\ job[w].owned = {}
  BY <1>1 DEF JobsSound, Sound
<1>5. Sound(w, j)  BY <1>1, <1>2, <1>3, <1>4 DEF Sound
<1>6. Moves(w, j)  BY <1>5, OneMoves
<1> QED  BY <1>1, <1>6, MovesQuietly

----------------------------------------------------------------------------
(* The people: memberships and the policy.                                 *)

LEMMA ReadMembershipKeeps ==
  ASSUME PeopleInv, NEW w \in Workers, ReadMembership(w), Remember(w),
         UNCHANGED <<dir, links, moves, faults>>
  PROVE  PeopleInv' /\ RejectedStep
<1> USE DEF PeopleInv
<1> DEFINE u == job[w].user
<1>1. job[w].pc \in {"update", "remove"} /\ job[w].pc \in OpPcs /\ job[w] \in JobType
  BY DEF ReadMembership, At, OpPcs, Typed
<1>2. /\ UNCHANGED <<kind, members, invites, mismatch, policy, nextInvite, taken, audited, stale>>
      /\ policy' \in Policies /\ audited' \subseteq Users /\ stale' \subseteq Causes
  BY DEF ReadMembership, inviteVars, restVars, Typed
<1>3. QuietJobs
  <2>1. CASE IsMember(u)
    <3> DEFINE pc == IF job[w].pc = "update" THEN "set" ELSE "delete"
               j == [job[w] EXCEPT !.pc = pc, !.role = members[u].role, !.right = members[u].right]
    <3>1. u \in Users /\ (w \in Syncs => SyncSound(job[w]))  BY <1>1, Places
    <3>2. members[u].role \in Roles /\ members[u].right \in BOOLEAN
          /\ (members[u].right => members[u].role = "member")
      BY <2>1, <3>1 DEF Typed, Memberships, RightsSound, IsMember
    <3>3. /\ j \in JobType /\ j.pc = pc
          /\ j.role = members[u].role /\ j.right = members[u].right
          /\ j.user = job[w].user /\ j.to = job[w].to /\ j.back = job[w].back
          /\ j.account = job[w].account /\ j.owned = job[w].owned /\ j.todo = job[w].todo
          /\ j.snap = job[w].snap
      <4>1. pc \in OpPcs  BY DEF OpPcs
      <4> HIDE DEF pc
      <4> QED  BY <1>1, <3>2, <4>1 DEF JobType
    <3>4. job' = [job EXCEPT ![w] = j]  BY <2>1 DEF ReadMembership, Typed
    <3> HIDE DEF j
    <3>5. j.pc \in {"set", "delete"} /\ j.pc \in OpPcs /\ Knows(j)
      BY <3>3 DEF OpPcs, Knows, Accepting, Approving
    <3>6. \E S \in {Changing, Removing, Inviting} : job[w].pc \in S /\ j.pc \in S
      BY <1>1, <3>3 DEF Changing, Removing
    <3>7. (j.pc \in ToRole => j.to \in Roles) /\ j.pc \notin ToType
      BY <1>1, <3>3 DEF JobsSound, Sound, ToRole, ToType
    <3> QED  BY <1>1, <3>2, <3>3, <3>4, <3>5, <3>6, <3>7, GoesOn
  <2>2. CASE ~IsMember(u)
    BY <1>1, <2>2, EndsQuietly DEF ReadMembership
  <2> QED  BY <2>1, <2>2
<1> QED  BY <1>2, <1>3, RightsKept, InvitesKept, QuietStep

(* Who counted two admins leaves one.                                      *)
LEMMA AnotherAdmin ==
  ASSUME NEW u, Cardinality(AdminsNow) > 1
  PROVE  AdminsNow \ {u} # {}
<1>1. IsFiniteSet(Users) /\ AdminsNow \subseteq Users  BY OrgAssumption DEF AdminsNow
<1>2. IsFiniteSet(AdminsNow)  BY <1>1, FS_Subset
<1>3. ASSUME AdminsNow \ {u} = {}  PROVE FALSE
  <2>1. AdminsNow \subseteq {u}  BY <1>3
  <2>2. IsFiniteSet({u}) /\ Cardinality({u}) = 1  BY FS_Singleton
  <2>3. Cardinality(AdminsNow) <= 1 /\ Cardinality(AdminsNow) \in Nat
    BY <1>2, <2>1, <2>2, FS_Subset, FS_CardinalityType
  <2> QED  BY <2>3
<1> QED  BY <1>3

LEMMA SetMembershipKeeps ==
  ASSUME PeopleInv, NEW w \in Workers, SetMembership(w), Remember(w),
         UNCHANGED <<dir, links, moves, faults>>
  PROVE  PeopleInv' /\ RejectedStep
<1> USE DEF PeopleInv
<1> DEFINE j == job[w]
           u == j.user
           row == members[u]
<1>1. /\ j.pc = "set" /\ j.pc \in OpPcs /\ j \in JobType /\ u \in Users
      /\ j.to \in Roles /\ j.role \in Roles /\ (j.right => j.role = "member")
  <2>1. j.pc = "set" /\ Sound(w, j)  BY DEF SetMembership, At, JobsSound
  <2>2. u \in Users  BY <2>1, Places DEF OpPcs
  <2> QED  BY <2>1, <2>2 DEF OpPcs, Typed, Sound, ToRole
<1>2. /\ UNCHANGED <<kind, invites, mismatch, policy, nextInvite, taken>> /\ policy' \in Policies
  BY DEF SetMembership, inviteVars, restVars, Typed
<1>3. CASE members' = members /\ audited' = audited /\ stale' = stale
           /\ (Ends(w, "refused") \/ Ends(w, "error"))
  <2>1. QuietJobs  BY <1>1, <1>3, EndsQuietly
  <2>2. audited' \subseteq Users /\ stale' \subseteq Causes  BY <1>3 DEF Typed
  <2> QED  BY <1>2, <1>3, <2>1, <2>2, RightsKept, InvitesKept, QuietStep
<1>4. CASE ~(members' = members /\ audited' = audited /\ stale' = stale
             /\ (Ends(w, "refused") \/ Ends(w, "error")))
  <2>1. /\ j.to = "member" => KeepsAnAdmin(w)
        /\ IsMember(u)
        /\ members' = [members EXCEPT ![u].role = j.to, ![u].right = RightAfter(row, j.to)]
        /\ audited' = IF j.right /\ j.to # j.role THEN audited \ {u} ELSE audited
        /\ stale' = stale \cup (IF row.role # j.role THEN {"role"} ELSE {})
                          \cup (IF row.right # j.right THEN {"right"} ELSE {})
        /\ Ends(w, "done")
    BY <1>4 DEF SetMembership
  <2>2. QuietJobs  BY <1>1, <2>1, EndsQuietly
  <2>3. audited' \subseteq Users /\ stale \subseteq stale' /\ stale' \subseteq Causes
    BY <2>1 DEF Typed, Causes
  <2>4. row \in Memberships /\ row # NoOne  BY <1>1, <2>1 DEF Typed, IsMember
  <2> DEFINE to == RightAfter(row, j.to)
             new == [row EXCEPT !.role = j.to, !.right = to]
  <2>5. to \in BOOLEAN /\ (to <=> row.right /\ j.to = row.role)
    BY <2>4 DEF RightAfter, Memberships
  <2>6. /\ new \in Memberships /\ new.role = j.to /\ new.right = to /\ new.by = row.by
        /\ new.due = row.due /\ new.type = row.type
    <3> HIDE DEF to
    <3> QED  BY <1>1, <2>4, <2>5 DEF Memberships
  <2>7. members' = [members EXCEPT ![u] = new]  BY <1>1, <2>1 DEF Typed
  <2> HIDE DEF new, to
  <2>8. new # NoOne  BY <2>6, OrgAssumption
  <2>9. /\ members'[u] = new /\ \A v \in Users \ {u} : members'[v] = members[v]
        /\ members' \in [Users -> Memberships \cup {NoOne}]
    BY <1>1, <2>6, <2>7 DEF Typed
  <2>10. MembersStay  BY <2>1, <2>6, <2>9 DEF MembersStay, IsMember
  <2>11. \A v \in Users : IsMember(v)' <=> IsMember(v)
    BY <2>1, <2>8, <2>9 DEF IsMember
  <2>12. \A v \in Users : IsMember(v)' /\ members'[v].right => members'[v].role = "member"
    BY <2>1, <2>5, <2>6, <2>9, <2>11 DEF RightsSound
  <2>13. RightAudited'
    <3>1. CASE "right" \in stale \/ row.right # j.right
      BY <2>1, <3>1 DEF RightAudited
    <3>2. CASE "right" \notin stale /\ row.right = j.right
      <4>1. audited = {v \in Users : IsMember(v) /\ members[v].right}
        BY <3>2 DEF RightsSound, ReviewsFollowPolicy, RightAudited
      <4>2. row.right => row.role = "member"  BY <1>1, <2>1 DEF RightsSound
      <4>3. CASE row.right
        <5>1. j.right /\ j.role = row.role  BY <1>1, <3>2, <4>2, <4>3
        <5>2. to <=> j.to = j.role  BY <2>5, <4>3, <5>1
        <5> QED  BY <1>1, <2>1, <2>6, <2>9, <2>11, <4>1, <5>1, <5>2 DEF RightAudited
      <4>4. CASE ~row.right
        <5>1. ~j.right /\ ~to /\ audited' = audited  BY <2>1, <2>5, <3>2, <4>4
        <5> QED  BY <2>6, <2>9, <2>11, <4>1, <4>4, <5>1 DEF RightAudited
      <4> QED  BY <4>3, <4>4
    <3> QED  BY <3>1, <3>2
  <2>14. DuesFollowPolicy'
    BY <1>2, <2>1, <2>3, <2>6, <2>9, <2>11
       DEF DuesFollowPolicy, RightsSound, ReviewsFollowPolicy
  <2>15. AdminRemains'
    <3>1. CASE "role" \in stale \/ row.role # j.role  BY <2>1, <3>1 DEF AdminRemains
    <3>2. CASE "role" \notin stale /\ row.role = j.role
      <4>1. AdminsNow # {}  BY <3>2 DEF AdminRemains
      <4>2. AdminsNow \ {u} \subseteq AdminsNow'
        BY <2>9, <2>11 DEF AdminsNow
      <4>3. CASE j.to = "admin"
        <5>1. u \in AdminsNow'  BY <1>1, <2>1, <2>6, <2>9, <2>11, <4>3 DEF AdminsNow
        <5> QED  BY <5>1 DEF AdminRemains
      <4>4. CASE j.to = "member" /\ j.role = "admin"
        <5>1. Cardinality(AdminsNow) > 1  BY <2>1, <4>4 DEF KeepsAnAdmin
        <5> QED  BY <4>2, <5>1, AnotherAdmin DEF AdminRemains
      <4>5. CASE j.to = "member" /\ j.role = "member"
        <5>1. u \notin AdminsNow  BY <3>2, <4>5 DEF AdminsNow
        <5> QED  BY <4>1, <4>2, <5>1 DEF AdminRemains
      <4> QED  BY <1>1, <4>3, <4>4, <4>5 DEF Roles
    <3> QED  BY <3>1, <3>2
  <2>16. RightsSound'  BY <2>12, <2>13, <2>14 DEF RightsSound, ReviewsFollowPolicy
  <2> QED  BY <1>2, <2>2, <2>3, <2>10, <2>15, <2>16, InvitesKept, QuietStep
<1> QED  BY <1>3, <1>4

LEMMA DeleteMembershipKeeps ==
  ASSUME PeopleInv, NEW w \in Workers, DeleteMembership(w), Remember(w),
         UNCHANGED <<dir, links, moves, faults>>
  PROVE  PeopleInv' /\ RejectedStep
<1> USE DEF PeopleInv
<1> DEFINE j == job[w]
           u == j.user
<1>1. j.pc = "delete" /\ j.pc \in OpPcs /\ u \in Users /\ j.role \in Roles
  <2>1. j.pc = "delete" /\ Sound(w, j)  BY DEF DeleteMembership, At, JobsSound
  <2>2. u \in Users  BY <2>1, Places DEF OpPcs
  <2> QED  BY <2>1, <2>2 DEF OpPcs, Typed, Sound
<1>2. /\ UNCHANGED <<kind, invites, mismatch, policy, nextInvite, taken>> /\ policy' \in Policies
  BY DEF DeleteMembership, inviteVars, restVars, Typed
<1>3. QuietJobs  BY <1>1, EndsQuietly DEF DeleteMembership
<1>4. CASE ~KeepsAnAdmin(w)
  <2>1. members' = members /\ audited' = audited /\ stale' = stale
    BY <1>4 DEF DeleteMembership
  <2>2. audited' \subseteq Users /\ stale' \subseteq Causes  BY <2>1 DEF Typed
  <2> QED  BY <1>2, <1>3, <2>1, <2>2, RightsKept, InvitesKept, QuietStep
<1>5. CASE KeepsAnAdmin(w)
  <2>1. /\ members' = [members EXCEPT ![u] = NoOne]
        /\ audited' = audited \ {u}
        /\ stale' = IF IsMember(u) /\ members[u].role # j.role THEN stale \cup {"role"} ELSE stale
    BY <1>5 DEF DeleteMembership, Stale
  <2>2. audited' \subseteq Users /\ stale \subseteq stale' /\ stale' \subseteq Causes
    BY <2>1 DEF Typed, Causes
  <2>3. /\ members'[u] = NoOne /\ \A v \in Users \ {u} : members'[v] = members[v]
        /\ members' \in [Users -> Memberships \cup {NoOne}]
    BY <1>1, <2>1 DEF Typed
  <2>4. MembersStay  BY <2>3 DEF MembersStay, IsMember
  <2>5. \A v \in Users : IsMember(v)' <=> IsMember(v) /\ v # u
    BY <2>3 DEF IsMember
  <2>6. RightsSound'
    <3>1. RightAudited'
      BY <2>1, <2>3, <2>5 DEF RightAudited, RightsSound, ReviewsFollowPolicy
    <3>2. DuesFollowPolicy'
      BY <1>2, <2>2, <2>3, <2>5 DEF DuesFollowPolicy, RightsSound, ReviewsFollowPolicy
    <3> QED  BY <2>3, <2>5, <3>1, <3>2 DEF RightsSound, ReviewsFollowPolicy
  <2>7. AdminRemains'
    <3>1. CASE "role" \in stale'  BY <3>1 DEF AdminRemains
    <3>2. CASE "role" \notin stale'
      <4>1. AdminsNow # {} /\ (IsMember(u) => members[u].role = j.role)
        BY <2>1, <3>2 DEF AdminRemains
      <4>2. AdminsNow \ {u} \subseteq AdminsNow'
        BY <2>3, <2>5 DEF AdminsNow
      <4>3. CASE j.role = "admin"
        <5>1. Cardinality(AdminsNow) > 1  BY <1>5, <4>3 DEF KeepsAnAdmin
        <5> QED  BY <4>2, <5>1, AnotherAdmin DEF AdminRemains
      <4>4. CASE j.role = "member"
        <5>1. u \notin AdminsNow  BY <4>1, <4>4 DEF AdminsNow
        <5> QED  BY <4>1, <4>2, <5>1 DEF AdminRemains
      <4> QED  BY <1>1, <4>3, <4>4 DEF Roles
    <3> QED  BY <3>1, <3>2
  <2> QED  BY <1>2, <1>3, <2>2, <2>4, <2>6, <2>7, InvitesKept, QuietStep
<1> QED  BY <1>4, <1>5

(* A member's row is written, and neither its role nor who gave it change. *)
RowsWritten ==
  /\ members' \in [Users -> Memberships \cup {NoOne}]
  /\ \A u \in Users : /\ members'[u] # NoOne <=> IsMember(u)
                      /\ IsMember(u) => /\ members'[u].by = members[u].by
                                        /\ members'[u].role = members[u].role

LEMMA WrittenKeeps ==
  ASSUME PeopleInv, RowsWritten, stale \subseteq stale'
  PROVE  MembersStay /\ AdminRemains'
<1>1. MembersStay  BY DEF RowsWritten, MembersStay
<1>2. AdminsNow' = AdminsNow  BY DEF RowsWritten, AdminsNow, IsMember
<1> QED  BY <1>1, <1>2 DEF PeopleInv, AdminRemains

LEMMA SetReviewRightKeeps ==
  ASSUME PeopleInv, NEW w \in Workers, SetReviewRight(w), Remember(w),
         UNCHANGED <<dir, links, moves, faults>>
  PROVE  PeopleInv' /\ RejectedStep
<1> USE DEF PeopleInv
<1> DEFINE j == job[w]
           u == j.user
           right == At(w, "give_right")
<1>1. j.pc \in {"give_right", "take_right"} /\ j.pc \in OpPcs /\ u \in Users
  <2>1. j.pc \in {"give_right", "take_right"}  BY DEF SetReviewRight, At
  <2> QED  BY <2>1, Places DEF OpPcs
<1>2. /\ UNCHANGED <<kind, invites, mismatch, policy, nextInvite, taken, stale>>
      /\ policy' \in Policies /\ stale' \subseteq Causes
  BY DEF SetReviewRight, inviteVars, restVars, Typed
<1>3. QuietJobs  BY <1>1, EndsQuietly DEF SetReviewRight
<1>4. CASE ~(IsMember(u) /\ members[u].role = "member")
  <2>1. members' = members /\ audited' = audited
    BY <1>4 DEF SetReviewRight
  <2>2. audited' \subseteq Users  BY <2>1 DEF Typed
  <2> QED  BY <1>2, <1>3, <2>1, <2>2, RightsKept, InvitesKept, QuietStep
<1>5. CASE IsMember(u) /\ members[u].role = "member"
  <2> DEFINE new == [members[u] EXCEPT !.right = right]
  <2>1. /\ members' = [members EXCEPT ![u] = new]
        /\ audited' = IF right THEN audited \cup {u} ELSE audited \ {u}
    BY <1>1, <1>5 DEF SetReviewRight, Typed
  <2>2. right \in BOOLEAN  BY DEF At
  <2> HIDE DEF right
  <2>3. members[u] \in Memberships  BY <1>1, <1>5 DEF Typed, IsMember
  <2>4. /\ new \in Memberships /\ new.role = members[u].role /\ new.right = right
        /\ new.by = members[u].by /\ new.due = members[u].due /\ new.type = members[u].type
    BY <2>2, <2>3 DEF Memberships
  <2> HIDE DEF new
  <2>5. new # NoOne  BY <2>4, OrgAssumption
  <2>6. /\ members'[u] = new /\ \A v \in Users \ {u} : members'[v] = members[v]
        /\ members' \in [Users -> Memberships \cup {NoOne}]
    BY <1>1, <2>1, <2>4 DEF Typed
  <2>7. RowsWritten  BY <1>5, <2>4, <2>5, <2>6 DEF RowsWritten, IsMember
  <2>8. \A v \in Users : IsMember(v)' <=> IsMember(v)
    BY <2>7 DEF RowsWritten, IsMember
  <2>9. RightsSound'
    <3>1. RightAudited'
      <4>1. CASE "right" \in stale  BY <1>2, <4>1 DEF RightAudited
      <4>2. CASE "right" \notin stale
        <5>1. audited = {v \in Users : IsMember(v) /\ members[v].right}
          BY <4>2 DEF RightsSound, ReviewsFollowPolicy, RightAudited
        <5>2. CASE right
          BY <1>1, <1>5, <2>1, <2>4, <2>6, <2>8, <5>1, <5>2 DEF RightAudited
        <5>3. CASE ~right
          BY <1>1, <1>5, <2>1, <2>4, <2>6, <2>8, <5>1, <5>3 DEF RightAudited
        <5> QED  BY <5>2, <5>3
      <4> QED  BY <4>1, <4>2
    <3>2. DuesFollowPolicy'
      BY <1>2, <2>4, <2>6, <2>8 DEF DuesFollowPolicy, RightsSound, ReviewsFollowPolicy
    <3> QED
      BY <1>5, <2>4, <2>6, <2>8, <3>1, <3>2 DEF RightsSound, ReviewsFollowPolicy
  <2>10. audited' \subseteq Users  BY <1>1, <2>1 DEF Typed
  <2> QED  BY <1>2, <1>3, <2>7, <2>9, <2>10, WrittenKeeps, InvitesKept, QuietStep
<1> QED  BY <1>4, <1>5

LEMMA WriteDueKeeps ==
  ASSUME PeopleInv, NEW w \in Workers, NEW type \in Types, job[w].user \in Users,
         IsMember(job[w].user), WriteDue(w, type), UNCHANGED <<audited, policy>>
  PROVE  RowsWritten /\ RightsSound' /\ stale \subseteq stale' /\ stale' \subseteq Causes
<1> USE DEF PeopleInv
<1> DEFINE u == job[w].user
           due == DueAtFor(job[w].policy, type)
           new == [members[u] EXCEPT !.type = type, !.due = due]
<1>1. /\ members' = [members EXCEPT ![u] = new]
      /\ stale' = IF job[w].policy # policy THEN stale \cup {"settings"} ELSE stale
  BY DEF WriteDue, Stale, Typed
<1>2. job[w].policy \in Policies /\ members[u] \in Memberships
  BY DEF Typed, JobType, IsMember
<1>3. due \in [policy : Policies, type : Types]  BY <1>2 DEF DueAtFor
<1>4. /\ new \in Memberships /\ new.role = members[u].role /\ new.right = members[u].right
      /\ new.by = members[u].by /\ new.due = due /\ new.type = type
  <2> HIDE DEF due
  <2> QED  BY <1>2, <1>3 DEF Memberships
<1>5. new # NoOne  BY <1>4, OrgAssumption
<1> HIDE DEF new
<1>6. /\ members'[u] = new /\ \A v \in Users \ {u} : members'[v] = members[v]
      /\ members' \in [Users -> Memberships \cup {NoOne}]
  BY <1>1, <1>4 DEF Typed
<1>7. RowsWritten  BY <1>4, <1>5, <1>6 DEF RowsWritten, IsMember
<1>8. \A v \in Users : IsMember(v)' <=> IsMember(v)
  BY <1>7 DEF RowsWritten, IsMember
<1>9. stale \subseteq stale' /\ stale' \subseteq Causes  BY <1>1 DEF Typed, Causes
<1>10. RightsSound'
  <2>1. \A v \in Users : members'[v].right = members[v].right \/ ~IsMember(v)
    BY <1>4, <1>6
  <2>2. RightAudited'
    <3>1. {v \in Users : IsMember(v)' /\ members'[v].right}
            = {v \in Users : IsMember(v) /\ members[v].right}
      BY <1>8, <2>1
    <3> QED  BY <1>9, <3>1 DEF RightAudited, RightsSound, ReviewsFollowPolicy
  <2>3. DuesFollowPolicy'
    <3>1. CASE "settings" \in stale'  BY <3>1 DEF DuesFollowPolicy
    <3>2. CASE "settings" \notin stale'
      <4>1. "settings" \notin stale /\ job[w].policy = policy  BY <1>1, <3>2
      <4> QED
        BY <1>4, <1>6, <1>8, <4>1 DEF DuesFollowPolicy, RightsSound, ReviewsFollowPolicy
    <3> QED  BY <3>1, <3>2
  <2> QED
    BY <1>7, <1>8, <2>1, <2>2, <2>3 DEF RowsWritten, RightsSound, ReviewsFollowPolicy
<1> QED  BY <1>7, <1>9, <1>10

LEMMA CompleteReverificationKeeps ==
  ASSUME PeopleInv, NEW w \in Workers, CompleteReverification(w), Remember(w),
         UNCHANGED <<dir, links, moves, faults>>
  PROVE  PeopleInv' /\ RejectedStep
<1> USE DEF PeopleInv
<1> DEFINE u == job[w].user
<1>1. job[w].pc = "verify" /\ job[w].pc \in OpPcs /\ u \in Users
  BY Places DEF CompleteReverification, At, OpPcs
<1>2. /\ UNCHANGED <<kind, invites, mismatch, policy, nextInvite, taken, audited>>
      /\ policy' \in Policies /\ audited' \subseteq Users
  BY DEF CompleteReverification, inviteVars, restVars, Typed
<1>3. QuietJobs  BY <1>1, EndsQuietly DEF CompleteReverification
<1>4. CASE ~IsMember(u)
  <2>1. members' = members /\ stale' = stale /\ stale' \subseteq Causes
    BY <1>4 DEF CompleteReverification, Typed
  <2> QED  BY <1>2, <1>3, <2>1, RightsKept, InvitesKept, QuietStep
<1>5. CASE IsMember(u)
  <2>1. members[u].type \in Types  BY <1>1, <1>5 DEF Typed, Memberships, IsMember
  <2>2. WriteDue(w, members[u].type)  BY <1>5 DEF CompleteReverification
  <2>3. RowsWritten /\ RightsSound' /\ stale \subseteq stale' /\ stale' \subseteq Causes
    BY <1>1, <1>2, <1>5, <2>1, <2>2, WriteDueKeeps
  <2> QED  BY <1>2, <1>3, <2>3, WrittenKeeps, InvitesKept, QuietStep
<1> QED  BY <1>4, <1>5

LEMMA UpdateMemberTypeKeeps ==
  ASSUME PeopleInv, NEW w \in Workers, UpdateMemberType(w), Remember(w),
         UNCHANGED <<dir, links, moves, faults>>
  PROVE  PeopleInv' /\ RejectedStep
<1> USE DEF PeopleInv
<1> DEFINE u == job[w].user
<1>1. job[w].pc = "retype" /\ job[w].pc \in OpPcs /\ u \in Users
  BY Places DEF UpdateMemberType, At, OpPcs
<1>2. /\ UNCHANGED <<kind, invites, mismatch, policy, nextInvite, taken, audited>>
      /\ policy' \in Policies /\ audited' \subseteq Users
  BY DEF UpdateMemberType, inviteVars, restVars, Typed
<1>3. QuietJobs  BY <1>1, EndsQuietly DEF UpdateMemberType
<1>4. CASE ~IsMember(u)
  <2>1. members' = members /\ stale' = stale /\ stale' \subseteq Causes
    BY <1>4 DEF UpdateMemberType, Typed
  <2> QED  BY <1>2, <1>3, <2>1, RightsKept, InvitesKept, QuietStep
<1>5. CASE IsMember(u)
  <2>1. job[w].to \in Types  BY <1>1 DEF JobsSound, Sound, ToType
  <2>2. WriteDue(w, job[w].to)  BY <1>5 DEF UpdateMemberType
  <2>3. RowsWritten /\ RightsSound' /\ stale \subseteq stale' /\ stale' \subseteq Causes
    BY <1>1, <1>2, <1>5, <2>1, <2>2, WriteDueKeeps
  <2> QED  BY <1>2, <1>3, <2>3, WrittenKeeps, InvitesKept, QuietStep
<1> QED  BY <1>4, <1>5

LEMMA SaveIdentitySettingsKeeps ==
  ASSUME PeopleInv, NEW w \in Workers, SaveIdentitySettings(w), Remember(w),
         UNCHANGED <<dir, links, moves, faults>>
  PROVE  PeopleInv' /\ RejectedStep
<1> USE DEF PeopleInv
<1>1. job[w].pc = "policy" /\ job[w].pc \in OpPcs
  BY DEF SaveIdentitySettings, At, OpPcs
<1>2. /\ UNCHANGED <<kind, invites, mismatch, nextInvite, taken, audited, stale>>
      /\ policy' \in Policies /\ audited' \subseteq Users /\ stale' \subseteq Causes
  BY DEF SaveIdentitySettings, inviteVars, Typed
<1>3. QuietJobs  BY <1>1, EndsQuietly DEF SaveIdentitySettings
<1> DEFINE due(u) == DueAtFor(policy', members[u].type)
           new(u) == [members[u] EXCEPT !.due = due(u)]
<1>4. members' = [u \in Users |-> IF IsMember(u) THEN new(u) ELSE NoOne]
  BY DEF SaveIdentitySettings, Recomputed
<1>5. ASSUME NEW u \in Users, IsMember(u)
      PROVE  /\ new(u) \in Memberships /\ new(u).role = members[u].role
             /\ new(u).right = members[u].right /\ new(u).by = members[u].by
             /\ new(u).due = due(u) /\ new(u).type = members[u].type
  <2>1. members[u] \in Memberships  BY <1>5 DEF Typed, IsMember
  <2>2. due(u) \in [policy : Policies, type : Types]
    BY <1>2, <2>1 DEF DueAtFor, Memberships
  <2> HIDE DEF due
  <2> QED  BY <2>1, <2>2 DEF Memberships
<1> HIDE DEF new
<1>6. \A u \in Users : IsMember(u) => new(u) # NoOne  BY <1>5, OrgAssumption
<1>7. /\ members' \in [Users -> Memberships \cup {NoOne}]
      /\ \A u \in Users : members'[u] = IF IsMember(u) THEN new(u) ELSE NoOne
  BY <1>4, <1>5
<1>8. RowsWritten  BY <1>5, <1>6, <1>7 DEF RowsWritten, IsMember
<1>9. \A u \in Users : IsMember(u)' <=> IsMember(u)
  BY <1>8 DEF RowsWritten, IsMember
<1>10. \A u \in Users : IsMember(u) => members'[u].right = members[u].right
  BY <1>5, <1>7
<1>11. RightAudited'
  <2>1. {v \in Users : IsMember(v)' /\ members'[v].right}
          = {v \in Users : IsMember(v) /\ members[v].right}
    BY <1>9, <1>10
  <2> QED  BY <1>2, <2>1 DEF RightAudited, RightsSound, ReviewsFollowPolicy
<1>12. DuesFollowPolicy'
  <2>1. \A u \in Users : IsMember(u) => /\ members'[u].due = due(u)
                                        /\ members'[u].type = members[u].type
    BY <1>5, <1>7
  <2> QED  BY <1>9, <2>1 DEF DuesFollowPolicy
<1>13. RightsSound'
  BY <1>8, <1>9, <1>10, <1>11, <1>12 DEF RowsWritten, RightsSound, ReviewsFollowPolicy
<1> QED  BY <1>2, <1>3, <1>8, <1>13, WrittenKeeps, InvitesKept, QuietStep

LEMMA ReadSettingsKeeps ==
  ASSUME PeopleInv, NEW w \in Workers, ReadSettings(w), Remember(w),
         UNCHANGED <<dir, links, moves, faults>>
  PROVE  PeopleInv' /\ RejectedStep
<1> USE DEF PeopleInv
<1> DEFINE pc == CASE job[w].pc = "admit_settings"   -> "admit"
                   [] job[w].pc = "approve_settings" -> "approve"
                   [] job[w].pc = "verify_settings"  -> "verify"
                   [] job[w].pc = "type_settings"    -> "retype"
           j == [job[w] EXCEPT !.policy = policy, !.pc = pc]
<1>1. /\ job[w].pc \in {"admit_settings", "approve_settings", "verify_settings", "type_settings"}
      /\ job[w].pc \in OpPcs /\ job[w] \in JobType /\ policy \in Policies
  BY DEF ReadSettings, OpPcs, Typed
<1>2. /\ UNCHANGED <<kind, members, invites, mismatch, policy, nextInvite, taken, audited, stale>>
      /\ policy' \in Policies /\ audited' \subseteq Users /\ stale' \subseteq Causes
  BY DEF ReadSettings, inviteVars, restVars, Typed
<1>3. /\ job[w].pc = "admit_settings" <=> pc = "admit"
      /\ job[w].pc = "approve_settings" <=> pc = "approve"
      /\ job[w].pc = "type_settings" <=> pc = "retype"
      /\ pc \in {"admit", "approve", "verify", "retype"} /\ pc \in OpPcs
  BY <1>1 DEF OpPcs
<1>4. job' = [job EXCEPT ![w] = j]  BY DEF ReadSettings, Typed
<1> HIDE DEF pc
<1>5. /\ j \in JobType /\ j.pc = pc /\ j.role = job[w].role /\ j.id = job[w].id
      /\ j.user = job[w].user /\ j.to = job[w].to /\ j.back = job[w].back
      /\ j.account = job[w].account /\ j.owned = job[w].owned /\ j.todo = job[w].todo
      /\ j.snap = job[w].snap
  BY <1>1, <1>3 DEF JobType
<1> HIDE DEF j
<1>6. Knows(job[w])  BY DEF InvitesSound
<1>7. Knows(j)
  BY <1>1, <1>3, <1>5, <1>6 DEF Knows, There, Accepting, Approving
<1>8. Sound(w, job[w])  BY DEF JobsSound
<1>9. /\ j.pc \in ToRole => j.to \in Roles
      /\ j.pc \in ToType => j.to \in Types
      /\ j.pc \in {"set", "delete"} \cup Accepting \cup Approving => j.role \in Roles
      /\ j.pc \notin {"set", "delete"}
  BY <1>1, <1>3, <1>5, <1>8 DEF Sound, ToRole, ToType, Accepting, Approving
<1>10. w \notin Syncs
  BY <1>1, Places DEF OwnPcs, Changing, Removing, Inviting
<1>11. QuietJobs  BY <1>1, <1>3, <1>4, <1>5, <1>7, <1>9, <1>10, GoesOn
<1> QED  BY <1>2, <1>11, RightsKept, InvitesKept, QuietStep

----------------------------------------------------------------------------
(* The people: invitations that stay.                                      *)

(* A statement of a call that only moves the call on.                      *)
LEMMA GoKeeps ==
  ASSUME PeopleInv, NEW w \in Workers, Remember(w), QuietJobs,
         UNCHANGED <<members, audited, stale>>, UNCHANGED inviteVars, UNCHANGED restVars,
         UNCHANGED <<dir, links, moves, faults>>
  PROVE  PeopleInv' /\ RejectedStep
<1>1. /\ UNCHANGED <<kind, members, invites, mismatch, policy, nextInvite, taken, audited, stale>>
      /\ policy' \in Policies /\ audited' \subseteq Users /\ stale' \subseteq Causes
  BY DEF inviteVars, restVars, PeopleInv, Typed
<1> QED  BY <1>1, RightsKept, InvitesKept, QuietStep

LEMMA CheckNotMemberKeeps ==
  ASSUME PeopleInv, NEW w \in Workers, CheckNotMember(w), Remember(w),
         UNCHANGED <<dir, links, moves, faults>>
  PROVE  PeopleInv' /\ RejectedStep
<1> USE DEF PeopleInv
<1>1. job[w].pc = "invite" /\ job[w].pc \in OpPcs /\ job[w] \in JobType /\ Sound(w, job[w])
  BY DEF CheckNotMember, At, OpPcs, Typed, JobsSound
<1>2. QuietJobs
  <2>1. CASE IsMember(job[w].user)
    BY <1>1, <2>1, EndsQuietly DEF CheckNotMember
  <2>2. CASE ~IsMember(job[w].user)
    <3> DEFINE j == [job[w] EXCEPT !.pc = "insert_invite"]
    <3>1. job' = [job EXCEPT ![w] = j]  BY <2>2 DEF CheckNotMember, Go, Typed
    <3>2. /\ j \in JobType /\ j.pc = "insert_invite" /\ j.pc \in OpPcs /\ j.user = job[w].user
          /\ j.to = job[w].to /\ j.back = job[w].back /\ j.account = job[w].account
          /\ j.owned = job[w].owned /\ j.todo = job[w].todo /\ j.snap = job[w].snap
      BY <1>1, ToPc DEF OpPcs
    <3> HIDE DEF j
    <3>3. Knows(j)  BY <3>2 DEF Knows, Accepting, Approving
    <3>4. w \notin Syncs  BY <1>1, Places DEF OwnPcs, Changing, Removing, Inviting
    <3>5. j.to \in Roles /\ j.pc \notin ToType
          /\ j.pc \notin {"set", "delete"} \cup Accepting \cup Approving
      BY <1>1, <3>2 DEF Sound, ToRole, ToType, Accepting, Approving
    <3> QED  BY <1>1, <3>1, <3>2, <3>3, <3>4, <3>5, GoesOn
  <2> QED  BY <2>1, <2>2
<1> QED  BY <1>2, GoKeeps DEF CheckNotMember

LEMMA ReadInvitationKeeps ==
  ASSUME PeopleInv, NEW w \in Workers, ReadInvitation(w), Remember(w),
         UNCHANGED <<dir, links, moves, faults>>
  PROVE  PeopleInv' /\ RejectedStep
<1> USE DEF PeopleInv
<1> DEFINE u == job[w].user
<1>1. job[w].pc = "accept" /\ job[w].pc \in OpPcs /\ job[w] \in JobType
  BY DEF ReadInvitation, At, OpPcs, Typed
<1>2. QuietJobs
  <2>1. CASE ~(IsInvited(u) /\ invites[u].live)
    BY <1>1, <2>1, EndsQuietly DEF ReadInvitation
  <2>2. CASE IsInvited(u) /\ invites[u].live
    <3> DEFINE j == [job[w] EXCEPT !.pc = "resolve", !.id = invites[u].id, !.role = invites[u].role]
    <3>1. job' = [job EXCEPT ![w] = j]  BY <2>2 DEF ReadInvitation, Typed
    <3>2. u \in Users  BY <1>1, Places
    <3>3. invites[u] \in Invitations /\ invites[u].id \in 1..(nextInvite - 1)
      BY <2>2, <3>2 DEF Typed, InvitesSound, IsInvited
    <3>4. invites[u].id \in Nat /\ invites[u].role \in Roles /\ invites[u].id < nextInvite
      BY <3>3 DEF Invitations, Typed
    <3>5. /\ j \in JobType /\ j.pc = "resolve" /\ j.pc \in OpPcs /\ j.user = u
          /\ j.id = invites[u].id /\ j.role \in Roles
          /\ j.to = job[w].to /\ j.back = job[w].back /\ j.account = job[w].account
          /\ j.owned = job[w].owned /\ j.todo = job[w].todo /\ j.snap = job[w].snap
      BY <1>1, <3>4 DEF JobType, OpPcs
    <3> HIDE DEF j
    <3>6. Knows(j)
      BY <2>2, <3>2, <3>4, <3>5 DEF Knows, There, Accepting, Approving
    <3>7. w \notin Syncs  BY <1>1, Places DEF OwnPcs, Changing, Removing, Inviting
    <3>8. j.pc \notin ToRole /\ j.pc \notin ToType /\ j.pc \notin {"set", "delete"}
      BY <3>5 DEF ToRole, ToType
    <3> QED  BY <1>1, <3>1, <3>5, <3>6, <3>7, <3>8, GoesOn
  <2> QED  BY <2>1, <2>2
<1> QED  BY <1>2, GoKeeps DEF ReadInvitation

LEMMA ResolveUserKeeps ==
  ASSUME PeopleInv, NEW w \in Workers, ResolveUser(w), Remember(w),
         UNCHANGED <<dir, links, moves, faults>>
  PROVE  PeopleInv' /\ RejectedStep
<1> USE DEF PeopleInv
<1> DEFINE pc == IF job[w].user \in mismatch THEN "hold" ELSE "admit_settings"
           j == [job[w] EXCEPT !.pc = pc]
<1>1. /\ job[w].pc = "resolve" /\ job[w].pc \in OpPcs /\ job[w] \in JobType
      /\ Sound(w, job[w]) /\ Knows(job[w])
  BY DEF ResolveUser, At, OpPcs, Typed, JobsSound, InvitesSound
<1>2. job' = [job EXCEPT ![w] = j]  BY DEF ResolveUser, Go, Typed
<1>3. /\ pc \in {"hold", "admit_settings"} /\ pc \in OpPcs
      /\ pc = "hold" <=> job[w].user \in mismatch
  BY DEF OpPcs
<1> HIDE DEF pc
<1>4. /\ j \in JobType /\ j.pc = pc /\ j.user = job[w].user /\ j.id = job[w].id
      /\ j.role = job[w].role
      /\ j.to = job[w].to /\ j.back = job[w].back /\ j.account = job[w].account
      /\ j.owned = job[w].owned /\ j.todo = job[w].todo /\ j.snap = job[w].snap
  BY <1>1, <1>3, ToPc
<1> HIDE DEF j
<1>5. Knows(j)
  BY <1>1, <1>3, <1>4 DEF Knows, There, Accepting, Approving
<1>6. w \notin Syncs  BY <1>1, Places DEF OwnPcs, Changing, Removing, Inviting
<1>7. /\ j.pc \notin ToRole /\ j.pc \notin ToType /\ j.pc \notin {"set", "delete"}
      /\ j.role \in Roles
  BY <1>1, <1>3, <1>4 DEF Sound, ToRole, ToType, Accepting
<1>8. QuietJobs  BY <1>1, <1>2, <1>3, <1>4, <1>5, <1>6, <1>7, GoesOn
<1> QED  BY <1>8, GoKeeps DEF ResolveUser

(* One invitation is written, and is still the same.                       *)
LEMMA InvitationWritten ==
  ASSUME PeopleInv, NEW u \in Users, IsInvited(u), NEW new \in Invitations,
         invites' = [invites EXCEPT ![u] = new], new.id = invites[u].id,
         \/ new.review = invites[u].review
         \/ invites[u].review = "none" /\ new.review = "pending" /\ u \in mismatch
         \/ /\ invites[u].review = "pending" /\ new.review = "rejected"
            /\ \A x \in Workers : job'[x].pc \in Approving => job'[x].user # u
  PROVE  InvitesStay
<1> USE DEF PeopleInv
<1>1. /\ invites'[u] = new /\ \A v \in Users \ {u} : invites'[v] = invites[v]
      /\ invites' \in [Users -> Invitations \cup {NoOne}]
  BY DEF Typed
<1>2. new # NoOne  BY OrgAssumption
<1>3. \A v \in Users : IsInvited(v) => invites[v].review \in {"none", "pending", "rejected"}
  BY DEF Typed, Invitations, IsInvited
<1>4. invites[u].review # "none" => u \in mismatch  BY DEF InvitesSound
<1> QED  BY <1>1, <1>2, <1>3, <1>4 DEF InvitesStay, IsInvited

(* A step on invitations alone.                                            *)
LEMMA InviteKeeps ==
  ASSUME PeopleInv, NEW w \in Workers, Remember(w), QuietJobs, InvitesStay,
         UNCHANGED <<members, audited, stale, taken, mismatch, nextInvite>>, UNCHANGED restVars,
         UNCHANGED <<dir, links, moves, faults>>
  PROVE  PeopleInv' /\ RejectedStep
<1>1. /\ UNCHANGED <<kind, members, mismatch, policy, nextInvite, taken, audited, stale>>
      /\ policy' \in Policies /\ audited' \subseteq Users /\ stale' \subseteq Causes
  BY DEF restVars, PeopleInv, Typed
<1> QED  BY <1>1, RightsKept, QuietStep

LEMMA UpdateInvitationKeeps ==
  ASSUME PeopleInv, NEW w \in Workers, UpdateInvitation(w), Remember(w),
         UNCHANGED <<dir, links, moves, faults>>
  PROVE  PeopleInv' /\ RejectedStep
<1> USE DEF PeopleInv
<1> DEFINE u == job[w].user
<1>1. /\ job[w].pc = "set_invite" /\ job[w].pc \in OpPcs /\ u \in Users /\ job[w].to \in Roles
  <2>1. job[w].pc = "set_invite" /\ Sound(w, job[w])
    BY DEF UpdateInvitation, At, JobsSound
  <2> QED  BY <2>1, Places DEF OpPcs, Sound, ToRole
<1>2. QuietJobs  BY <1>1, EndsQuietly DEF UpdateInvitation
<1>3. InvitesStay
  <2>1. CASE IsInvited(u) /\ invites[u].id = job[w].id
    <3> DEFINE new == [invites[u] EXCEPT !.role = job[w].to]
    <3>1. invites[u] \in Invitations  BY <1>1, <2>1 DEF Typed, IsInvited
    <3>2. new \in Invitations /\ new.id = invites[u].id /\ new.review = invites[u].review
      BY <1>1, <3>1 DEF Invitations
    <3>3. invites' = [invites EXCEPT ![u] = new]  BY <2>1 DEF UpdateInvitation, Typed
    <3> HIDE DEF new
    <3> QED  BY <1>1, <2>1, <3>2, <3>3, InvitationWritten
  <2>2. CASE ~(IsInvited(u) /\ invites[u].id = job[w].id)
    BY <2>2, InvitesKept DEF UpdateInvitation
  <2> QED  BY <2>1, <2>2
<1> QED  BY <1>2, <1>3, InviteKeeps DEF UpdateInvitation

LEMMA ResendInvitationKeeps ==
  ASSUME PeopleInv, NEW w \in Workers, ResendInvitation(w), Remember(w),
         UNCHANGED <<dir, links, moves, faults>>
  PROVE  PeopleInv' /\ RejectedStep
<1> USE DEF PeopleInv
<1> DEFINE u == job[w].user
<1>1. job[w].pc = "resend" /\ job[w].pc \in OpPcs /\ u \in Users
  BY Places DEF ResendInvitation, At, OpPcs
<1>2. QuietJobs  BY <1>1, EndsQuietly DEF ResendInvitation
<1>3. InvitesStay
  <2>1. CASE IsInvited(u)
    <3> DEFINE new == [invites[u] EXCEPT !.live = TRUE]
    <3>1. invites[u] \in Invitations  BY <1>1, <2>1 DEF Typed, IsInvited
    <3>2. new \in Invitations /\ new.id = invites[u].id /\ new.review = invites[u].review
      BY <3>1 DEF Invitations
    <3>3. invites' = [invites EXCEPT ![u] = new]  BY <2>1 DEF ResendInvitation, Typed
    <3> HIDE DEF new
    <3> QED  BY <1>1, <2>1, <3>2, <3>3, InvitationWritten
  <2>2. CASE ~IsInvited(u)
    BY <2>2, InvitesKept DEF ResendInvitation
  <2> QED  BY <2>1, <2>2
<1> QED  BY <1>2, <1>3, InviteKeeps DEF ResendInvitation

LEMMA CreateIdentityReviewKeeps ==
  ASSUME PeopleInv, NEW w \in Workers, CreateIdentityReview(w), Remember(w),
         UNCHANGED <<dir, links, moves, faults>>
  PROVE  PeopleInv' /\ RejectedStep
<1> USE DEF PeopleInv
<1> DEFINE u == job[w].user
<1>1. job[w].pc = "hold" /\ job[w].pc \in OpPcs /\ u \in Users /\ Knows(job[w])
  BY Places DEF CreateIdentityReview, At, OpPcs, InvitesSound
<1>2. QuietJobs  BY <1>1, EndsQuietly DEF CreateIdentityReview
<1>3. InvitesStay
  <2>1. CASE IsInvited(u) /\ invites[u].id = job[w].id /\ invites[u].review = "none"
    <3> DEFINE new == [invites[u] EXCEPT !.review = "pending"]
    <3>1. invites[u] \in Invitations  BY <1>1, <2>1 DEF Typed, IsInvited
    <3>2. new \in Invitations /\ new.id = invites[u].id /\ new.review = "pending"
      BY <3>1 DEF Invitations
    <3>3. invites' = [invites EXCEPT ![u] = new]
      BY <2>1 DEF CreateIdentityReview, Typed
    <3>4. u \in mismatch  BY <1>1, <2>1 DEF Knows, There
    <3> HIDE DEF new
    <3> QED  BY <1>1, <2>1, <3>2, <3>3, <3>4, InvitationWritten
  <2>2. CASE ~(IsInvited(u) /\ invites[u].id = job[w].id /\ invites[u].review = "none")
    BY <2>2, InvitesKept DEF CreateIdentityReview
  <2> QED  BY <2>1, <2>2
<1> QED  BY <1>2, <1>3, InviteKeeps DEF CreateIdentityReview

LEMMA LockIdentityReviewKeeps ==
  ASSUME PeopleInv, NEW w \in Workers, LockIdentityReview(w), Remember(w),
         UNCHANGED <<dir, links, moves, faults>>
  PROVE  PeopleInv' /\ RejectedStep
<1> USE DEF PeopleInv
<1> DEFINE u == job[w].user
<1>1. /\ job[w].pc \in {"approve_review", "reject_review"} /\ job[w].pc \in OpPcs /\ u \in Users
      /\ job[w] \in JobType
  <2>1. job[w].pc \in {"approve_review", "reject_review"}  BY DEF LockIdentityReview, At
  <2> QED  BY <2>1, Places DEF OpPcs, Typed
<1>2. \A x \in Workers : job[x].pc \in Approving => job[x].user # u
  BY DEF LockIdentityReview, Approvers, Approving
<1>3. CASE ~IsInvited(u) \/ ~ReviewOpen(u)
  <2>1. Ends(w, "error") /\ invites' = invites  BY <1>3 DEF LockIdentityReview
  <2> QED
    BY <1>1, <2>1, EndsQuietly, InvitesKept, InviteKeeps DEF LockIdentityReview
<1>4. CASE IsInvited(u) /\ ReviewOpen(u) /\ At(w, "reject_review")
  <2> DEFINE new == [invites[u] EXCEPT !.review = "rejected"]
             k == After(job[w], "done")
  <2>1. Ends(w, "done") /\ invites' = [invites EXCEPT ![u] = new]
    BY <1>4 DEF LockIdentityReview, Typed
  <2>2. invites[u] \in Invitations /\ invites[u].review = "pending"
    BY <1>1, <1>4 DEF Typed, IsInvited, ReviewOpen
  <2>3. new \in Invitations /\ new.id = invites[u].id /\ new.review = "rejected"
    BY <2>2 DEF Invitations
  <2> HIDE DEF new
  <2>4. Moves(w, k) /\ Over(w, k)  BY <1>1, <2>1, EndsMoves
  <2>5. \A x \in Workers : job'[x].pc \in Approving => job'[x].user # u
    BY <1>2, <2>4, IdleFacts DEF Moves, Others, Over, Approving
  <2>6. InvitesStay
    BY <1>1, <1>4, <2>1, <2>2, <2>3, <2>5, InvitationWritten
  <2>7. QuietJobs  BY <1>1, <2>1, EndsQuietly
  <2> QED  BY <2>6, <2>7, InviteKeeps DEF LockIdentityReview
<1>5. CASE IsInvited(u) /\ ReviewOpen(u) /\ ~At(w, "reject_review")
  <2> DEFINE j == [job[w] EXCEPT !.pc = "approve_settings", !.id = invites[u].id,
                                 !.role = invites[u].role]
  <2>1. job' = [job EXCEPT ![w] = j] /\ invites' = invites
    BY <1>5 DEF LockIdentityReview, Typed
  <2>2. invites[u] \in Invitations /\ invites[u].review = "pending"
    BY <1>1, <1>5 DEF Typed, IsInvited, ReviewOpen
  <2>3. invites[u].id \in Nat /\ invites[u].role \in Roles
    BY <2>2 DEF Invitations
  <2>4. /\ j \in JobType /\ j.pc = "approve_settings" /\ j.pc \in OpPcs /\ j.user = u
        /\ j.id = invites[u].id /\ j.role \in Roles
        /\ j.to = job[w].to /\ j.back = job[w].back /\ j.account = job[w].account
        /\ j.owned = job[w].owned /\ j.todo = job[w].todo /\ j.snap = job[w].snap
    BY <1>1, <2>3 DEF JobType, OpPcs
  <2> HIDE DEF j
  <2>5. Knows(j)
    BY <1>1, <1>5, <2>2, <2>4 DEF Knows, There, Accepting, Approving
  <2>6. w \notin Syncs  BY <1>1, Places DEF OwnPcs, Changing, Removing, Inviting
  <2>7. j.pc \notin ToRole /\ j.pc \notin ToType /\ j.pc \notin {"set", "delete"}
    BY <2>4 DEF ToRole, ToType
  <2>8. QuietJobs  BY <1>1, <2>1, <2>4, <2>5, <2>6, <2>7, GoesOn
  <2> QED  BY <2>1, <2>8, InvitesKept, InviteKeeps DEF LockIdentityReview
<1> QED  BY <1>3, <1>4, <1>5

----------------------------------------------------------------------------
(* The people: invitations that begin and go.                              *)

LEMMA CreateInvitationKeeps ==
  ASSUME PeopleInv, NEW w \in Workers, CreateInvitation(w), Remember(w),
         UNCHANGED <<dir, links, moves, faults>>
  PROVE  PeopleInv' /\ RejectedStep
<1> USE DEF PeopleInv
<1>0. PICK u : u = job[w].user  OBVIOUS
<1> DEFINE new == Invitation(nextInvite, job[w].to)
           j == After(job[w], "done")
<1>1. /\ job[w].pc = "insert_invite" /\ job[w].pc \in OpPcs /\ u \in Users
      /\ job[w].to \in Roles /\ job[w] \in JobType
  <2>1. job[w].pc = "insert_invite" /\ Sound(w, job[w])
    BY DEF CreateInvitation, At, JobsSound
  <2> QED  BY <1>0, <2>1, Places DEF OpPcs, Sound, ToRole, Typed
<1>2. /\ UNCHANGED <<kind, members, audited, taken, mismatch, policy, dir, links, moves, faults>>
  BY DEF CreateInvitation, restVars
<1>3. CASE IsInvited(u)
  <2>1. Ends(w, "refused") /\ UNCHANGED <<invites, nextInvite, stale>>
    BY <1>0, <1>3 DEF CreateInvitation
  <2>2. QuietJobs  BY <1>1, <2>1, EndsQuietly
  <2> QED  BY <2>1, <2>2, InvitesKept, InviteKeeps DEF CreateInvitation
<1>4. CASE ~IsInvited(u)
  <2>1. /\ invites' = [invites EXCEPT ![u] = new] /\ nextInvite' = nextInvite + 1
        /\ stale' = (IF IsMember(u) THEN stale \cup {"address"} ELSE stale)
        /\ Ends(w, "done")
    BY <1>0, <1>4 DEF CreateInvitation, Stale
  <2>2. new \in Invitations /\ new # NoOne /\ new.id = nextInvite /\ new.review = "none"
    <3>1. new \in Invitations /\ new.id = nextInvite /\ new.review = "none"
      <4> DEFINE to == job[w].to
      <4>1. to \in Roles /\ nextInvite \in Nat  BY <1>1 DEF Typed
      <4> HIDE DEF to
      <4>2. Invitation(nextInvite, to) \in Invitations
        BY <4>1 DEF Invitation, Invitations
      <4> QED  BY <4>2 DEF Invitation, to
    <3> QED  BY <3>1, OrgAssumption
  <2> HIDE DEF new
  <2>3. Moves(w, j) /\ Over(w, j)  BY <1>1, <2>1, EndsMoves
  <2> HIDE DEF j
  <2>4. /\ invites'[u] = new /\ \A v \in Users \ {u} : invites'[v] = invites[v]
        /\ invites' \in [Users -> Invitations \cup {NoOne}]
    BY <1>1, <2>1, <2>2 DEF Typed
  <2>5. /\ IsInvited(u)' /\ \A v \in Users \ {u} : IsInvited(v)' <=> IsInvited(v)
        /\ \A v \in Users : IsMember(v)' <=> IsMember(v)
    BY <1>2, <2>2, <2>4 DEF IsInvited, IsMember
  <2>6. NewInvites = {u}  BY <1>1, <1>4, <2>2, <2>4 DEF NewInvites, IsInvited
  <2>7. /\ w \in Syncs => made' = made \cup {<<u, nextInvite>>}
        /\ w \notin Syncs => made' = made
        /\ w \in Calls => rehired' = rehired \cup {v \in {u} : Held(v)}
        /\ w \notin Calls => rehired' = rehired
    <3>1. {<<v, invites'[v].id>> : v \in {u}} = {<<u, nextInvite>>}
      BY <2>2, <2>4
    <3> QED  BY <2>6, <3>1 DEF Remember
  <2>8. \A v \in Users, n \in Nat : <<v, n>> \in made' => <<v, n>> \in made \/ (v = u /\ n = nextInvite)
    BY <2>7
  <2>9. made \subseteq made' /\ rehired \subseteq rehired'  BY <2>7
  <2>10. nextInvite \in Nat /\ nextInvite > 0  BY DEF Typed
  <2>11. stale \subseteq stale' /\ stale' \subseteq Causes  BY <2>1 DEF Typed, Causes
  <2>12. Typed'
    BY <1>2, <2>1, <2>3, <2>4, <2>10, <2>11 DEF Typed, Moves
  <2>13. JobsSound'  BY <2>3, MovesSound
  <2>14. RightsSound' /\ AdminRemains'  BY <1>2, <2>11, RightsKept
  <2>15. InvitesSound'
    <3>1. \A v \in Users : IsInvited(v)' =>
            /\ invites'[v].id \in 1..(nextInvite' - 1)
            /\ invites'[v].review # "none" => v \in mismatch'
      BY <1>2, <2>1, <2>2, <2>4, <2>5, <2>10 DEF InvitesSound
    <3>2. \A v \in Users, n \in Nat : <<v, n>> \in made' => n < nextInvite'
      BY <2>1, <2>8, <2>10 DEF InvitesSound
    <3>3. ASSUME NEW x \in Workers  PROVE Knows(job[x])'
      <4>1. CASE job'[x].pc \notin Accepting \cup Approving
        BY <4>1 DEF Knows, Accepting, Approving
      <4>2. CASE job'[x].pc \in Accepting \cup Approving
        <5>1. x # w  BY <2>3, <4>2 DEF Moves, Over, Accepting, Approving
        <5>2. job'[x] = job[x]
          BY <2>3, <4>2, <5>1, IdleFacts DEF Moves, Others, Accepting, Approving
        <5>3. Knows(job[x])  BY DEF InvitesSound
        <5>4. CASE job[x].user # u
          <6>2. job[x].user \in Users  BY <4>2, <5>2, <5>3 DEF Knows
          <6>3. There(job[x])' <=> There(job[x])
            BY <2>4, <2>5, <5>2, <5>4, <6>2 DEF There
          <6>4. job[x].id \in Nat  BY DEF Typed, JobType
          <6>5. job[x].id < nextInvite => job[x].id < nextInvite'
            BY <2>1, <2>10, <6>4
          <6>6. invites'[job[x].user] = invites[job[x].user]  BY <2>4, <5>4, <6>2
          <6> QED  BY <1>2, <5>2, <5>3, <6>3, <6>5, <6>6 DEF Knows
        <5>5. CASE job[x].user = u
          <6>1. ~There(job[x])  BY <1>4, <5>5 DEF There
          <6>2. job[x].pc \in Accepting /\ job[x].pc \notin Approving
            BY <4>2, <5>2, <5>3, <6>1 DEF Knows
          <6>3. job[x].id < nextInvite /\ <<u, job[x].id>> \in taken
            BY <5>3, <5>5, <6>1, <6>2 DEF Knows
          <6>4. job[x].id \in Nat  BY DEF Typed, JobType
          <6>5. job[x].id # new.id  BY <2>2, <2>10, <6>3, <6>4
          <6>6. ~There(job[x])'  BY <2>4, <5>2, <5>5, <6>5 DEF There
          <6>7. job[x].id < nextInvite'  BY <2>1, <2>10, <6>3, <6>4
          <6> QED
            BY <1>1, <1>2, <5>2, <5>3, <5>5, <6>2, <6>3, <6>6, <6>7 DEF Knows
        <5> QED  BY <5>4, <5>5
      <4> QED  BY <4>1, <4>2
    <3> QED  BY <3>1, <3>2, <3>3 DEF InvitesSound
  <2>16. \A v \in Users \ {u} : FromSync(v)' <=> FromSync(v)
    <3> SUFFICES ASSUME NEW v \in Users \ {u}  PROVE FromSync(v)' <=> FromSync(v)
      OBVIOUS
    <3>1. \A n : <<v, n>> \in made' <=> <<v, n>> \in made  BY <2>7
    <3> QED  BY <1>2, <2>4, <2>5, <3>1 DEF FromSync
  <2>17. job[w].pc # "link"  BY <1>1
  <2>18. \A v \in Users : Linked(v) => Linked(v)'
    BY <1>2, <2>3, <2>17, IdleFacts DEF Linked, At, Moves, Others, Workers, Approving
  <2>19. \A v \in Users \ {u} : Held(v)' => Held(v)
    <3> SUFFICES ASSUME NEW v \in Users \ {u}, Held(v)'  PROVE Held(v)
      OBVIOUS
    <3>1. CASE \E a \in links : Mailbox[a] = v  BY <3>1 DEF Held, Linked
    <3>2. CASE \E s \in Syncs : job'[s].pc = "link" /\ job'[s].user = v
      <4>1. PICK s \in Syncs : job'[s].pc = "link" /\ job'[s].user = v  BY <3>2
      <4>2. s # w  BY <1>0, <2>3, <4>1 DEF Moves, Over
      <4>3. job'[s] = job[s]
        BY <2>3, <4>1, <4>2, IdleFacts DEF Moves, Others, Workers
      <4> QED  BY <4>1, <4>3 DEF Held, Linked, At
    <3>3. CASE \E s \in Syncs : \E a \in job'[s].owned : Mailbox[a] = v
      <4>1. PICK s \in Syncs, a \in Accounts : a \in job'[s].owned /\ Mailbox[a] = v
        BY <2>12, <3>3 DEF Typed, JobType, Workers
      <4>2. a \in job[s].owned
        BY <2>3, <4>1, IdleFacts DEF Moves, Over, Others, Workers
      <4> QED  BY <4>1, <4>2 DEF Held
    <3> QED  BY <1>2, <3>1, <3>2, <3>3 DEF Held, Linked, At
  <2>20. w \in Calls => (Held(u)' => Held(u))
    <3> SUFFICES ASSUME w \in Calls, Held(u)'  PROVE Held(u)
      OBVIOUS
    <3>1. w \notin Syncs  BY OrgAssumption
    <3>2. \A s \in Syncs : job'[s] = job[s] \/ job'[s] = Idle
      BY <2>3, <3>1 DEF Moves, Others, Workers
    <3>3. \A s \in Syncs : /\ job'[s].pc = "link" => job[s].pc = "link" /\ job'[s].user = job[s].user
                           /\ job'[s].owned \subseteq job[s].owned
      BY <3>2, IdleFacts
    <3> QED  BY <1>2, <3>3 DEF Held, Linked, At
  <2>21. w \in Syncs => FromSync(u)'
    BY <2>2, <2>4, <2>5, <2>7 DEF FromSync
  <2>22. w \in Syncs => Linked(u)'
    <3> SUFFICES ASSUME w \in Syncs  PROVE Linked(u)'
      OBVIOUS
    <3>1. SyncSound(job[w])  BY <1>1, Places
    <3>2. job[w].back = "link"  BY <1>1, <3>1 DEF SyncSound, Inviting
    <3>3. j.pc = "link" /\ j.user = u
      BY <1>0, <1>1, <3>2, ToPc DEF After, j, OwnPcs
    <3> QED  BY <2>3, <3>3 DEF Moves, Linked, At
  <2>23. w \in Syncs \/ w \in Calls  BY DEF Workers
  <2>24. \A v \in Users : IsMember(v) => members[v].by \in Nat
    BY DEF Typed, Memberships, IsMember
  <2>25. GivenIsOwned'
    <3>1. CASE faults > 0 \/ stale \cap {"invitation", "address", "link"} # {}
      BY <1>2, <2>11, <3>1 DEF GivenIsOwned
    <3>2. CASE \A v \in Users : FromSync(v) => Linked(v)
      <4>1. \A v \in Users \ {u} : FromSync(v)' => Linked(v)'  BY <2>16, <2>18, <3>2
      <4>2. CASE w \in Syncs  BY <2>22, <4>1, <4>2 DEF GivenIsOwned
      <4>3. CASE w \notin Syncs
        <5>1. <<u, nextInvite>> \notin made
          BY <1>1, <2>10 DEF InvitesSound
        <5>2. FromSync(u)' => FromSync(u)
          <6>1. made' = made /\ invites'[u].id = nextInvite  BY <2>2, <2>4, <2>7, <4>3
          <6>2. <<u, invites'[u].id>> \notin made'  BY <5>1, <6>1
          <6> QED  BY <1>1, <1>2, <2>5, <6>1, <6>2 DEF FromSync
        <5>3. FromSync(u)' => Linked(u)'  BY <1>1, <2>18, <3>2, <5>2
        <5> QED  BY <4>1, <5>3 DEF GivenIsOwned
      <4> QED  BY <4>2, <4>3
    <3> QED  BY <3>1, <3>2 DEF GivenIsOwned
  <2>26. HeldSafe'
    <3> SUFFICES ASSUME NEW v \in Users, Held(v)', ~Excused'
                 PROVE  /\ IsMember(v)' \/ IsInvited(v)' => FromSync(v)' \/ v \in rehired'
                        /\ ~(IsMember(v)' /\ IsInvited(v)')
      BY DEF HeldSafe
    <3>1. ~Excused  BY <2>11 DEF Excused
    <3>2. CASE v # u
      <4>1. Held(v)  BY <2>19, <3>2
      <4> QED  BY <2>5, <2>9, <2>16, <3>1, <3>2, <4>1 DEF HeldSafe
    <3>3. CASE v = u
      <4>1. ~IsMember(u)  BY <2>1, <3>3 DEF Excused
      <4>2. FromSync(u)' \/ u \in rehired'
        BY <2>7, <2>20, <2>21, <2>23, <3>3
      <4> QED  BY <2>5, <3>3, <4>1, <4>2
    <3> QED  BY <3>2, <3>3
  <2>27. RejectedStep
    BY <1>2, <1>4, <2>4, <2>5 DEF RejectedStep, IsMember
  <2> QED  BY <2>12, <2>13, <2>14, <2>15, <2>25, <2>26, <2>27
<1> QED  BY <1>3, <1>4

(* The invitation of u goes with its review: it is taken back, or it       *)
(* admits u, as what it was.                                               *)
LEMMA WithdrawStep ==
  ASSUME PeopleInv, NEW w \in Workers, NEW u \in Users, IsInvited(u), Withdraw(u),
         job[w].pc \in OpPcs \ {"insert_invite"},
         job' = WithoutApprovers(u, w, After(job[w], "done")),
         members' \in [Users -> Memberships \cup {NoOne}],
         \A v \in Users \ {u} : members'[v] = members[v],
         \/ members'[u] = members[u]
         \/ /\ ~IsMember(u) /\ members'[u] # NoOne /\ members'[u].by = invites[u].id
            /\ invites[u].review # "rejected",
         mismatch' = mismatch \/ mismatch' = mismatch \ {u},
         RightsSound', AdminRemains', stale \subseteq stale', stale' \subseteq Causes,
         Remember(w), UNCHANGED <<kind, policy, audited, nextInvite>>,
         UNCHANGED <<dir, links, moves, faults>>
  PROVE  PeopleInv' /\ RejectedStep
<1> USE DEF PeopleInv
<1> DEFINE j == After(job[w], "done")
<1>1. Moves(w, j) /\ Over(w, j) /\ \A x \in Approvers(u) : job'[x].pc \notin Approving
  BY WithdrawMoves
<1> HIDE DEF j
<1>2. /\ invites'[u] = NoOne /\ \A v \in Users \ {u} : invites'[v] = invites[v]
      /\ invites' \in [Users -> Invitations \cup {NoOne}]
      /\ taken' = taken \cup {<<u, invites[u].id>>}
  BY DEF Withdraw, Typed
<1>3. \A v \in Users : IsInvited(v)' <=> IsInvited(v) /\ v # u
  BY <1>2 DEF IsInvited
<1>4. UNCHANGED <<made, rehired>>
  <2>1. NewInvites = {}  BY <1>2 DEF NewInvites, IsInvited
  <2> QED  BY <2>1 DEF Remember
<1>5. \A x \in Workers : /\ job'[x] = job[x] \/ job'[x].pc \notin Accepting \cup Approving
                         /\ job'[x] = job[x] /\ job[x].user = u => job[x].pc \notin Approving
  <2>1. \A x \in Workers : job'[x] = job[x] \/ job'[x].pc \notin Accepting \cup Approving
    BY <1>1, IdleFacts DEF Moves, Over, Others, Accepting, Approving
  <2>2. ASSUME NEW x \in Workers, job'[x] = job[x], job[x].user = u, job[x].pc \in Approving
        PROVE  FALSE
    <3>1. x \in Approvers(u)  BY <2>2 DEF Approvers, Approving
    <3> QED  BY <1>1, <2>2, <3>1
  <2> QED  BY <2>1, <2>2
<1>6. Typed'  BY <1>1, <1>2 DEF Typed, Moves
<1>7. JobsSound'  BY <1>1, MovesSound
<1>8. InvitesSound'
  <2>1. \A v \in Users : IsInvited(v)' =>
          /\ invites'[v].id \in 1..(nextInvite' - 1)
          /\ invites'[v].review # "none" => v \in mismatch'
    BY <1>2, <1>3 DEF InvitesSound
  <2>2. \A v \in Users, n \in Nat : <<v, n>> \in made' => n < nextInvite'
    BY <1>4 DEF InvitesSound
  <2>3. ASSUME NEW x \in Workers  PROVE Knows(job[x])'
    <3>1. CASE job'[x].pc \notin Accepting \cup Approving
      BY <3>1 DEF Knows, Accepting, Approving
    <3>2. CASE job'[x].pc \in Accepting \cup Approving
      <4>1. job'[x] = job[x] /\ (job[x].user = u => job[x].pc \notin Approving)
        BY <1>5, <3>2
      <4>2. Knows(job[x])  BY DEF InvitesSound
      <4>3. job[x].user \in Users  BY <3>2, <4>1, <4>2 DEF Knows
      <4>4. CASE job[x].user # u
        <5>1. There(job[x])' <=> There(job[x])
          BY <1>2, <1>3, <4>1, <4>3, <4>4 DEF There
        <5>2. invites'[job[x].user] = invites[job[x].user]  BY <1>2, <4>3, <4>4
        <5>3. job[x].user \in mismatch' <=> job[x].user \in mismatch  BY <4>4
        <5> QED  BY <1>2, <4>1, <4>2, <5>1, <5>2, <5>3 DEF Knows
      <4>5. CASE job[x].user = u
        <5>1. job[x].pc \in Accepting /\ job[x].pc \notin Approving  BY <3>2, <4>1, <4>5
        <5>2. ~There(job[x])'  BY <1>2, <4>1, <4>5 DEF There, IsInvited
        <5>3. There(job[x]) => <<job[x].user, job[x].id>> \in taken'
          <6>1. There(job[x]) => invites[u].id = job[x].id  BY <4>5 DEF There
          <6> QED  BY <1>2, <4>5, <6>1
        <5>4. u \notin mismatch => u \notin mismatch'  OBVIOUS
        <5> QED  BY <1>2, <4>1, <4>2, <4>5, <5>1, <5>2, <5>3, <5>4 DEF Knows
      <4> QED  BY <4>4, <4>5
    <3> QED  BY <3>1, <3>2
  <2> QED  BY <2>1, <2>2, <2>3 DEF InvitesSound
<1>9. \A s \in Syncs : /\ job'[s].owned \subseteq job[s].owned
                       /\ job'[s].pc = "link" <=> job[s].pc = "link"
                       /\ job[s].pc = "link" => job'[s] = job[s]
  <2>1. j.pc # "link" /\ job[w].pc # "link"  BY <1>1 DEF Over, OpPcs
  <2> QED  BY <1>1, <2>1, IdleFacts DEF Moves, Over, Others, Workers, Approving
<1>10. \A v \in Users : (Linked(v)' <=> Linked(v)) /\ (Held(v)' => Held(v))
  BY <1>9 DEF Held, Linked, At
<1>11. \A v \in Users \ {u} : /\ FromSync(v)' <=> FromSync(v)
                              /\ IsMember(v)' <=> IsMember(v)
  BY <1>2, <1>3, <1>4 DEF FromSync, IsMember
<1>12. FromSync(u)' => FromSync(u)
  BY <1>2, <1>3, <1>4 DEF FromSync, IsMember
<1>13. GivenIsOwned'
  <2>1. \A v \in Users : FromSync(v)' => FromSync(v)  BY <1>11, <1>12
  <2> QED  BY <1>10, <2>1 DEF GivenIsOwned
<1>14. HeldSafe'
  <2> SUFFICES ASSUME NEW v \in Users, Held(v)', ~Excused'
               PROVE  /\ IsMember(v)' \/ IsInvited(v)' => FromSync(v)' \/ v \in rehired'
                      /\ ~(IsMember(v)' /\ IsInvited(v)')
    BY DEF HeldSafe
  <2>1. Held(v) /\ ~Excused  BY <1>10 DEF Excused
  <2>2. CASE v # u  BY <1>3, <1>4, <1>11, <2>1, <2>2 DEF HeldSafe
  <2>3. CASE v = u
    <3>1. ~IsMember(u) /\ (FromSync(u) \/ u \in rehired)  BY <2>1, <2>3 DEF HeldSafe
    <3>2. IsMember(u)' /\ FromSync(u) => FromSync(u)'
      BY <1>4, <3>1 DEF FromSync, IsMember
    <3> QED  BY <1>3, <1>4, <2>3, <3>1, <3>2
  <2> QED  BY <2>2, <2>3
<1>15. RejectedStep  BY <1>2, <1>3 DEF RejectedStep, IsMember
<1> QED  BY <1>6, <1>7, <1>8, <1>13, <1>14, <1>15

LEMMA TakeBackInvitationKeeps ==
  ASSUME PeopleInv, NEW w \in Workers, TakeBackInvitation(w), Remember(w),
         UNCHANGED <<dir, links, moves, faults>>
  PROVE  PeopleInv' /\ RejectedStep
<1> USE DEF PeopleInv
<1> DEFINE u == job[w].user
<1>1. job[w].pc = "revoke" /\ job[w].pc \in OpPcs \ {"insert_invite"} /\ u \in Users
  BY Places DEF TakeBackInvitation, At, OpPcs
<1>2. /\ UNCHANGED <<kind, members, audited, stale, mismatch, nextInvite, policy>>
      /\ stale' \subseteq Causes
  BY DEF TakeBackInvitation, restVars, Typed
<1>3. CASE IsInvited(u) /\ job[w].id \in {0, invites[u].id}
  <2>1. Withdraw(u) /\ job' = WithoutApprovers(u, w, After(job[w], "done"))
    BY <1>3 DEF TakeBackInvitation
  <2>2. RightsSound' /\ AdminRemains'  BY <1>2, RightsKept
  <2>3. members' \in [Users -> Memberships \cup {NoOne}]  BY <1>2 DEF Typed
  <2> HIDE DEF u
  <2> QED  BY <1>1, <1>2, <1>3, <2>1, <2>2, <2>3, WithdrawStep
<1>4. CASE ~(IsInvited(u) /\ job[w].id \in {0, invites[u].id})
  <2>1. Ends(w, "error") /\ UNCHANGED <<invites, taken>>
    BY <1>4 DEF TakeBackInvitation
  <2>2. QuietJobs  BY <1>1, <2>1, EndsQuietly
  <2> QED  BY <1>2, <2>1, <2>2, InvitesKept, InviteKeeps DEF TakeBackInvitation
<1> QED  BY <1>3, <1>4

LEMMA AdmitKeeps ==
  ASSUME PeopleInv, NEW w \in Workers, job[w].pc \in {"admit", "approve"}, Admit(w, "employee"),
         mismatch' = IF job[w].pc = "admit" \/ IsMember(job[w].user) THEN mismatch
                     ELSE mismatch \ {job[w].user},
         UNCHANGED <<audited, nextInvite>>, UNCHANGED restVars,
         Remember(w), UNCHANGED <<dir, links, moves, faults>>
  PROVE  PeopleInv' /\ RejectedStep
<1> USE DEF PeopleInv
<1>0. PICK u : u = job[w].user  OBVIOUS
<1> DEFINE j == job[w]
           due == DueAtFor(j.policy, "employee")
           new == Row(j.role, "employee", due, j.id)
<1>1. /\ j.pc \in OpPcs \ {"insert_invite"} /\ u \in Users /\ j \in JobType /\ Knows(j)
      /\ Sound(w, j) /\ (j.pc = "admit" => j.pc \in Accepting)
      /\ (j.pc = "approve" => j.pc \in Approving)
  <2>1. j.pc \in OpPcs  BY DEF OpPcs
  <2> QED
    BY <1>0, <2>1, Places DEF Typed, InvitesSound, JobsSound, Accepting, Approving, OpPcs
<1>2. UNCHANGED <<kind, policy, audited, nextInvite>> /\ policy' \in Policies
      /\ audited' \subseteq Users
  BY DEF restVars, Typed
<1>3. CASE IsMember(u)
  <2>1. Ends(w, "error") /\ UNCHANGED <<members, invites, taken, stale, mismatch>>
    BY <1>0, <1>3 DEF Admit
  <2>2. QuietJobs  BY <1>1, <2>1, EndsQuietly
  <2> QED  BY <1>2, <2>1, <2>2, InvitesKept, InviteKeeps DEF restVars
<1>4. CASE ~IsMember(u)
  <2>1. /\ members' = [members EXCEPT ![u] = new]
        /\ IF IsInvited(u) /\ invites[u].id = j.id
           THEN Withdraw(u) /\ job' = WithoutApprovers(u, w, After(j, "done"))
           ELSE Ends(w, "done") /\ UNCHANGED <<invites, taken>>
        /\ stale' = stale \cup (IF j.policy # policy THEN {"settings"} ELSE {})
                          \cup (IF <<u, j.id>> \in taken THEN {"invitation"} ELSE {})
    BY <1>0, <1>4 DEF Admit
  <2>2. j.role \in Roles /\ j.policy \in Policies /\ j.id \in Nat
    BY <1>1 DEF Sound, JobType
  <2>3. due \in [policy : Policies, type : Types]  BY <2>2 DEF DueAtFor, Types
  <2>4. /\ new \in Memberships /\ new.role = j.role /\ new.right = FALSE /\ new.by = j.id
        /\ new.due = due /\ new.type = "employee"
    <3> HIDE DEF due
    <3> QED  BY <2>2, <2>3 DEF Row, Memberships, Types
  <2> HIDE DEF new
  <2>5. new # NoOne  BY <2>4, OrgAssumption
  <2>6. /\ members'[u] = new /\ \A v \in Users \ {u} : members'[v] = members[v]
        /\ members' \in [Users -> Memberships \cup {NoOne}]
    BY <1>1, <2>1, <2>4 DEF Typed
  <2>7. stale \subseteq stale' /\ stale' \subseteq Causes
        /\ ("settings" \notin stale' => j.policy = policy)
        /\ (<<u, j.id>> \in taken => "invitation" \in stale')
    BY <2>1 DEF Typed, Causes
  <2>8. \A v \in Users : IsMember(v)' <=> IsMember(v) \/ v = u
    BY <1>4, <2>5, <2>6 DEF IsMember
  <2>9. RightsSound'
    <3>1. RightAudited'
      <4>1. {v \in Users : IsMember(v)' /\ members'[v].right}
              = {v \in Users : IsMember(v) /\ members[v].right}
        BY <1>4, <2>4, <2>6, <2>8
      <4> QED  BY <1>2, <2>7, <4>1 DEF RightAudited, RightsSound, ReviewsFollowPolicy
    <3>2. DuesFollowPolicy'
      <4>1. CASE "settings" \in stale'  BY <4>1 DEF DuesFollowPolicy
      <4>2. CASE "settings" \notin stale'
        <5>1. j.policy = policy /\ "settings" \notin stale  BY <2>7, <4>2
        <5>2. \A v \in Users : IsMember(v) => members[v].due = DueAtFor(policy, members[v].type)
          BY <5>1 DEF RightsSound, ReviewsFollowPolicy, DuesFollowPolicy
        <5> QED  BY <1>2, <2>4, <2>6, <2>8, <5>1, <5>2 DEF DuesFollowPolicy
      <4> QED  BY <4>1, <4>2
    <3> QED  BY <2>4, <2>6, <2>8, <3>1, <3>2 DEF RightsSound, ReviewsFollowPolicy
  <2>10. AdminRemains'
    <3>1. AdminsNow \subseteq AdminsNow'
      BY <1>4, <2>6, <2>8 DEF AdminsNow
    <3> QED  BY <2>7, <3>1 DEF AdminRemains
  <2>11. CASE IsInvited(u) /\ invites[u].id = j.id
    <3>1. Withdraw(u) /\ job' = WithoutApprovers(u, w, After(j, "done"))  BY <2>1, <2>11
    <3>2. invites[u].review # "rejected"
      <4>1. There(j)  BY <1>0, <2>11 DEF There
      <4>2. CASE j.pc = "approve"  BY <1>0, <1>1, <4>2 DEF Knows
      <4>3. CASE j.pc = "admit"
        <5>1. u \notin mismatch  BY <1>0, <1>1, <4>3 DEF Knows
        <5> QED  BY <1>1, <2>11, <5>1 DEF InvitesSound
      <4> QED  BY <4>2, <4>3
    <3>3. members'[u] # NoOne /\ members'[u].by = invites[u].id
      BY <2>4, <2>5, <2>6, <2>11
    <3>4. mismatch' = mismatch \/ mismatch' = mismatch \ {u}  BY <1>0
    <3> HIDE DEF j
    <3> QED
      BY <1>1, <1>2, <1>4, <2>6, <2>7, <2>9, <2>10, <2>11, <3>1, <3>2, <3>3, <3>4,
         WithdrawStep DEF j
  <2>12. CASE ~(IsInvited(u) /\ invites[u].id = j.id)
    <3> DEFINE k == After(j, "done")
    <3>1. Ends(w, "done") /\ UNCHANGED <<invites, taken>>  BY <2>1, <2>12
    <3>2. Moves(w, k) /\ Over(w, k)  BY <1>1, <3>1, EndsMoves
    <3> HIDE DEF k
    <3>3. QuietJobs  BY <1>1, <3>1, EndsQuietly
    <3>4. j.pc = "admit" /\ <<u, j.id>> \in taken
      BY <1>0, <1>1, <2>12 DEF Knows, There
    <3>5. "invitation" \in stale' /\ mismatch' = mismatch  BY <2>7, <3>4
    <3>6. UNCHANGED <<made, rehired>>
      <4>1. NewInvites = {}  BY <3>1 DEF NewInvites, IsInvited
      <4> QED  BY <4>1 DEF Remember
    <3>7. Typed'  BY <1>2, <2>6, <2>7, <3>1, <3>2, <3>5 DEF Typed, Moves
    <3>8. JobsSound'  BY <3>2, MovesSound
    <3>9. InvitesSound'
      <4>1. \A x \in Workers : Knows(job[x])'
        <5>1. \A x \in Workers : Knows(job'[x])  BY <3>3 DEF QuietJobs
        <5> QED  BY <1>2, <3>1, <3>5, <5>1 DEF Knows, There, IsInvited
      <4>2. \A v \in Users : IsInvited(v)' =>
              /\ invites'[v].id \in 1..(nextInvite' - 1)
              /\ invites'[v].review # "none" => v \in mismatch'
        BY <1>2, <3>1, <3>5 DEF InvitesSound, IsInvited
      <4>3. \A v \in Users, n \in Nat : <<v, n>> \in made' => n < nextInvite'
        BY <1>2, <3>6 DEF InvitesSound
      <4> QED  BY <4>1, <4>2, <4>3 DEF InvitesSound
    <3>10. GivenIsOwned'  BY <3>5 DEF GivenIsOwned
    <3>11. HeldSafe'  BY <3>5 DEF HeldSafe, Excused
    <3>12. RejectedStep
      BY <2>4, <2>6, <2>12, <3>1 DEF RejectedStep, IsMember, IsInvited
    <3> QED  BY <2>9, <2>10, <3>7, <3>8, <3>9, <3>10, <3>11, <3>12
  <2> QED  BY <2>11, <2>12
<1> QED  BY <1>3, <1>4

(* Whatever a request or a sync does to the people once it is under way.   *)
LEMMA GoOnKeeps ==
  ASSUME PeopleInv, NEW w \in Workers, MemberStep(w)
  PROVE  PeopleInv' /\ RejectedStep /\ kind' = kind
<1>1. /\ Remember(w) /\ UNCHANGED <<dir, links, moves, faults>> /\ GoOn(w)
  BY DEF MemberStep
<1>2. CASE AcceptInvitation(w)
  <2>1. job[w].pc = "admit"  BY <1>2 DEF AcceptInvitation, At
  <2> QED  BY <1>1, <1>2, <2>1, AdmitKeeps DEF AcceptInvitation, restVars
<1>3. CASE ApproveReview(w)
  <2>1. job[w].pc = "approve"  BY <1>3 DEF ApproveReview, At
  <2> QED  BY <1>1, <1>3, <2>1, AdmitKeeps DEF ApproveReview, restVars
<1>4. CASE ReadMembership(w) \/ SetMembership(w) \/ DeleteMembership(w) \/ SetReviewRight(w)
  <2>1. kind' = kind
    BY <1>4 DEF ReadMembership, SetMembership, DeleteMembership, SetReviewRight, restVars
  <2> QED
    BY <1>1, <1>4, <2>1, ReadMembershipKeeps, SetMembershipKeeps, DeleteMembershipKeeps,
       SetReviewRightKeeps
<1>5. CASE ReadSettings(w) \/ CompleteReverification(w) \/ UpdateMemberType(w)
           \/ SaveIdentitySettings(w)
  <2>1. kind' = kind
    BY <1>5 DEF ReadSettings, CompleteReverification, UpdateMemberType, SaveIdentitySettings,
                restVars
  <2> QED
    BY <1>1, <1>5, <2>1, ReadSettingsKeeps, CompleteReverificationKeeps,
       UpdateMemberTypeKeeps, SaveIdentitySettingsKeeps
<1>6. CASE CheckNotMember(w) \/ CreateInvitation(w) \/ UpdateInvitation(w)
           \/ TakeBackInvitation(w) \/ ResendInvitation(w)
  <2>1. kind' = kind
    BY <1>6 DEF CheckNotMember, CreateInvitation, UpdateInvitation, TakeBackInvitation,
                ResendInvitation, restVars
  <2> QED
    BY <1>1, <1>6, <2>1, CheckNotMemberKeeps, CreateInvitationKeeps, UpdateInvitationKeeps,
       TakeBackInvitationKeeps, ResendInvitationKeeps
<1>7. CASE ReadInvitation(w) \/ ResolveUser(w) \/ CreateIdentityReview(w)
           \/ LockIdentityReview(w)
  <2>1. kind' = kind
    BY <1>7 DEF ReadInvitation, ResolveUser, CreateIdentityReview, LockIdentityReview, restVars
  <2> QED
    BY <1>1, <1>7, <2>1, ReadInvitationKeeps, ResolveUserKeeps, CreateIdentityReviewKeeps,
       LockIdentityReviewKeeps
<1> QED  BY <1>1, <1>2, <1>3, <1>4, <1>5, <1>6, <1>7 DEF GoOn

----------------------------------------------------------------------------
(* The directory sync's own steps.                                         *)

(* A step that only moves one worker's record, and holds nothing new.      *)
LEMMA JobStep ==
  ASSUME PeopleInv, NEW w \in Workers, NEW j, Moves(w, j), Knows(j),
         w \in Syncs => /\ job[w].pc # "link" \/ faults' > 0
                        /\ j.pc # "link" /\ j.owned \subseteq job[w].owned \cup links,
         UNCHANGED peopleVars, UNCHANGED <<kind, policy>>,
         UNCHANGED <<dir, links, moves, made, rehired>>, faults' \in Nat, faults <= faults'
  PROVE  PeopleInv' /\ RejectedStep /\ kind' = kind
<1>1. QuietJobs  BY MovesQuietly
<1>2. /\ UNCHANGED <<members, audited, policy, invites, kind, mismatch, nextInvite, taken, stale>>
      /\ policy' \in Policies /\ audited' \subseteq Users /\ stale' \subseteq Causes
      /\ dir' \in [Accounts -> Standing] /\ moves' \in Nat
  BY DEF peopleVars, PeopleInv, Typed
<1>3. RightsSound' /\ AdminRemains' /\ MembersStay /\ InvitesStay
  BY <1>2, RightsKept, InvitesKept
<1> QED  BY <1>1, <1>2, <1>3, PeopleStep

LEMMA FetchDirectoryKeeps ==
  ASSUME PeopleInv, NEW s \in Syncs, FetchDirectory(s)
  PROVE  PeopleInv' /\ RejectedStep /\ kind' = kind
<1> USE DEF PeopleInv
<1> DEFINE j == [Idle EXCEPT !.pc = "links", !.snap = dir]
<1>1. s \in Workers /\ s \notin Calls /\ dir \in [Accounts -> Standing] /\ faults \in Nat
  BY OrgAssumption DEF Workers, Typed
<1>2. /\ j \in JobType /\ j.pc = "links" /\ j.snap = dir /\ j.todo = {} /\ j.owned = {}
  BY <1>1, IdleFacts DEF JobType, OwnPcs
<1>3. job' = [job EXCEPT ![s] = j] /\ job[s].pc = "idle"  BY DEF FetchDirectory, At
<1> HIDE DEF j
<1>4. Sound(s, j)
  BY <1>1, <1>2 DEF Sound, SyncSound, OwnPcs, Changing, Removing, Inviting, ToRole, ToType,
                    Accepting, Approving
<1>5. Moves(s, j)  BY <1>1, <1>2, <1>3, <1>4, OneMoves
<1>6. Knows(j)  BY <1>2 DEF Knows, Accepting, Approving
<1> QED  BY <1>1, <1>2, <1>3, <1>5, <1>6, JobStep DEF FetchDirectory, aroundVars, dirVars

LEMMA MemberLinksKeeps ==
  ASSUME PeopleInv, NEW s \in Syncs, MemberLinks(s)
  PROVE  PeopleInv' /\ RejectedStep /\ kind' = kind
<1> USE DEF PeopleInv
<1> DEFINE todo == Leavers(links, job[s].snap)
           people == InSource(job[s].snap)
           j == [job[s] EXCEPT !.pc = "next", !.owned = links, !.todo = todo, !.people = people]
<1>1. /\ s \in Workers /\ s \notin Calls /\ links \subseteq Accounts /\ faults \in Nat
      /\ job[s] \in JobType /\ job[s].pc = "links"
  BY OrgAssumption DEF Workers, Typed, MemberLinks, At
<1>2. SyncSound(job[s])  BY <1>1, Places
<1>3. todo \subseteq links /\ people \subseteq Accounts  BY DEF Leavers, InSource
<1>4. job' = [job EXCEPT ![s] = j]  BY <1>1 DEF MemberLinks, Typed
<1> HIDE DEF todo, people
<1>5. /\ j \in JobType /\ j.pc = "next" /\ j.snap = job[s].snap /\ j.todo = todo
      /\ j.owned = links
  BY <1>1, <1>3 DEF JobType, OwnPcs
<1> HIDE DEF j
<1>6. Sound(s, j)
  BY <1>1, <1>2, <1>3, <1>5
     DEF Sound, SyncSound, OwnPcs, Changing, Removing, Inviting, ToRole, ToType, Accepting,
         Approving
<1>7. Moves(s, j)  BY <1>1, <1>4, <1>5, <1>6, OneMoves
<1>8. Knows(j)  BY <1>5 DEF Knows, Accepting, Approving
<1> QED  BY <1>1, <1>5, <1>7, <1>8, JobStep DEF MemberLinks, aroundVars, dirVars

(* A run between two accounts.                                             *)
Between(j) == j \in JobType /\ SyncSound(j) /\ j.pc = "next"

(* Deprovision takes from an account the run owns, and is done with.       *)
LEMMA DeprovisionFacts ==
  ASSUME Typed, NEW s \in Syncs, NEW j, Between(j), NEW a \in j.owned \ j.todo
  PROVE  LET k == Deprovision(j, a) IN
         /\ k \in JobType /\ Sound(s, k) /\ k.owned = j.owned
         /\ k.pc \in {"remove", "revoke", "unlink"}
<1> DEFINE u == Mailbox[a]
           to(pc) == [j EXCEPT !.pc = pc, !.user = u, !.account = a, !.back = "unlink"]
           back(pc) == [to(pc) EXCEPT !.id = invites[u].id]
<1>1. a \in Accounts /\ u \in Users /\ s \notin Calls
  BY OrgAssumption, MailboxAssumption DEF Between, JobType
<1>2. IsInvited(u) => invites[u].id \in Nat
  BY <1>1 DEF Typed, Invitations, IsInvited
<1>3. ASSUME NEW k \in JobType, k.pc \in {"remove", "revoke", "unlink"}, k.user = u,
             k.account = a, k.back = "unlink", k.owned = j.owned, k.todo = j.todo,
             k.snap = j.snap
      PROVE  Sound(s, k)
  BY <1>1, <1>3 DEF Sound, SyncSound, Between, OwnPcs, Changing, Removing, Inviting, ToRole,
                    ToType, Accepting, Approving
<1>4. ASSUME NEW pc \in {"remove", "revoke", "unlink"}
      PROVE  LET k == to(pc) IN
             /\ k \in JobType /\ k.pc = pc /\ k.user = u /\ k.account = a /\ k.back = "unlink"
             /\ k.owned = j.owned /\ k.todo = j.todo /\ k.snap = j.snap
  <2>1. pc \in {"idle"} \cup OpPcs \cup OwnPcs  BY DEF OpPcs, OwnPcs
  <2> HIDE DEF u
  <2> QED  BY <1>1, <2>1 DEF Between, JobType
<1>5. CASE IsMember(u)
  <2>1. Deprovision(j, a) = to("remove")  BY <1>5 DEF Deprovision
  <2> HIDE DEF to
  <2> QED  BY <1>3, <1>4, <2>1
<1>6. CASE ~IsMember(u) /\ IsInvited(u)
  <2>1. Deprovision(j, a) = back("revoke")  BY <1>6 DEF Deprovision
  <2> DEFINE k == to("revoke")
  <2>2. /\ k \in JobType /\ k.pc = "revoke" /\ k.user = u /\ k.account = a /\ k.back = "unlink"
        /\ k.owned = j.owned /\ k.todo = j.todo /\ k.snap = j.snap
    BY <1>4
  <2>3. Deprovision(j, a) = [k EXCEPT !.id = invites[u].id]  BY <2>1
  <2> HIDE DEF k, u
  <2> DEFINE l == [k EXCEPT !.id = invites[u].id]
  <2>4. /\ l \in JobType /\ l.pc = "revoke" /\ l.user = u /\ l.account = a /\ l.back = "unlink"
        /\ l.owned = j.owned /\ l.todo = j.todo /\ l.snap = j.snap
    BY <1>2, <1>6, <2>2 DEF JobType
  <2> HIDE DEF l
  <2> QED  BY <1>3, <2>3, <2>4 DEF l
<1>7. CASE ~IsMember(u) /\ ~IsInvited(u)
  <2>1. Deprovision(j, a) = to("unlink")  BY <1>7 DEF Deprovision
  <2> HIDE DEF to
  <2> QED  BY <1>3, <1>4, <2>1
<1> QED  BY <1>5, <1>6, <1>7

(* Provision invites who has neither, and changes only what the run owns.  *)
LEMMA ProvisionFacts ==
  ASSUME Typed, NEW s \in Syncs, NEW j, Between(j), NEW a \in Accounts, IsActive(j.snap, a)
  PROVE  LET k == Provision(j, a) IN
         /\ k \in JobType /\ Sound(s, k) /\ k.owned = j.owned
         /\ k.pc \in {"next", "insert_invite", "update", "set_invite"}
<1> DEFINE u == Mailbox[a]
           to(pc, back) == [j EXCEPT !.pc = pc, !.user = u, !.to = j.snap[a],
                                     !.account = a, !.back = back]
<1>1. u \in Users /\ s \notin Calls /\ j.snap[a] \in Roles
  BY OrgAssumption, MailboxAssumption DEF IsActive
<1>2. IsInvited(u) => invites[u].id \in Nat
  BY <1>1 DEF Typed, Invitations, IsInvited
<1>3. /\ j \in JobType /\ Sound(s, j) /\ j.pc = "next"
  BY <1>1 DEF Between, Sound, ToRole, ToType, Accepting, Approving
<1>4. ASSUME NEW k \in JobType, k.to \in Roles, k.user = u,
             k.account = a, k.owned = j.owned, k.todo = j.todo, k.snap = j.snap,
             \/ k.pc = "insert_invite" /\ k.back = "link"
             \/ k.pc \in {"update", "set_invite"} /\ k.back = "next" /\ a \in j.owned
      PROVE  Sound(s, k)
  BY <1>1, <1>4 DEF Sound, SyncSound, Between, OwnPcs, Changing, Removing, Inviting, ToRole,
                    ToType, Accepting, Approving
<1>5. ASSUME NEW pc \in {"insert_invite", "update", "set_invite"}, NEW back \in {"link", "next"}
      PROVE  LET k == to(pc, back) IN
             /\ k \in JobType /\ k.pc = pc /\ k.user = u /\ k.account = a /\ k.back = back
             /\ k.to \in Roles /\ k.owned = j.owned /\ k.todo = j.todo /\ k.snap = j.snap
  <2>1. pc \in {"idle"} \cup OpPcs \cup OwnPcs  BY DEF OpPcs
  <2> DEFINE role == j.snap[a]
  <2>2. role \in Roles /\ role \in Roles \cup Types \cup {""}  BY <1>1
  <2>3. j \in JobType /\ u \in Users /\ back \in {"idle", "unlink", "next", "link"}
    BY <1>1, <1>3
  <2> HIDE DEF u, role, to
  <2>4. LET k == [j EXCEPT !.pc = pc, !.user = u, !.to = role, !.account = a, !.back = back] IN
        k \in JobType
    BY <2>1, <2>2, <2>3 DEF JobType
  <2>5. LET k == [j EXCEPT !.pc = pc, !.user = u, !.to = role, !.account = a, !.back = back] IN
        /\ k.pc = pc /\ k.user = u /\ k.account = a /\ k.back = back
        /\ k.to = role /\ k.owned = j.owned /\ k.todo = j.todo /\ k.snap = j.snap
    BY <2>3 DEF JobType
  <2> QED  BY <2>2, <2>4, <2>5 DEF role, to
<1>6. CASE Provision(j, a) = j  BY <1>3, <1>6
<1>7. CASE Provision(j, a) = to("insert_invite", "link")
  <2> HIDE DEF to
  <2> QED  BY <1>4, <1>5, <1>7
<1>8. CASE a \in j.owned /\ Provision(j, a) = to("update", "next")
  <2> HIDE DEF to
  <2> QED  BY <1>4, <1>5, <1>8
<1>9. CASE /\ a \in j.owned /\ IsInvited(u)
           /\ Provision(j, a) = [to("set_invite", "next") EXCEPT !.id = invites[u].id]
  <2> DEFINE k == to("set_invite", "next")
  <2>1. /\ k \in JobType /\ k.pc = "set_invite" /\ k.user = u /\ k.account = a /\ k.back = "next"
        /\ k.to \in Roles /\ k.owned = j.owned /\ k.todo = j.todo /\ k.snap = j.snap
    BY <1>5
  <2> HIDE DEF k, u
  <2> DEFINE l == [k EXCEPT !.id = invites[u].id]
  <2>2. /\ l \in JobType /\ l.pc = "set_invite" /\ l.user = u /\ l.account = a
        /\ l.back = "next" /\ l.to \in Roles
        /\ l.owned = j.owned /\ l.todo = j.todo /\ l.snap = j.snap
    BY <1>2, <1>9, <2>1 DEF JobType
  <2>3. Provision(j, a) = l  BY <1>9 DEF k
  <2> HIDE DEF l
  <2> QED  BY <1>4, <1>9, <2>2, <2>3
<1>10. IsMember(u) \/ IsInvited(u) \/ ~(IsMember(u) \/ IsInvited(u))  OBVIOUS
<1>11. CASE ~IsMember(u) /\ ~IsInvited(u)
  <2>1. Provision(j, a) = j \/ Provision(j, a) = to("insert_invite", "link")
    BY <1>11 DEF Provision, InviteThen
  <2> QED  BY <1>6, <1>7, <2>1
<1>12. CASE IsMember(u)
  <2>1. Provision(j, a) = j \/ (a \in j.owned /\ Provision(j, a) = to("update", "next"))
    BY <1>12 DEF Provision, Owns
  <2> QED  BY <1>6, <1>8, <2>1
<1>13. CASE ~IsMember(u) /\ IsInvited(u)
  <2>1. \/ Provision(j, a) = j
        \/ a \in j.owned
             /\ Provision(j, a) = [to("set_invite", "next") EXCEPT !.id = invites[u].id]
    BY <1>13 DEF Provision, Owns
  <2> QED  BY <1>6, <1>9, <1>13, <2>1
<1> QED  BY <1>11, <1>12, <1>13

(* The next account is one of the run's own, taken from, or one who is in. *)
LEMMA NextAccountKeeps ==
  ASSUME PeopleInv, NEW s \in Syncs, NextAccount(s)
  PROVE  PeopleInv' /\ RejectedStep /\ kind' = kind
<1> USE DEF PeopleInv
<1>0. PICK j : j = job[s]  OBVIOUS
<1>1. s \in Workers /\ s \notin Calls /\ job[s].pc = "next" /\ j \in JobType /\ faults \in Nat
  BY <1>0, OrgAssumption DEF Workers, Typed, NextAccount, At
<1>2. Between(j)  BY <1>0, <1>1, Places DEF Between
<1>3. ASSUME NEW k \in JobType, Sound(s, k), k.owned \subseteq j.owned,
             k.pc \in {"idle", "next", "insert_invite", "update", "set_invite", "remove",
                       "revoke", "unlink"},
             job' = [job EXCEPT ![s] = k]
      PROVE  PeopleInv' /\ RejectedStep /\ kind' = kind
  <2>1. Moves(s, k)  BY <1>1, <1>3, OneMoves
  <2>2. Knows(k)  BY <1>3 DEF Knows, Accepting, Approving
  <2>3. job[s].pc # "link" /\ k.pc # "link" /\ k.owned \subseteq job[s].owned \cup links
    BY <1>0, <1>1, <1>3
  <2>4. /\ UNCHANGED peopleVars /\ UNCHANGED <<kind, policy>> /\ faults' \in Nat /\ faults <= faults'
        /\ UNCHANGED <<dir, links, moves, made, rehired>>
    BY <1>1 DEF NextAccount, aroundVars, dirVars
  <2> QED  BY <1>1, <2>1, <2>2, <2>3, <2>4, JobStep
<1>4. CASE \E a \in j.todo : job' = [job EXCEPT ![s] = Deprovision([j EXCEPT !.todo = @ \ {a}], a)]
  <2>1. PICK a \in j.todo : job' = [job EXCEPT ![s] = Deprovision([j EXCEPT !.todo = @ \ {a}], a)]
    BY <1>4
  <2> DEFINE i == [j EXCEPT !.todo = @ \ {a}]
             k == Deprovision(i, a)
  <2>2. /\ Between(i) /\ a \in i.owned \ i.todo /\ i.owned = j.owned
    BY <1>2, <2>1 DEF Between, JobType, SyncSound, OwnPcs, Changing, Removing, Inviting
  <2> HIDE DEF i
  <2>3. k \in JobType /\ Sound(s, k) /\ k.owned = i.owned /\ k.pc \in {"remove", "revoke", "unlink"}
    BY <2>2, DeprovisionFacts
  <2>4. job' = [job EXCEPT ![s] = k]  BY <2>1 DEF i
  <2> HIDE DEF k
  <2> QED  BY <1>3, <2>2, <2>3, <2>4
<1>5. CASE \E a \in j.people :
             LET rest == [j EXCEPT !.people = @ \ {a}] IN
             job' = [job EXCEPT ![s] =
                       IF IsActive(j.snap, a) THEN Provision(rest, a)
                       ELSE IF Owns(j, a) THEN Deprovision(rest, a) ELSE rest]
             /\ j.todo = {}
  <2>1. PICK a \in j.people :
             LET rest == [j EXCEPT !.people = @ \ {a}] IN
             job' = [job EXCEPT ![s] =
                       IF IsActive(j.snap, a) THEN Provision(rest, a)
                       ELSE IF Owns(j, a) THEN Deprovision(rest, a) ELSE rest]
             /\ j.todo = {}
    BY <1>5
  <2> DEFINE i == [j EXCEPT !.people = @ \ {a}]
  <2>2. /\ Between(i) /\ i.owned = j.owned /\ i.snap = j.snap /\ i.todo = {} /\ a \in Accounts
    BY <1>2, <2>1 DEF Between, JobType, SyncSound, OwnPcs, Changing, Removing, Inviting
  <2>3. job' = [job EXCEPT ![s] = IF IsActive(j.snap, a) THEN Provision(i, a)
                                  ELSE IF Owns(j, a) THEN Deprovision(i, a) ELSE i]
    BY <2>1
  <2> HIDE DEF i
  <2>4. CASE IsActive(j.snap, a)
    <3> DEFINE k == Provision(i, a)
    <3>1. /\ k \in JobType /\ Sound(s, k) /\ k.owned = i.owned
          /\ k.pc \in {"next", "insert_invite", "update", "set_invite"}
      BY <2>2, <2>4, ProvisionFacts
    <3>2. job' = [job EXCEPT ![s] = k]  BY <2>3, <2>4
    <3> HIDE DEF k
    <3> QED  BY <1>3, <2>2, <3>1, <3>2
  <2>5. CASE ~IsActive(j.snap, a) /\ Owns(j, a)
    <3> DEFINE k == Deprovision(i, a)
    <3>1. k \in JobType /\ Sound(s, k) /\ k.owned = i.owned /\ k.pc \in {"remove", "revoke", "unlink"}
      BY <2>2, <2>5, DeprovisionFacts DEF Owns
    <3>2. job' = [job EXCEPT ![s] = k]  BY <2>3, <2>5
    <3> HIDE DEF k
    <3> QED  BY <1>3, <2>2, <3>1, <3>2
  <2>6. CASE ~IsActive(j.snap, a) /\ ~Owns(j, a)
    <3>1. Sound(s, i) /\ i \in JobType /\ i.pc = "next"
      BY <1>1, <2>2 DEF Between, Sound, ToRole, ToType, Accepting, Approving
    <3>2. job' = [job EXCEPT ![s] = i]  BY <2>3, <2>6
    <3> QED  BY <1>3, <2>2, <3>1, <3>2
  <2> QED  BY <2>4, <2>5, <2>6
<1>6. CASE job' = [job EXCEPT ![s] = Idle]
  BY <1>1, <1>3, <1>6, IdleFacts
<1> QED  BY <1>0, <1>4, <1>5, <1>6 DEF NextAccount

LEMMA SyncFailsKeeps ==
  ASSUME PeopleInv, NEW s \in Syncs, SyncFails(s)
  PROVE  PeopleInv' /\ RejectedStep /\ kind' = kind
<1> USE DEF PeopleInv
<1>1. s \in Workers /\ faults' \in Nat /\ faults <= faults' /\ faults' > 0
  BY DEF Workers, Typed, SyncFails
<1>2. Moves(s, Idle)  BY <1>1, IdleFacts, OneMoves DEF SyncFails
<1>3. Knows(Idle)  BY IdleFacts DEF Knows, Accepting, Approving
<1> QED  BY <1>1, <1>2, <1>3, IdleFacts, JobStep DEF SyncFails, aroundVars

(* A request begins with what it asks, and holds nothing.                  *)
LEMMA BeginKeeps ==
  ASSUME PeopleInv, NEW w \in Calls, Begin(w), UNCHANGED dirVars
  PROVE  PeopleInv' /\ RejectedStep /\ kind' = kind
<1> USE DEF PeopleInv
<1>1. PICK o \in kind.ops :
        job' = [job EXCEPT ![w] = [Idle EXCEPT !.pc = o.op, !.user = o.user, !.to = o.to]]
  BY DEF Begin
<1>2. o \in Requests /\ w \in Workers /\ w \notin Syncs /\ faults \in Nat
  <2>1. kind.ops \subseteq Requests  BY OrgAssumption DEF Typed
  <2> QED  BY <1>1, <2>1, OrgAssumption DEF Workers, Typed
<1>3. /\ o.op \in OpPcs \ (Accepting \cup Approving \cup {"set", "delete"}) /\ o.user \in Users
      /\ o.to \in Roles \cup Types \cup {""}
      /\ (o.op \in ToRole => o.to \in Roles) /\ (o.op \in ToType => o.to \in Types)
  BY <1>2 DEF Requests, OpPcs, Accepting, Approving, ToRole, ToType
<1> DEFINE j == [Idle EXCEPT !.pc = o.op, !.user = o.user, !.to = o.to]
<1>4. /\ j \in JobType /\ j.pc = o.op /\ j.user = o.user /\ j.to = o.to
      /\ j.back = "idle" /\ j.owned = {}
  BY <1>3, IdleFacts DEF JobType
<1>5. job' = [job EXCEPT ![w] = j]  BY <1>1
<1> HIDE DEF j
<1>6. Sound(w, j) /\ Knows(j)
  BY <1>2, <1>3, <1>4 DEF Sound, Knows, Accepting, Approving
<1>7. Moves(w, j)  BY <1>2, <1>4, <1>5, <1>6, OneMoves
<1>8. /\ UNCHANGED peopleVars /\ UNCHANGED <<kind, policy>>
      /\ UNCHANGED <<dir, links, moves, made, rehired>> /\ faults' \in Nat /\ faults <= faults'
  BY <1>2 DEF Begin, dirVars, peopleVars
<1> QED  BY <1>2, <1>6, <1>7, <1>8, JobStep

(* A step that no worker takes.                                            *)
LEMMA JobsKept ==
  ASSUME PeopleInv, job' = job
  PROVE  QuietJobs
<1>1. JobsSound'  BY DEF PeopleInv, JobsSound
<1> QED  BY <1>1 DEF PeopleInv, QuietJobs, Typed, InvitesSound

LEMMA InvitationExpiresKeeps ==
  ASSUME PeopleInv, NEW u \in Users, InvitationExpires(u), UNCHANGED dirVars
  PROVE  PeopleInv' /\ RejectedStep /\ kind' = kind
<1> USE DEF PeopleInv
<1> DEFINE new == [invites[u] EXCEPT !.live = FALSE]
<1>1. invites[u] \in Invitations /\ IsInvited(u)
  BY DEF InvitationExpires, Typed, IsInvited
<1>2. new \in Invitations /\ new.id = invites[u].id /\ new.review = invites[u].review
  BY <1>1 DEF Invitations
<1>3. invites' = [invites EXCEPT ![u] = new]  BY DEF InvitationExpires, Typed
<1> HIDE DEF new
<1>4. InvitesStay  BY <1>1, <1>2, <1>3, InvitationWritten
<1>5. /\ UNCHANGED <<kind, members, mismatch, policy, nextInvite, taken, audited, stale, job>>
      /\ UNCHANGED <<dir, links, moves, faults, made, rehired>>
  BY DEF InvitationExpires, restVars, dirVars
<1>6. /\ policy' \in Policies /\ audited' \subseteq Users /\ stale' \subseteq Causes
      /\ dir' \in [Accounts -> Standing] /\ moves' \in Nat /\ faults' \in Nat /\ faults <= faults'
  BY <1>5 DEF Typed
<1>7. QuietJobs  BY <1>5, JobsKept
<1>8. RightsSound' /\ AdminRemains' /\ MembersStay  BY <1>5, RightsKept
<1> QED  BY <1>4, <1>5, <1>6, <1>7, <1>8, PeopleStep

(* The source changes, or nothing about the people does.                   *)
LEMMA SourceKeeps ==
  ASSUME PeopleInv, UNCHANGED orgVars, UNCHANGED <<links, faults, made, rehired>>,
         dir' \in [Accounts -> Standing], moves' \in Nat
  PROVE  PeopleInv' /\ RejectedStep /\ kind' = kind
<1> USE DEF PeopleInv
<1>1. /\ UNCHANGED <<kind, members, invites, mismatch, policy, nextInvite, taken, audited>>
      /\ UNCHANGED <<stale, job>>
      /\ policy' \in Policies /\ audited' \subseteq Users /\ stale' \subseteq Causes
      /\ faults' \in Nat /\ faults <= faults'
  BY DEF orgVars, Typed
<1> QED  BY <1>1, JobsKept, RightsKept, InvitesKept, PeopleStep

LEMMA DirectoryChangesKeeps ==
  ASSUME PeopleInv, DirectoryChanges
  PROVE  PeopleInv' /\ RejectedStep /\ kind' = kind
<1>1. dir' \in [Accounts -> Standing] /\ moves' \in Nat
  BY DEF DirectoryChanges, PeopleInv, Typed, Standing
<1> QED  BY <1>1, SourceKeeps DEF DirectoryChanges

LEMMA PeopleKept ==
  ASSUME PeopleInv, UNCHANGED vars
  PROVE  PeopleInv' /\ RejectedStep /\ kind' = kind
<1>1. dir' \in [Accounts -> Standing] /\ moves' \in Nat
  BY DEF vars, dirVars, PeopleInv, Typed
<1> QED  BY <1>1, SourceKeeps DEF vars, dirVars

(* A link is made or forgotten: what was given and loses its link is on    *)
(* record as such, and nobody new is held.                                 *)
LEMMA LinkStep ==
  ASSUME PeopleInv, NEW s \in Syncs, NEW j, Moves(s, j), Knows(j),
         UNCHANGED <<members, invites, mismatch, taken, nextInvite, audited, kind, policy>>,
         UNCHANGED <<dir, moves, faults, made, rehired>>,
         links' \subseteq Accounts, stale \subseteq stale', stale' \subseteq Causes,
         \A u \in Users : Held(u)' => Held(u),
         "link" \in stale' \/ \A u \in Users : FromSync(u) /\ Linked(u) => Linked(u)'
  PROVE  PeopleInv' /\ RejectedStep /\ kind' = kind
<1> USE DEF PeopleInv
<1>1. Typed'  BY DEF Typed, Moves
<1>2. JobsSound'  BY MovesSound DEF Workers
<1>3. RightsSound' /\ AdminRemains'  BY RightsKept
<1>4. InvitesSound'
  <2>1. Knows(Idle)  BY IdleFacts DEF Knows, Accepting, Approving
  <2>2. \A x \in Workers : Knows(job'[x])  BY <2>1 DEF Moves, Others, InvitesSound
  <2>3. ASSUME NEW x \in Workers  PROVE Knows(job[x])'
    BY <2>2 DEF Knows, There, IsInvited
  <2> QED  BY <2>3 DEF InvitesSound, IsInvited
<1>5. \A u \in Users : FromSync(u)' <=> FromSync(u)
  BY DEF FromSync, IsMember, IsInvited
<1>6. GivenIsOwned'  BY <1>5 DEF GivenIsOwned
<1>7. Excused => Excused'  BY DEF Excused
<1>8. HeldSafe'  BY <1>5, <1>7 DEF HeldSafe, IsMember, IsInvited
<1>9. RejectedStep  BY DEF RejectedStep, IsMember
<1> QED  BY <1>1, <1>2, <1>3, <1>4, <1>6, <1>8, <1>9

LEMMA UnlinkMemberKeeps ==
  ASSUME PeopleInv, NEW s \in Syncs, UnlinkMember(s)
  PROVE  PeopleInv' /\ RejectedStep /\ kind' = kind
<1> USE DEF PeopleInv
<1>0. PICK a : a = job[s].account  OBVIOUS
<1>1. s \in Workers /\ s \notin Calls /\ job[s].pc = "unlink" /\ job[s] \in JobType
  BY OrgAssumption DEF Workers, Typed, UnlinkMember, At
<1>2. SyncSound(job[s])  BY <1>1, Places
<1>3. a \in job[s].owned \ job[s].todo /\ a \in Accounts
  BY <1>0, <1>1, <1>2 DEF SyncSound, Removing, JobType
<1> DEFINE owned == IF job[s].snap[a] = "gone" THEN job[s].owned \ {a} ELSE job[s].owned
           j == [job[s] EXCEPT !.pc = "next", !.owned = owned]
<1>4. job' = [job EXCEPT ![s] = j]  BY <1>0, <1>1 DEF UnlinkMember, Typed
<1>5. owned \subseteq job[s].owned /\ job[s].owned \ {a} \subseteq owned  OBVIOUS
<1> HIDE DEF owned
<1>6. j \in JobType /\ j.pc = "next" /\ j.owned = owned /\ j.todo = job[s].todo /\ j.snap = job[s].snap
  BY <1>1, <1>5 DEF JobType, OwnPcs
<1> HIDE DEF j
<1>7. Sound(s, j)
  BY <1>1, <1>2, <1>3, <1>5, <1>6
     DEF Sound, SyncSound, OwnPcs, Changing, Removing, Inviting, ToRole, ToType, Accepting,
         Approving
<1>8. Moves(s, j)  BY <1>1, <1>4, <1>6, <1>7, OneMoves
<1>9. Knows(j)  BY <1>6 DEF Knows, Accepting, Approving
<1>10. /\ UNCHANGED <<members, invites, mismatch, taken, nextInvite, audited, kind, policy>>
       /\ UNCHANGED <<dir, moves, faults, made, rehired>>
       /\ links' = links \ {a}
       /\ stale' = IF IsInvited(Mailbox[a]) \/ IsMember(Mailbox[a]) THEN stale \cup {"link"} ELSE stale
  BY <1>0 DEF UnlinkMember, Stale, aroundVars
<1>11. links' \subseteq Accounts /\ stale \subseteq stale' /\ stale' \subseteq Causes
  BY <1>10 DEF Typed, Causes
<1>12. \A x \in Syncs : /\ job'[x].owned \subseteq job[x].owned
                        /\ (job'[x].pc = "link" <=> job[x].pc = "link")
                        /\ job'[x].pc = "link" => job'[x].user = job[x].user
  <2> SUFFICES ASSUME NEW x \in Syncs
               PROVE  /\ job'[x].owned \subseteq job[x].owned
                      /\ (job'[x].pc = "link" <=> job[x].pc = "link")
                      /\ job'[x].pc = "link" => job'[x].user = job[x].user
    OBVIOUS
  <2>1. CASE x = s  BY <1>1, <1>5, <1>6, <1>8, <2>1 DEF Moves
  <2>2. CASE x # s  BY <1>4, <2>2 DEF Typed, Workers
  <2> QED  BY <2>1, <2>2
<1>13. \A u \in Users : Held(u)' => Held(u)
  BY <1>10, <1>12 DEF Held, Linked, At
<1>14. "link" \in stale' \/ \A u \in Users : FromSync(u) /\ Linked(u) => Linked(u)'
  <2> SUFFICES ASSUME "link" \notin stale', NEW u \in Users, FromSync(u), Linked(u)
               PROVE  Linked(u)'
    OBVIOUS
  <2>1. u # Mailbox[a]  BY <1>10 DEF FromSync
  <2>2. CASE \E b \in links : Mailbox[b] = u  BY <1>10, <2>1, <2>2 DEF Linked
  <2>3. CASE \E x \in Syncs : At(x, "link") /\ job[x].user = u
    BY <1>12, <2>3 DEF Linked, At
  <2> QED  BY <2>2, <2>3 DEF Linked
<1> QED  BY <1>8, <1>9, <1>10, <1>11, <1>13, <1>14, LinkStep

LEMMA LinkMemberKeeps ==
  ASSUME PeopleInv, NEW s \in Syncs, LinkMember(s)
  PROVE  PeopleInv' /\ RejectedStep /\ kind' = kind
<1> USE DEF PeopleInv
<1>0. PICK a : a = job[s].account  OBVIOUS
<1>1. s \in Workers /\ s \notin Calls /\ job[s].pc = "link" /\ job[s] \in JobType
  BY OrgAssumption DEF Workers, Typed, LinkMember, At
<1>2. SyncSound(job[s]) /\ a \in Accounts /\ job[s].user = Mailbox[a]
  BY <1>0, <1>1, Places DEF SyncSound
<1>3. /\ UNCHANGED <<members, invites, mismatch, taken, nextInvite, audited, kind, policy>>
      /\ UNCHANGED <<dir, moves, faults, made, rehired>>
  BY DEF LinkMember, aroundVars
<1>4. CASE \E b \in links \ {a} : Mailbox[b] = Mailbox[a]
  <2>1. job' = [job EXCEPT ![s] = Idle] /\ stale' = stale \cup {"link"} /\ links' = links
    BY <1>0, <1>4 DEF LinkMember, Stale
  <2>2. Moves(s, Idle)  BY <1>1, <2>1, IdleFacts, OneMoves
  <2>3. Knows(Idle)  BY IdleFacts DEF Knows, Accepting, Approving
  <2>4. links' \subseteq Accounts /\ stale \subseteq stale' /\ stale' \subseteq Causes /\ "link" \in stale'
    BY <2>1 DEF Typed, Causes
  <2>5. \A x \in Syncs : job'[x] = job[x] \/ job'[x] = Idle
    BY <2>1 DEF Typed, Workers
  <2>6. \A u \in Users : Held(u)' => Held(u)
    BY <2>1, <2>5, IdleFacts DEF Held, Linked, At
  <2> QED  BY <1>3, <2>2, <2>3, <2>4, <2>6, LinkStep
<1>5. CASE ~\E b \in links \ {a} : Mailbox[b] = Mailbox[a]
  <2> DEFINE j == [job[s] EXCEPT !.pc = "next"]
  <2>1. job' = [job EXCEPT ![s] = j] /\ links' = links \cup {a} /\ stale' = stale
    BY <1>0, <1>1, <1>5 DEF LinkMember, Go, Typed
  <2>2. /\ j \in JobType /\ j.pc = "next" /\ j.owned = job[s].owned /\ j.todo = job[s].todo
        /\ j.snap = job[s].snap
    BY <1>1, ToPc DEF OwnPcs
  <2> HIDE DEF j
  <2>3. Sound(s, j)
    BY <1>1, <1>2, <2>2
       DEF Sound, SyncSound, OwnPcs, Changing, Removing, Inviting, ToRole, ToType, Accepting,
           Approving
  <2>4. Moves(s, j)  BY <1>1, <2>1, <2>2, <2>3, OneMoves
  <2>5. Knows(j)  BY <2>2 DEF Knows, Accepting, Approving
  <2>6. links' \subseteq Accounts /\ stale \subseteq stale' /\ stale' \subseteq Causes
    BY <1>2, <2>1 DEF Typed
  <2>7. job'[s] = j /\ \A x \in Syncs \ {s} : job'[x] = job[x]
    BY <2>1 DEF Typed, Workers
  <2>8. \A u \in Users : Linked(u) <=> Linked(u)'
    <3>1. At(s, "link") /\ ~At(s, "link")'  BY <1>1, <2>2, <2>7 DEF At
    <3>2. \A u : Linked(u)' <=> \/ \E b \in links \cup {a} : Mailbox[b] = u
                                \/ \E x \in Syncs \ {s} : At(x, "link") /\ job[x].user = u
      BY <2>1, <2>7, <3>1 DEF Linked, At
    <3> QED  BY <1>2, <3>1, <3>2 DEF Linked
  <2>9. \A x \in Syncs : job'[x].owned = job[x].owned  BY <2>2, <2>7
  <2>10. \A u \in Users : Held(u)' => Held(u)  BY <2>8, <2>9 DEF Held
  <2> QED  BY <1>3, <2>4, <2>5, <2>6, <2>8, <2>10, LinkStep
<1> QED  BY <1>4, <1>5

----------------------------------------------------------------------------
(* The organisation: at first, and after every step.                       *)

LEMMA PeopleInvInit == Init => PeopleInv
<1> SUFFICES ASSUME Init  PROVE PeopleInv
  OBVIOUS
<1>1. /\ kind \in Kinds /\ mismatch = kind.mismatch /\ policy = 0 /\ nextInvite = 2
      /\ taken = {} /\ audited = {} /\ stale = {} /\ links = {} /\ moves = 0 /\ faults = 0
      /\ made = {} /\ rehired = {} /\ job = [w \in Workers |-> Idle]
      /\ dir = [a \in Accounts |-> IF kind.syncs = {} THEN "gone" ELSE "member"]
  BY DEF Init, OrgInit
<1>2. /\ kind.members \in [Users -> Roles \cup {NoOne}] /\ kind.mismatch \subseteq Users
      /\ kind.invited \in [Users -> Roles \cup {NoOne}]
      /\ \E u \in Users : kind.members[u] = "admin"
  BY <1>1, OrgAssumption
<1>3. ASSUME NEW role \in Roles
      PROVE  LET m == Row(role, "employee", DueAtFor(0, "employee"), 0) IN
             /\ m \in Memberships /\ m # NoOne /\ m.role = role /\ m.right = FALSE
             /\ m.type = "employee" /\ m.due = DueAtFor(0, "employee")
  <2>1. LET m == Row(role, "employee", DueAtFor(0, "employee"), 0) IN
        /\ m \in Memberships /\ m.role = role /\ m.right = FALSE
        /\ m.type = "employee" /\ m.due = DueAtFor(0, "employee")
    BY DEF Row, DueAtFor, Memberships, Types, Policies
  <2> QED  BY <2>1, OrgAssumption
<1>4. ASSUME NEW role \in Roles
      PROVE  LET i == Invitation(1, role) IN
             i \in Invitations /\ i # NoOne /\ i.id = 1 /\ i.review = "none"
  <2>1. LET i == Invitation(1, role) IN i \in Invitations /\ i.id = 1 /\ i.review = "none"
    BY DEF Invitation, Invitations
  <2> QED  BY <2>1, OrgAssumption
<1>5. /\ members \in [Users -> Memberships \cup {NoOne}]
      /\ \A u \in Users : /\ IsMember(u) <=> kind.members[u] # NoOne
                          /\ IsMember(u) => /\ members[u].role = kind.members[u]
                                            /\ members[u].right = FALSE
                                            /\ members[u].type = "employee"
                                            /\ members[u].due = DueAtFor(0, "employee")
  <2>1. members = [u \in Users |-> IF kind.members[u] = NoOne THEN NoOne
                                   ELSE Row(kind.members[u], "employee", DueAtFor(0, "employee"), 0)]
    BY DEF Init, OrgInit
  <2> QED  BY <1>2, <1>3, <2>1 DEF IsMember
<1>6. /\ invites \in [Users -> Invitations \cup {NoOne}]
      /\ \A u \in Users : IsInvited(u) => invites[u].id = 1 /\ invites[u].review = "none"
  <2>1. invites = [u \in Users |-> IF kind.invited[u] = NoOne THEN NoOne
                                   ELSE Invitation(1, kind.invited[u])]
    BY DEF Init, OrgInit
  <2> QED  BY <1>2, <1>4, <2>1 DEF IsInvited
<1>7. /\ job \in [Workers -> JobType]
      /\ \A w \in Workers : job[w].pc = "idle" /\ job[w].owned = {} /\ Sound(w, job[w])
  BY <1>1, IdleFacts
<1>8. Typed
  <2>1. dir \in [Accounts -> Standing]  BY <1>1 DEF Standing
  <2> QED  BY <1>1, <1>2, <1>5, <1>6, <1>7, <2>1 DEF Typed, Policies, Causes
<1>9. JobsSound  BY <1>7 DEF JobsSound
<1>10. RightsSound
  BY <1>1, <1>5 DEF RightsSound, ReviewsFollowPolicy, RightAudited, DuesFollowPolicy
<1>11. InvitesSound
  <2>1. \A w \in Workers : Knows(job[w])  BY <1>7 DEF Knows, Accepting, Approving
  <2> QED  BY <1>1, <1>6, <2>1 DEF InvitesSound
<1>12. AdminRemains
  <2>1. PICK u \in Users : kind.members[u] = "admin"  BY <1>2
  <2>2. "admin" # NoOne  BY OrgAssumption DEF Roles
  <2>3. u \in AdminsNow  BY <1>5, <2>1, <2>2 DEF AdminsNow
  <2> QED  BY <2>3 DEF AdminRemains
<1>13. HeldSafe
  BY <1>1, <1>7 DEF HeldSafe, Held, Linked, At, Workers
<1>14. GivenIsOwned  BY <1>1 DEF GivenIsOwned, FromSync
<1> QED
  BY <1>8, <1>9, <1>10, <1>11, <1>12, <1>13, <1>14 DEF PeopleInv

LEMMA PeopleInvNext ==
  ASSUME PeopleInv, DirNext
  PROVE  PeopleInv' /\ RejectedStep /\ kind' = kind
<1>1. ASSUME NEW s \in Syncs, SyncStep(s)  PROVE PeopleInv' /\ RejectedStep /\ kind' = kind
  BY <1>1, FetchDirectoryKeeps, MemberLinksKeeps, NextAccountKeeps, UnlinkMemberKeeps,
     LinkMemberKeeps DEF SyncStep
<1>2. CASE Around
  <2>1. ASSUME NEW w \in Calls, Begin(w), UNCHANGED dirVars
        PROVE  PeopleInv' /\ RejectedStep /\ kind' = kind
    BY <2>1, BeginKeeps
  <2>2. ASSUME NEW u \in Users, InvitationExpires(u), UNCHANGED dirVars
        PROVE  PeopleInv' /\ RejectedStep /\ kind' = kind
    BY <2>2, InvitationExpiresKeeps
  <2> QED  BY <1>2, <2>1, <2>2 DEF Around
<1> QED
  BY <1>1, <1>2, GoOnKeeps, SyncFailsKeeps, DirectoryChangesKeeps DEF DirNext

OrganizationInv == PeopleInv /\ MandateInv

LEMMA OrganizationInvInit == MandateInit => OrganizationInv
BY PeopleInvInit, MandateInvInit DEF MandateInit, OrganizationInv

LEMMA OrganizationInvNext ==
  ASSUME OrganizationInv, [Step]_allVars
  PROVE  OrganizationInv' /\ RejectedStep /\ EndsSooner
<1> USE DEF OrganizationInv
<1>1. CASE DirNext /\ UNCHANGED mandateVars
  BY <1>1, PeopleInvNext, MandateInvKept
<1>2. CASE MandateNext /\ UNCHANGED vars
  <2>1. PeopleInv' /\ RejectedStep /\ kind' = kind  BY <1>2, PeopleKept
  <2> QED  BY <1>2, <2>1, MandateInvNext
<1>3. CASE UNCHANGED allVars
  <2>1. UNCHANGED vars /\ UNCHANGED mandateVars  BY <1>3 DEF allVars
  <2>2. PeopleInv' /\ RejectedStep /\ kind' = kind  BY <2>1, PeopleKept
  <2> QED  BY <2>1, <2>2, MandateInvKept
<1> QED  BY <1>1, <1>2, <1>3 DEF Step

----------------------------------------------------------------------------
(* The organisation: what the invariant is for.                            *)

LEMMA PeopleFine ==
  ASSUME PeopleInv
  PROVE  DirTypeOK /\ ReviewsFollowPolicy /\ AdminRemains /\ GivenIsOwned
<1> USE DEF PeopleInv
<1>1. \A w \in Workers : job[w].pc = "idle" \/ w \in Syncs \/ job[w].user \in Users
  BY DEF JobsSound, Sound, Workers
<1> QED
  BY <1>1 DEF Typed, RightsSound, InvitesSound, DirTypeOK, Causes

(* What a run changes or removes it holds, by an account it owns.          *)
TouchStep ==
  \A s \in Syncs : MemberStep(s) =>
    \A u \in Users : (IsMember(u) /\ members'[u] # members[u])
                       \/ (IsInvited(u) /\ invites'[u] # invites[u])
                    => FromSync(u) \/ u \in rehired \/ stale \cap {"address", "invitation"} # {}

LEMMA TouchesItsOwn == PeopleInv => TouchStep
<1> SUFFICES ASSUME PeopleInv, NEW s \in Syncs, MemberStep(s), NEW u \in Users,
                    (IsMember(u) /\ members'[u] # members[u])
                      \/ (IsInvited(u) /\ invites'[u] # invites[u])
             PROVE  FromSync(u) \/ u \in rehired \/ stale \cap {"address", "invitation"} # {}
  BY DEF TouchStep
<1> USE DEF PeopleInv
<1>0. s \in Workers  BY DEF Workers
<1>1. CASE u = job[s].user /\ job[s].pc \in Changing \cup Removing
  <2>1. SyncSound(job[s])
    BY <1>0, <1>1, Places DEF Changing, Removing
  <2>2. job[s].account \in job[s].owned /\ job[s].user = Mailbox[job[s].account]
    BY <1>1, <2>1 DEF SyncSound, Changing, Removing
  <2>3. Held(u)  BY <1>1, <2>2 DEF Held
  <2> QED  BY <2>3 DEF HeldSafe, Excused
<1>2. GoOn(s)  BY DEF MemberStep
<1>3. job[s].pc # "idle" => job[s].pc \in OwnPcs \cup Changing \cup Removing \cup Inviting
  BY <1>0, Places
<1>4. CASE ReadMembership(s) \/ CheckNotMember(s) \/ ReadSettings(s) \/ ReadInvitation(s)
           \/ ResolveUser(s)
  BY <1>4 DEF ReadMembership, CheckNotMember, ReadSettings, ReadInvitation, ResolveUser,
              inviteVars
<1>5. CASE SetMembership(s) \/ DeleteMembership(s)
  <2>1. job[s].pc \in {"set", "delete"} /\ invites' = invites
    BY <1>5 DEF SetMembership, DeleteMembership, At, inviteVars
  <2>2. members' = members \/ \E m : members' = [members EXCEPT ![job[s].user] = m]
    <3>1. CASE SetMembership(s)
      <4> DEFINE row == members[job[s].user]
      <4>1. \/ members' = members
            \/ members' = [members EXCEPT ![job[s].user].role = job[s].to,
                                          ![job[s].user].right = RightAfter(row, job[s].to)]
        BY <3>1 DEF SetMembership
      <4>2. job[s].user \in Users  BY <1>0, <2>1, Places DEF OpPcs
      <4>3. CASE members' = [members EXCEPT ![job[s].user].role = job[s].to,
                                ![job[s].user].right = RightAfter(row, job[s].to)]
        <5>1. members' = [members EXCEPT ![job[s].user] =
                            [[row EXCEPT !.role = job[s].to]
                               EXCEPT !.right = RightAfter(row, job[s].to)]]
          BY <4>2, <4>3 DEF Typed
        <5> QED  BY <5>1
      <4> QED  BY <4>1, <4>3
    <3>2. CASE DeleteMembership(s)  BY <3>2 DEF DeleteMembership
    <3> QED  BY <1>5, <3>1, <3>2
  <2>3. u = job[s].user  BY <2>1, <2>2 DEF Typed
  <2> QED  BY <1>1, <2>1, <2>3 DEF Changing, Removing
<1>6. CASE CreateInvitation(s)
  <2>1. /\ members' = members
        /\ \/ invites' = invites
           \/ /\ ~IsInvited(job[s].user)
              /\ invites' = [invites EXCEPT ![job[s].user] = Invitation(nextInvite, job[s].to)]
    BY <1>6 DEF CreateInvitation
  <2>2. \A v \in Users : IsInvited(v) => invites'[v] = invites[v]
    BY <2>1 DEF Typed
  <2> QED  BY <2>1, <2>2
<1>7. CASE UpdateInvitation(s)
  <2>1. job[s].pc = "set_invite" /\ members' = members
    BY <1>7 DEF UpdateInvitation, At
  <2>2. invites' = invites \/ invites' = [invites EXCEPT ![job[s].user].role = job[s].to]
    BY <1>7 DEF UpdateInvitation
  <2>3. u = job[s].user  BY <2>1, <2>2 DEF Typed
  <2> QED  BY <1>1, <2>1, <2>3 DEF Changing
<1>8. CASE TakeBackInvitation(s)
  <2>1. job[s].pc = "revoke" /\ members' = members
    BY <1>8 DEF TakeBackInvitation, At
  <2>2. invites' = invites \/ invites' = [invites EXCEPT ![job[s].user] = NoOne]
    BY <1>8 DEF TakeBackInvitation, Withdraw
  <2>3. u = job[s].user  BY <2>1, <2>2 DEF Typed
  <2> QED  BY <1>1, <2>1, <2>3 DEF Removing
<1>9. CASE \/ SetReviewRight(s) \/ CompleteReverification(s) \/ UpdateMemberType(s)
           \/ SaveIdentitySettings(s) \/ ResendInvitation(s) \/ CreateIdentityReview(s)
           \/ AcceptInvitation(s) \/ LockIdentityReview(s) \/ ApproveReview(s)
  <2>1. job[s].pc \in {"give_right", "take_right", "verify", "retype", "policy", "resend", "hold",
                       "admit", "approve_review", "reject_review", "approve"}
    BY <1>9 DEF SetReviewRight, CompleteReverification, UpdateMemberType, SaveIdentitySettings,
                ResendInvitation, CreateIdentityReview, AcceptInvitation, LockIdentityReview,
                ApproveReview, At
  <2> QED  BY <1>3, <2>1 DEF OwnPcs, Changing, Removing, Inviting
<1> QED  BY <1>2, <1>4, <1>5, <1>6, <1>7, <1>8, <1>9 DEF GoOn

----------------------------------------------------------------------------
(* The theorems.                                                           *)

LEMMA Always == OrganizationSpec => []OrganizationInv /\ [][Step]_allVars
<1>1. OrganizationInv /\ [Step]_allVars => OrganizationInv'
  BY OrganizationInvNext
<1> QED  BY <1>1, OrganizationInvInit, PTL DEF OrganizationSpec

(* Every row, every call under way and every mandate is of its type, and a *)
(* mandate's window is never empty (mandates_window_check).                *)
THEOREM TypeCorrect == OrganizationSpec => []TypeOK
<1>1. OrganizationInv => TypeOK
  BY PeopleFine, MandatesFine DEF OrganizationInv
<1> QED  BY <1>1, Always, PTL

(* Who may review by the memberships is who may by the audit log           *)
(* (recordReviewChanged, setMembership), and every re-identification date  *)
(* follows the policy and the type in force (recomputeIdentityDueDatesTx), *)
(* unless a write acted on a right or a policy it had read before.         *)
THEOREM ReviewsFollow == OrganizationSpec => []ReviewsFollowPolicy
<1>1. OrganizationInv => ReviewsFollowPolicy
  BY PeopleFine DEF OrganizationInv
<1> QED  BY <1>1, Always, PTL

(* An administrator remains (keepAnAdmin) unless a call acted on a role it *)
(* no longer read; a sync changes only what a sync gave (syncPerson), and  *)
(* owns it for a later run to take back (invite); and who was rejected is  *)
(* admitted by no call under way (ResolveIdentityReview).                  *)
THEOREM MembersSafe ==
  OrganizationSpec =>
    SyncTouchesItsOwn /\ RejectedStaysOut /\ [](AdminRemains /\ GivenIsOwned)
<1>1. OrganizationInv => AdminRemains /\ GivenIsOwned
  BY PeopleFine DEF OrganizationInv
<1>2. OrganizationInv /\ [Step]_allVars => [TouchStep]_vars
  BY TouchesItsOwn DEF OrganizationInv
<1>3. OrganizationInv /\ [Step]_allVars => [RejectedStep]_vars
  BY OrganizationInvNext
<1>4. OrganizationSpec => [][TouchStep]_vars  BY <1>2, Always, PTL
<1>5. OrganizationSpec => [][RejectedStep]_vars  BY <1>3, Always, PTL
<1>6. OrganizationSpec => [](AdminRemains /\ GivenIsOwned)  BY <1>1, Always, PTL
<1> QED
  BY <1>4, <1>5, <1>6 DEF SyncTouchesItsOwn, RejectedStaysOut, TouchStep, RejectedStep

(* A mandate in force was cut from one in force, within its tier and its   *)
(* scope (clampToParent, the cascade of RevokeMandate), a revocation is    *)
(* dated within the window it ends, and no end ever moves later: whatever  *)
(* grants and revocations meet, except a grant from a descendant of a      *)
(* mandate whose revocation had already looked for what it would end.      *)
THEOREM ChainsHold == OrganizationSpec => MandateChains
<1>1. OrganizationInv => DelegatesEndToo /\ RevokedWithinWindow
  BY MandatesFine DEF OrganizationInv
<1>2. OrganizationInv /\ [Step]_allVars => [EndsSooner]_allVars
  BY OrganizationInvNext
<1>3. OrganizationSpec => [][EndsSooner]_allVars  BY <1>2, Always, PTL
<1>4. OrganizationSpec => [](DelegatesEndToo /\ RevokedWithinWindow)  BY <1>1, Always, PTL
<1> QED  BY <1>3, <1>4 DEF MandateChains, EndsOnlySooner, EndsSooner
=============================================================================
