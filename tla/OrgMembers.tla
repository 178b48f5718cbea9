----------------------------- MODULE OrgMembers -----------------------------
(***************************************************************************)
(* The people of one organisation (backend/internal/organization): its     *)
(* memberships with their role, reviewer right, type and re-identification *)
(* date, the invitations that lead to them, the reviews that hold an       *)
(* acceptance, and the policy the dates follow.                            *)
(*                                                                         *)
(* PostgreSQL runs every transaction at READ COMMITTED: a statement that   *)
(* only reads is a step of its own, and what follows it acts on what it    *)
(* saw.  A transaction's statements from its first row lock on are one     *)
(* step where nothing that could tell can come between them.               *)
(***************************************************************************)
EXTENDS Naturals, FiniteSets

CONSTANTS
  Users,       \* people, by e-mail address
  Calls,       \* requests under way at once
  Syncs,       \* runs of the directory sync (OrgDirectory)
  Accounts,    \* accounts in the directory (OrgDirectory)
  Kinds,       \* who is there at first and which requests come (below)
  NoOne        \* no row

Workers == Calls \cup Syncs

Roles == {"admin", "member"}
Types == {"employee", "external"}
Policies == 0..2

(* A membership, and an invitation with its review.                        *)
Memberships == [role : Roles, right : BOOLEAN, type : Types,
                due : [policy : Policies, type : Types], by : Nat]
Invitations == [id : Nat, role : Roles, live : BOOLEAN, review : {"none", "pending", "rejected"}]

(* What requests ask: the step they begin with, of whom, and to what.      *)
Requests ==
  [op : {"update", "invite"}, user : Users, to : Roles]
    \cup [op : {"type_settings"}, user : Users, to : Types]
    \cup [op : {"remove", "give_right", "take_right", "verify_settings", "policy", "accept",
                "revoke", "resend", "approve_review", "reject_review"}, user : Users, to : {""}]

(* A setting: who is a member, who is invited, and as what; whose stored   *)
(* name is not the one they disclose; the requests that may come, how      *)
(* many in all; which syncs run, how often the directory changes and how   *)
(* many of their steps fail; and for Mandates who is registered as legal   *)
(* representative, how many calls on mandates there are, which grants they *)
(* ask for (at once or from the last day on, to that day or for good), and *)
(* how many days pass.  Who registers an organisation is its first admin.  *)
ASSUME OrgAssumption ==
  /\ NoOne \notin Users \cup Roles \cup Memberships \cup Invitations
  /\ Calls \cap Syncs = {} /\ IsFiniteSet(Users)
  /\ \A k \in Kinds : \E u \in Users : k.members[u] = "admin"
  /\ Kinds \subseteq [members : [Users -> Roles \cup {NoOne}],
                      invited : [Users -> Roles \cup {NoOne}],
                      mismatch : SUBSET Users, ops : SUBSET Requests,
                      requests : Nat, syncs : SUBSET Syncs, moves : Nat, faults : Nat,
                      reps : SUBSET Users, mandates : Nat, days : Nat,
                      grants : SUBSET [type : {"full", "administrative"},
                                       scope : {"organization", "department"},
                                       later : BOOLEAN, ends : BOOLEAN]]

VARIABLES
  kind,        \* the setting; never changes
  members,     \* memberships
  invites,     \* invitations, each with its review
  mismatch,    \* whose stored name is not the one they disclose
  policy,      \* the version of the re-identification policy
  job,         \* each worker's call
  requests, nextInvite,
  taken,       \* history: invitations used, declined or taken back
  audited,     \* history: whom the audit log shows with the reviewer right
  stale        \* history: what was written on a read that no longer held

orgVars == <<kind, members, invites, mismatch, policy, job, requests, nextInvite,
             taken, audited, stale>>

(* identity_due_at: which policy and type it was computed from.            *)
DueAtFor(p, type) == [policy |-> p, type |-> type]

Row(role, type, due, by) ==
  [role |-> role, right |-> FALSE, type |-> type, due |-> due, by |-> by]

Invitation(id, role) == [id |-> id, role |-> role, live |-> TRUE, review |-> "none"]

Idle == [pc |-> "idle", user |-> NoOne, to |-> "", role |-> "", right |-> FALSE, id |-> 0,
         policy |-> 0, back |-> "idle", account |-> NoOne, todo |-> {}, people |-> {},
         owned |-> {}, snap |-> <<>>]

At(w, pc) == job[w].pc = pc
Go(w, pc) == job' = [job EXCEPT ![w].pc = pc]

(* A call ends, or a sync goes on from it: after what it did, or past it.  *)
After(j, how) ==
  IF j.back = "idle" \/ how = "error" THEN Idle
  ELSE [j EXCEPT !.pc = IF how = "done" THEN j.back ELSE "next"]
Ends(w, how) == job' = [job EXCEPT ![w] = After(@, how)]

IsMember(u) == members[u] # NoOne
IsInvited(u) == invites[u] # NoOne
AdminsNow == {u \in Users : IsMember(u) /\ members[u].role = "admin"}

Stale(what, isStale) == stale' = IF isStale THEN stale \cup {what} ELSE stale

inviteVars == <<invites, taken, nextInvite, mismatch>>
restVars   == <<kind, policy, requests>>

----------------------------------------------------------------------------
(* Memberships.                                                            *)

(* UpdateMembership and RemoveMembership read the row without a lock.      *)
ReadMembership(w) ==
  /\ At(w, "update") \/ At(w, "remove")
  /\ LET u == job[w].user IN
       IF IsMember(u)
       THEN job' = [job EXCEPT ![w].pc = IF @ = "update" THEN "set" ELSE "delete",
                               ![w].role = members[u].role, ![w].right = members[u].right]
       ELSE Ends(w, "error")
  /\ UNCHANGED <<members, audited, stale>> /\ UNCHANGED inviteVars /\ UNCHANGED restVars

(* Mutant: one admin is enough.                                            *)
KeepsAnAdminOfOne(w) == job[w].role = "admin" => Cardinality(AdminsNow) >= 1

(* keepAnAdmin: to take a role from who was read as an admin, the admins   *)
(* are locked and counted.                                                 *)
KeepsAnAdmin(w) == job[w].role = "admin" => Cardinality(AdminsNow) > 1

(* Mutant: a demoted admin keeps the reviewer right.                       *)
RightAfterKept(row, role) == row.right

(* A role change clears the reviewer right.                                *)
RightAfter(row, role) == row.right /\ role = row.role

SetMembership(w) ==
  /\ At(w, "set")
  /\ LET j == job[w]  u == j.user  row == members[u] IN
     IF ~(j.to = "member" => KeepsAnAdmin(w))
     THEN Ends(w, "refused") /\ UNCHANGED <<members, audited, stale>>
     ELSE IF ~IsMember(u)
     THEN Ends(w, "error") /\ UNCHANGED <<members, audited, stale>>
     ELSE /\ members' = [members EXCEPT ![u].role = j.to, ![u].right = RightAfter(row, j.to)]
          /\ audited' = IF j.right /\ j.to # j.role THEN audited \ {u} ELSE audited
          /\ stale' = stale \cup (IF row.role # j.role THEN {"role"} ELSE {})
                            \cup (IF row.right # j.right THEN {"right"} ELSE {})
          /\ Ends(w, "done")
  /\ UNCHANGED inviteVars /\ UNCHANGED restVars

(* RemoveMembership: deleting a row that is gone is no error.              *)
DeleteMembership(w) ==
  /\ At(w, "delete")
  /\ LET u == job[w].user IN
     IF KeepsAnAdmin(w)
     THEN /\ members' = [members EXCEPT ![u] = NoOne]
          /\ audited' = audited \ {u}
          /\ Stale("role", IsMember(u) /\ members[u].role # job[w].role)
          /\ Ends(w, "done")
     ELSE Ends(w, "refused") /\ UNCHANGED <<members, audited, stale>>
  /\ UNCHANGED inviteVars /\ UNCHANGED restVars

(* SetReviewRight: under the row's lock; an admin reviews by their role.   *)
SetReviewRight(w) ==
  /\ At(w, "give_right") \/ At(w, "take_right")
  /\ LET u == job[w].user  right == At(w, "give_right") IN
     IF IsMember(u) /\ members[u].role = "member"
     THEN /\ members' = [members EXCEPT ![u].right = right]
          /\ audited' = IF right THEN audited \cup {u} ELSE audited \ {u}
     ELSE UNCHANGED <<members, audited>>
  /\ Ends(w, "done")
  /\ UNCHANGED stale /\ UNCHANGED inviteVars /\ UNCHANGED restVars

----------------------------------------------------------------------------
(* The re-identification policy.                                           *)

(* identitySettingsTx: the policy as a transaction reads it.               *)
ReadSettings(w) ==
  /\ job[w].pc \in {"admit_settings", "approve_settings", "verify_settings", "type_settings"}
  /\ job' = [job EXCEPT ![w].policy = policy,
                        ![w].pc = CASE @ = "admit_settings"   -> "admit"
                                    [] @ = "approve_settings" -> "approve"
                                    [] @ = "verify_settings"  -> "verify"
                                    [] @ = "type_settings"    -> "retype"]
  /\ UNCHANGED <<members, audited, stale>> /\ UNCHANGED inviteVars /\ UNCHANGED restVars

(* The date of a member's row, from the policy read before.                *)
WriteDue(w, type) ==
  LET u == job[w].user IN
  /\ members' = [members EXCEPT ![u].type = type, ![u].due = DueAtFor(job[w].policy, type)]
  /\ Stale("settings", job[w].policy # policy)

CompleteReverification(w) ==
  /\ At(w, "verify")
  /\ IF IsMember(job[w].user) THEN WriteDue(w, members[job[w].user].type)
     ELSE UNCHANGED <<members, stale>>
  /\ Ends(w, "done")
  /\ UNCHANGED audited /\ UNCHANGED inviteVars /\ UNCHANGED restVars

UpdateMemberType(w) ==
  /\ At(w, "retype")
  /\ IF IsMember(job[w].user) THEN WriteDue(w, job[w].to) ELSE UNCHANGED <<members, stale>>
  /\ Ends(w, "done")
  /\ UNCHANGED audited /\ UNCHANGED inviteVars /\ UNCHANGED restVars

(* Mutant: members' dates are left as they are.                            *)
RecomputedNever == members

(* recomputeIdentityDueDatesTx.                                            *)
Recomputed ==
  [u \in Users |-> IF IsMember(u)
                   THEN [members[u] EXCEPT !.due = DueAtFor(policy', members[u].type)]
                   ELSE NoOne]

SaveIdentitySettings(w) ==
  /\ At(w, "policy") /\ policy + 1 \in Policies
  /\ policy' = policy + 1
  /\ members' = Recomputed
  /\ Ends(w, "done")
  /\ UNCHANGED <<kind, requests, audited, stale>> /\ UNCHANGED inviteVars

----------------------------------------------------------------------------
(* Invitations.                                                            *)

(* InviteMember: whether the address is a member's is asked first.         *)
CheckNotMember(w) ==
  /\ At(w, "invite")
  /\ IF IsMember(job[w].user) THEN Ends(w, "error") ELSE Go(w, "insert_invite")
  /\ UNCHANGED <<members, audited, stale>> /\ UNCHANGED inviteVars /\ UNCHANGED restVars

(* CreateInvitation: one per address; whose it is is not asked again.      *)
CreateInvitation(w) ==
  /\ At(w, "insert_invite")
  /\ LET u == job[w].user IN
     IF IsInvited(u)
     THEN Ends(w, "refused") /\ UNCHANGED <<invites, nextInvite, stale>>
     ELSE /\ invites' = [invites EXCEPT ![u] = Invitation(nextInvite, job[w].to)]
          /\ nextInvite' = nextInvite + 1
          /\ Stale("address", IsMember(u))
          /\ Ends(w, "done")
  /\ UNCHANGED <<members, audited, taken, mismatch>> /\ UNCHANGED restVars

(* UpdateInvitation: by id, for the sync; the link stays good.             *)
UpdateInvitation(w) ==
  /\ At(w, "set_invite")
  /\ LET u == job[w].user IN
     IF IsInvited(u) /\ invites[u].id = job[w].id
     THEN invites' = [invites EXCEPT ![u].role = job[w].to] /\ Ends(w, "done")
     ELSE Ends(w, "error") /\ UNCHANGED invites
  /\ UNCHANGED <<members, audited, stale, taken, mismatch, nextInvite>> /\ UNCHANGED restVars

(* Who holds the lock on the review of this invitation.                    *)
Approvers(u) == {w \in Workers : job[w].pc \in {"approve_settings", "approve"}
                                   /\ job[w].user = u}

(* An invitation goes with its review.  Where an approval holds the        *)
(* review, it and the deletion wait for each other, and PostgreSQL ends    *)
(* one of them: here the approval; the other way round the call fails.     *)
Withdraw(u) ==
  /\ invites' = [invites EXCEPT ![u] = NoOne]
  /\ taken' = taken \cup {<<u, invites[u].id>>}
WithoutApprovers(u, w, j) ==
  [x \in Workers |-> IF x = w THEN j ELSE IF x \in Approvers(u) THEN Idle ELSE job[x]]

(* RevokeInvitation and DeclineInvitation.                                 *)
TakeBackInvitation(w) ==
  /\ At(w, "revoke")
  /\ LET u == job[w].user IN
     IF IsInvited(u) /\ job[w].id \in {0, invites[u].id}
     THEN Withdraw(u) /\ job' = WithoutApprovers(u, w, After(job[w], "done"))
     ELSE Ends(w, "error") /\ UNCHANGED <<invites, taken>>
  /\ UNCHANGED <<members, audited, stale, mismatch, nextInvite>> /\ UNCHANGED restVars

ResendInvitation(w) ==
  /\ At(w, "resend")
  /\ LET u == job[w].user IN
     IF IsInvited(u) THEN invites' = [invites EXCEPT ![u].live = TRUE] ELSE UNCHANGED invites
  /\ Ends(w, "done")
  /\ UNCHANGED <<members, audited, stale, taken, mismatch, nextInvite>> /\ UNCHANGED restVars

InvitationExpires(u) ==
  /\ IsInvited(u) /\ invites[u].live /\ [op |-> "resend", user |-> u, to |-> ""] \in kind.ops
  /\ invites' = [invites EXCEPT ![u].live = FALSE]
  /\ UNCHANGED <<members, audited, stale, taken, mismatch, nextInvite, job>> /\ UNCHANGED restVars

(* AcceptInvitation reads the invitation before the person discloses.      *)
ReadInvitation(w) ==
  /\ At(w, "accept")
  /\ LET u == job[w].user IN
     IF IsInvited(u) /\ invites[u].live
     THEN job' = [job EXCEPT ![w].pc = "resolve", ![w].id = invites[u].id,
                             ![w].role = invites[u].role]
     ELSE Ends(w, "error")
  /\ UNCHANGED <<members, audited, stale>> /\ UNCHANGED inviteVars /\ UNCHANGED restVars

(* resolveUser: a name other than the stored one goes to a reviewer.       *)
ResolveUser(w) ==
  /\ At(w, "resolve")
  /\ Go(w, IF job[w].user \in mismatch THEN "hold" ELSE "admit_settings")
  /\ UNCHANGED <<members, audited, stale>> /\ UNCHANGED inviteVars /\ UNCHANGED restVars

(* CreateIdentityReview: one per invitation, its decision stands.          *)
CreateIdentityReview(w) ==
  /\ At(w, "hold")
  /\ LET u == job[w].user IN
     IF IsInvited(u) /\ invites[u].id = job[w].id /\ invites[u].review = "none"
     THEN invites' = [invites EXCEPT ![u].review = "pending"]
     ELSE UNCHANGED invites
  /\ Ends(w, "done")
  /\ UNCHANGED <<members, audited, stale, taken, mismatch, nextInvite>> /\ UNCHANGED restVars

(* Admission: the membership, and the invitation deleted if it is there.   *)
Admit(w, type) ==
  LET u == job[w].user  j == job[w] IN
  IF IsMember(u)
  THEN Ends(w, "error") /\ UNCHANGED <<members, invites, taken, stale>>
  ELSE /\ members' = [members EXCEPT ![u] = Row(j.role, type, DueAtFor(j.policy, type), j.id)]
       /\ IF IsInvited(u) /\ invites[u].id = j.id
          THEN Withdraw(u) /\ job' = WithoutApprovers(u, w, After(j, "done"))
          ELSE Ends(w, "done") /\ UNCHANGED <<invites, taken>>
       /\ stale' = stale \cup (IF j.policy # policy THEN {"settings"} ELSE {})
                         \cup (IF <<u, j.id>> \in taken THEN {"invitation"} ELSE {})

(* Store.AcceptInvitation.                                                 *)
AcceptInvitation(w) ==
  /\ At(w, "admit")
  /\ Admit(w, "employee")
  /\ UNCHANGED <<audited, mismatch, nextInvite>> /\ UNCHANGED restVars

----------------------------------------------------------------------------
(* Identity reviews.                                                       *)

(* Mutant: a decided review is decided again.                              *)
ReviewOpenEver(u) == invites[u].review # "none"

(* ResolveIdentityReview decides a pending review once.                    *)
ReviewOpen(u) == invites[u].review = "pending"

LockIdentityReview(w) ==
  /\ At(w, "approve_review") \/ At(w, "reject_review")
  /\ Approvers(job[w].user) = {}
  /\ LET u == job[w].user IN
     CASE ~IsInvited(u) \/ ~ReviewOpen(u) -> Ends(w, "error") /\ UNCHANGED invites
       [] IsInvited(u) /\ ReviewOpen(u) /\ At(w, "reject_review") ->
            /\ invites' = [invites EXCEPT ![u].review = "rejected"]
            /\ Ends(w, "done")
       [] OTHER ->
            /\ job' = [job EXCEPT ![w].pc = "approve_settings", ![w].id = invites[u].id,
                                  ![w].role = invites[u].role]
            /\ UNCHANGED invites
  /\ UNCHANGED <<members, audited, stale, taken, mismatch, nextInvite>> /\ UNCHANGED restVars

ApproveReview(w) ==
  /\ At(w, "approve")
  /\ Admit(w, "employee")
  /\ mismatch' = IF IsMember(job[w].user) THEN mismatch ELSE mismatch \ {job[w].user}
  /\ UNCHANGED <<audited, nextInvite>> /\ UNCHANGED restVars

----------------------------------------------------------------------------
(* A request comes in.                                                     *)
Begin(w) ==
  /\ w \in Calls /\ At(w, "idle") /\ requests < kind.requests
  /\ requests' = requests + 1
  /\ \E o \in kind.ops :
       job' = [job EXCEPT ![w] = [Idle EXCEPT !.pc = o.op, !.user = o.user, !.to = o.to]]
  /\ UNCHANGED <<kind, members, invites, mismatch, policy, nextInvite, taken, audited, stale>>

OrgInit ==
  /\ kind \in Kinds
  /\ members = [u \in Users |-> IF kind.members[u] = NoOne THEN NoOne
                                ELSE Row(kind.members[u], "employee", DueAtFor(0, "employee"), 0)]
  /\ invites = [u \in Users |-> IF kind.invited[u] = NoOne THEN NoOne
                                ELSE Invitation(1, kind.invited[u])]
  /\ mismatch = kind.mismatch /\ policy = 0
  /\ job = [w \in Workers |-> Idle]
  /\ requests = 0 /\ nextInvite = 2
  /\ taken = {} /\ audited = {} /\ stale = {}

(* What a request does once it is under way.                               *)
GoOn(w) ==
  \/ ReadMembership(w) \/ SetMembership(w) \/ DeleteMembership(w) \/ SetReviewRight(w)
  \/ ReadSettings(w) \/ CompleteReverification(w) \/ UpdateMemberType(w)
  \/ SaveIdentitySettings(w)
  \/ CheckNotMember(w) \/ CreateInvitation(w) \/ UpdateInvitation(w) \/ TakeBackInvitation(w)
  \/ ResendInvitation(w) \/ ReadInvitation(w) \/ ResolveUser(w) \/ CreateIdentityReview(w)
  \/ AcceptInvitation(w) \/ LockIdentityReview(w) \/ ApproveReview(w)

OrgNext == (\E w \in Workers : GoOn(w) \/ Begin(w)) \/ \E u \in Users : InvitationExpires(u)
=============================================================================
