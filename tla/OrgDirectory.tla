---------------------------- MODULE OrgDirectory ----------------------------
(***************************************************************************)
(* The directory sync of an organisation (backend/internal/provisioning):  *)
(* a run fetches who is in the source, takes away what it gave those who   *)
(* left, and invites or updates the others, through the operations of      *)
(* OrgMembers and beside the requests of people.                           *)
(***************************************************************************)
EXTENDS OrgMembers

CONSTANT Mailbox   \* each account's address

ASSUME MailboxAssumption == Mailbox \in [Accounts -> Users]

VARIABLES
  dir,        \* the source: each account gone, disabled, or with its role
  links,      \* provisioned_members: the accounts the sync owns here
  moves, faults,
  made,       \* history: the invitations the sync made
  rehired     \* history: whom an admin invited while a run held them its own

dirVars == <<dir, links, moves, faults, made, rehired>>
vars == <<orgVars, dirVars>>

InSource(snap) == {a \in Accounts : snap[a] # "gone"}
IsActive(snap, a) == snap[a] \in Roles

peopleVars == <<members, invites, mismatch, taken, nextInvite, audited, stale>>
aroundVars == <<kind, policy, requests>>

----------------------------------------------------------------------------
(* A run reads the source; an empty one is refused.                        *)
FetchDirectory(s) ==
  /\ s \in kind.syncs /\ At(s, "idle") /\ InSource(dir) # {}
  /\ job' = [job EXCEPT ![s] = [Idle EXCEPT !.pc = "links", !.snap = dir]]
  /\ UNCHANGED peopleVars /\ UNCHANGED aroundVars /\ UNCHANGED dirVars

(* Mutant: whoever left is passed over.                                    *)
LeaversNone(owned, snap) == {}

(* Who of the owned accounts is no longer in the source.                   *)
Leavers(owned, snap) == owned \ InSource(snap)

MemberLinks(s) ==
  /\ At(s, "links")
  /\ job' = [job EXCEPT ![s].pc = "next", ![s].owned = links,
                        ![s].todo = Leavers(links, job[s].snap),
                        ![s].people = InSource(job[s].snap)]
  /\ UNCHANGED peopleVars /\ UNCHANGED aroundVars /\ UNCHANGED dirVars

(* MemberEntryByEmail, a membership before an invitation; then what        *)
(* deprovision does: remove, revoke, or only let go.                       *)
Deprovision(j, a) ==
  LET u == Mailbox[a]
      to(pc) == [j EXCEPT !.pc = pc, !.user = u, !.account = a, !.back = "unlink"] IN
  IF IsMember(u) THEN to("remove")
  ELSE IF IsInvited(u) THEN [to("revoke") EXCEPT !.id = invites[u].id]
  ELSE to("unlink")

(* Mutant: whoever has the address is updated.                             *)
OwnsAny(j, a) == TRUE

Owns(j, a) == a \in j.owned

(* claimed: another account of ours holds the address.                     *)
Claimed(j, a) == \E b \in j.owned \ {a} : Mailbox[b] = Mailbox[a]

(* Mutant: the invitation is made and not linked.                          *)
InviteThenNext == "next"

(* invite: the invitation, then its link.                                  *)
InviteThen == "link"

(* syncPerson of an active account.                                        *)
Provision(j, a) ==
  LET u == Mailbox[a]
      to(pc, back) == [j EXCEPT !.pc = pc, !.user = u, !.to = j.snap[a],
                                !.account = a, !.back = back] IN
  CASE ~IsMember(u) /\ ~IsInvited(u) ->
         IF a \in j.owned \/ Claimed(j, a) THEN j ELSE to("insert_invite", InviteThen)
    [] IsMember(u) ->
         IF ~Owns(j, a) \/ members[u].role = j.snap[a] THEN j ELSE to("update", "next")
    [] OTHER ->
         IF ~Owns(j, a) \/ invites[u].role = j.snap[a] THEN j
         ELSE [to("set_invite", "next") EXCEPT !.id = invites[u].id]

(* The next account: first those who left, then the others.                *)
NextAccount(s) ==
  /\ At(s, "next")
  /\ LET j == job[s] IN
     \/ \E a \in j.todo :
          job' = [job EXCEPT ![s] = Deprovision([j EXCEPT !.todo = @ \ {a}], a)]
     \/ /\ j.todo = {}
        /\ \E a \in j.people :
             LET rest == [j EXCEPT !.people = @ \ {a}] IN
             job' = [job EXCEPT ![s] =
                       IF IsActive(j.snap, a) THEN Provision(rest, a)
                       ELSE IF Owns(j, a) THEN Deprovision(rest, a) ELSE rest]
     \/ j.todo = {} /\ j.people = {} /\ job' = [job EXCEPT ![s] = Idle]
  /\ UNCHANGED peopleVars /\ UNCHANGED aroundVars /\ UNCHANGED dirVars

(* UnlinkMember; the run forgets a link only of those who left.            *)
UnlinkMember(s) ==
  /\ At(s, "unlink")
  /\ LET a == job[s].account IN
     /\ links' = links \ {a}
     /\ Stale("link", IsInvited(Mailbox[a]) \/ IsMember(Mailbox[a]))
     /\ job' = [job EXCEPT ![s].pc = "next",
                           ![s].owned = IF job[s].snap[a] = "gone" THEN @ \ {a} ELSE @]
  /\ UNCHANGED <<members, invites, mismatch, taken, nextInvite, audited>> /\ UNCHANGED aroundVars
  /\ UNCHANGED <<dir, moves, faults, made, rehired>>

(* LinkMember: one account per address.                                    *)
LinkMember(s) ==
  /\ At(s, "link")
  /\ LET a == job[s].account IN
     IF \E b \in links \ {a} : Mailbox[b] = Mailbox[a]
     THEN job' = [job EXCEPT ![s] = Idle] /\ Stale("link", TRUE) /\ UNCHANGED links
     ELSE Go(s, "next") /\ links' = links \cup {a} /\ UNCHANGED stale
  /\ UNCHANGED <<members, invites, mismatch, taken, nextInvite, audited>> /\ UNCHANGED aroundVars
  /\ UNCHANGED <<dir, moves, faults, made, rehired>>

(* A statement fails, or the process dies: the run ends where it is.       *)
SyncFails(s) ==
  /\ s \in Syncs /\ ~At(s, "idle") /\ faults < kind.faults
  /\ faults' = faults + 1
  /\ job' = [job EXCEPT ![s] = Idle]
  /\ UNCHANGED peopleVars /\ UNCHANGED aroundVars
  /\ UNCHANGED <<dir, links, moves, made, rehired>>

(* The source changes.                                                     *)
DirectoryChanges ==
  /\ moves < kind.moves /\ moves' = moves + 1
  /\ \E a \in Accounts, to \in {"gone", "disabled", "member", "admin"} :
       to # dir[a] /\ dir' = [dir EXCEPT ![a] = to]
  /\ UNCHANGED orgVars /\ UNCHANGED <<links, faults, made, rehired>>

----------------------------------------------------------------------------
(* New invitations of a step, and by whom they were made.                  *)
NewInvites == {u \in Users : invites'[u] # NoOne
                 /\ (IsInvited(u) => invites'[u].id # invites[u].id)}
Linked(u) == \/ \E a \in links : Mailbox[a] = u
             \/ \E s \in Syncs : At(s, "link") /\ job[s].user = u
(* Also what a run that is under way owned when it began.                  *)
Held(u) == Linked(u) \/ \E s \in Syncs : \E a \in job[s].owned : Mailbox[a] = u

Remember(w) ==
  /\ made' = IF w \in Syncs THEN made \cup {<<u, invites'[u].id>> : u \in NewInvites} ELSE made
  /\ rehired' = IF w \in Calls THEN rehired \cup {u \in NewInvites : Held(u)} ELSE rehired

Init ==
  /\ OrgInit
  /\ dir = [a \in Accounts |-> IF kind.syncs = {} THEN "gone" ELSE "member"]
  /\ links = {} /\ moves = 0 /\ faults = 0 /\ made = {} /\ rehired = {}

SyncStep(s) == FetchDirectory(s) \/ MemberLinks(s) \/ NextAccount(s) \/ UnlinkMember(s)
                 \/ LinkMember(s)

MemberStep(w) == GoOn(w) /\ Remember(w) /\ UNCHANGED <<dir, links, moves, faults>>

Around == \/ \E w \in Calls : Begin(w) /\ UNCHANGED dirVars
          \/ \E u \in Users : InvitationExpires(u) /\ UNCHANGED dirVars

DirNext == \/ \E w \in Workers : MemberStep(w)
           \/ \E s \in Syncs : SyncStep(s) \/ SyncFails(s)
           \/ Around \/ DirectoryChanges

----------------------------------------------------------------------------
(* Types.                                                                  *)
DirTypeOK ==
  /\ kind \in Kinds /\ policy \in Policies /\ mismatch \subseteq Users
  /\ members \in [Users -> Memberships \cup {NoOne}]
  /\ invites \in [Users -> Invitations \cup {NoOne}]
  /\ \A u \in Users : IsInvited(u) => invites[u].id \in 1..(nextInvite - 1)
  /\ \A w \in Workers : job[w].pc = "idle" \/ w \in Syncs \/ job[w].user \in Users
  /\ links \subseteq Accounts /\ audited \subseteq Users
  /\ stale \subseteq {"role", "right", "settings", "invitation", "address", "link"}

(* An organisation keeps an administrator (keepAnAdmin,                    *)
(* RemoveMembership), whatever updates and removals come together, unless  *)
(* one acted on a role that was no longer the one it read.                 *)
AdminRemains == "role" \in stale \/ AdminsNow # {}

(* Who may review, by the memberships, is who may by the audit log: the    *)
(* right's own changes and the role changes and removals that end it are   *)
(* all on record, unless an update acted on a right it no longer read.     *)
RightAudited ==
  "right" \in stale \/ audited = {u \in Users : IsMember(u) /\ members[u].right}

(* Every re-identification date follows the policy and the type in force   *)
(* (recomputeIdentityDueDatesTx), unless it was written from a policy read *)
(* before that policy was replaced.                                        *)
DuesFollowPolicy ==
  \/ "settings" \in stale
  \/ \A u \in Users : IsMember(u) => members[u].due = DueAtFor(policy, members[u].type)

(* The invitation whose review a reviewer rejected admits nobody and is    *)
(* not decided again, by whatever accept or approval was under way.        *)
RejectedStaysOut ==
  [][\A u \in Users : IsInvited(u) /\ invites[u].review = "rejected" =>
       /\ ~IsMember(u) /\ members'[u] # NoOne => members'[u].by # invites[u].id
       /\ invites'[u] # NoOne /\ invites'[u].id = invites[u].id
            => invites'[u].review = "rejected"]_vars

----------------------------------------------------------------------------
(* An invitation or a membership the sync gave.                            *)
FromSync(u) == \/ IsInvited(u) /\ <<u, invites[u].id>> \in made
               \/ IsMember(u) /\ <<u, members[u].by>> \in made

(* A run changes or removes only what a run gave (syncPerson reports any   *)
(* other as a conflict), except where an admin invited somebody a run      *)
(* still held, a run invited who had just become a member, or somebody     *)
(* came in on an invitation already taken back.                            *)
SyncTouchesItsOwn ==
  [][\A s \in Syncs : MemberStep(s) =>
       \A u \in Users : (IsMember(u) /\ members'[u] # members[u])
                          \/ (IsInvited(u) /\ invites'[u] # invites[u])
                       => FromSync(u) \/ u \in rehired
                            \/ stale \cap {"address", "invitation"} # {}]_vars

(* What a run gave it owns, so that a later run can take it back: nothing  *)
(* a run gave is left without a link, unless a step failed, two runs met   *)
(* at the address, somebody came in on an invitation already taken back,   *)
(* or one was invited who had just become a member.                        *)
GivenIsOwned ==
  faults > 0 \/ stale \cap {"invitation", "address", "link"} # {} \/ \A u \in Users : FromSync(u) => Linked(u)

(* Somebody who left the source, or was disabled in it, ends up without    *)
(* what the sync gave them, unless they are the last administrator or the  *)
(* source is empty, which a run refuses to follow.                         *)
LeaversLose ==
  \A a \in Accounts :
    (a \in links /\ ~IsActive(dir, a)) ~>
      (a \notin links \/ IsActive(dir, a) \/ InSource(dir) = {}
         \/ AdminsNow = {Mailbox[a]})

(* Who is in: an administrator remains, no sync moves what an              *)
(* administrator did by hand, who was rejected or left stays out, and what *)
(* a sync gave it can take back.                                           *)
MembersKept ==
  SyncTouchesItsOwn /\ RejectedStaysOut /\ LeaversLose /\ [](AdminRemains /\ GivenIsOwned)

(* Reviews and due dates follow the roles and the policy they are made     *)
(* under (RightAudited, DuesFollowPolicy).                                 *)
ReviewsFollowPolicy == RightAudited /\ DuesFollowPolicy
=============================================================================
