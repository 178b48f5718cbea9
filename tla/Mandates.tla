------------------------------ MODULE Mandates ------------------------------
(***************************************************************************)
(* The mandate register of an organisation (backend/internal/organization, *)
(* mandate.go and mandate_store.go) beside its members and its directory   *)
(* sync: a legal representative gives a member authority, who delegates    *)
(* from it; a revocation ends a mandate and what was cut from it.          *)
(*                                                                         *)
(* Time is a day count.  A revocation holds its target's row lock from     *)
(* "revoke" to "cascade"; the cascade's statement sees the rows that were  *)
(* there when it began, and looks again at each row it has to wait for.    *)
(***************************************************************************)
EXTENDS OrgDirectory, Sequences

CONSTANTS
  Callers,     \* requests on mandates under way at once
  LastDay

ASSUME DayAssumption == LastDay \in Nat \ {0} /\ \A k \in Kinds : k.days <= LastDay

Days == 0..LastDay
Ever == LastDay + 1          \* no date
Tiers == {"full", "administrative"}
Scopes == {"organization", "department"}

VARIABLES
  register,    \* mandates, in the order they were made
  reps,        \* claimed, current representations (wallet_representations)
  today,
  act,         \* each caller's request
  calls,
  late         \* history: mandates cut from one that a cascade was about to end

mandateVars == <<register, reps, today, act, calls, late>>
allVars == <<vars, mandateVars>>

NoParent == 0
Ids == DOMAIN register
Mandate(m) == register[m]

Resting == [pc |-> "idle", by |-> NoOne, at |-> 0, rep |-> FALSE, target |-> 0,
            end |-> Ever, found |-> {}, grant |-> <<>>]

----------------------------------------------------------------------------
(* mandateStatus: revocation wins over expiry.                             *)
Status(m, day) ==
  CASE m.revoked <= day -> "revoked"
    [] m.revoked > day /\ m.until <= day -> "expired"
    [] m.revoked > day /\ m.until > day /\ m.from > day -> "pending"
    [] OTHER -> "active"

InForce(m) == Status(Mandate(m), today) = "active"

Rank(type) == IF type = "full" THEN 2 ELSE 1

Earliest(a, b) == IF a < b THEN a ELSE b
Latest(a, b) == IF a > b THEN a ELSE b

(* ownFullMandate: the earliest the caller may delegate from.              *)
OwnFull(u) ==
  LET held == {m \in Ids : /\ Mandate(m).grantee = u /\ Mandate(m).type = "full"
                           /\ Mandate(m).scope = "organization" /\ InForce(m)} IN
  {m \in held : \A n \in held : Mandate(m).from <= Mandate(n).from}

(* clampToParent: the window is cut to the parent's; a higher tier, a wider *)
(* scope or an empty window is refused.                                    *)
Clamped(g, p) == [g EXCEPT !.from = Latest(g.from, p.from), !.until = Earliest(g.until, p.until)]

Fits(g, p, day) ==
  /\ Status(p, day) = "active"
  /\ Rank(g.type) <= Rank(p.type)
  /\ p.scope = "department" => g.scope = "department"
  /\ Clamped(g, p).from < Clamped(g, p).until

----------------------------------------------------------------------------
(* Granting.                                                               *)

(* The grant a caller asks for, cut from one it names or from none.        *)
Requested(u, v, p, ask) ==
  [grantor |-> u, grantee |-> v, type |-> ask.type, scope |-> ask.scope, parent |-> p,
   from |-> IF ask.later THEN LastDay ELSE today, until |-> IF ask.ends THEN LastDay ELSE Ever,
   revoked |-> Ever]

AskGrant(c, u) ==
  \E v \in Users, p \in {NoParent} \cup Ids, ask \in kind.grants :
    LET g == Requested(u, v, p, ask) IN
    /\ g.from < g.until
    /\ act' = [act EXCEPT ![c] = [Resting EXCEPT !.pc = "grant", !.by = u, !.at = today,
                                                 !.grant = g]]

(* The grantee's membership, the grantor's representation and, where no    *)
(* parent is named, the mandate to cut from: reads without a lock.         *)
ReadGrant(c) ==
  /\ act[c].pc = "grant"
  /\ LET u == act[c].by  g == act[c].grant  rep == u \in reps
         cut(p) == act' = [act EXCEPT ![c].pc = "insert", ![c].rep = rep, ![c].grant.parent = p] IN
     IF ~IsMember(g.grantee) THEN act' = [act EXCEPT ![c] = Resting]
     ELSE IF g.parent # NoParent \/ rep THEN cut(g.parent)
     ELSE IF OwnFull(u) # {} THEN \E p \in OwnFull(u) : cut(p)
     ELSE act' = [act EXCEPT ![c] = Resting]
  /\ UNCHANGED <<register, reps, today, calls, late>>

(* Mutant: the parent is read without its lock.                            *)
ParentFreeAlways(p) == TRUE

(* lockMandate waits for a revocation of the parent.                       *)
ParentFree(p) == \A c \in Callers : act[c].pc = "cascade" => act[c].target # p

InsertMandate(c) ==
  /\ act[c].pc = "insert" /\ ParentFree(act[c].grant.parent)
  /\ LET g == act[c].grant
         p == Mandate(g.parent)
         enough == /\ act[c].rep \/ p.grantee = act[c].by
                   /\ Fits(g, p, today)
         row == IF g.parent = NoParent THEN g ELSE Clamped(g, p) IN
     IF g.parent = NoParent \/ enough
     THEN /\ register' = Append(register, row)
          /\ late' = IF \E x \in Callers : /\ act[x].pc = "cascade"
                                           /\ g.parent \in act[x].found \ {act[x].target}
                     THEN late \cup {Len(register) + 1} ELSE late
     ELSE UNCHANGED <<register, late>>
  /\ act' = [act EXCEPT ![c] = Resting]
  /\ UNCHANGED <<reps, today, calls>>

----------------------------------------------------------------------------
(* Revoking.                                                               *)
AskRevoke(c, u) ==
  \E m \in Ids, end \in (today + 1)..kind.days \cup {Ever} :
    act' = [act EXCEPT ![c] = [Resting EXCEPT !.pc = "revoke", !.by = u, !.at = today,
                                              !.target = m, !.end = end]]

(* Mutant: only the mandates cut straight from it.                         *)
SubtreeOfOne(m) == {m} \cup {n \in Ids : Mandate(n).parent = m}

(* The mandates cut from m, however far down: the least set that has m,    *)
(* and with every mandate those cut from it.                               *)
Subtree(m) ==
  {n \in Ids : \A below \in SUBSET Ids :
     m \in below /\ (\A x \in Ids : Mandate(x).parent \in below => x \in below) => n \in below}

(* Another revocation holds the row.                                       *)
RowHeld(c, m) == \E x \in Callers \ {c} : act[x].pc = "cascade" /\ act[x].target = m

(* The target locked and judged, and the cascade's statement begun.        *)
LockTarget(c) ==
  /\ act[c].pc = "revoke" /\ ~RowHeld(c, act[c].target)
  /\ LET m == act[c].target  u == act[c].by IN
     IF /\ Status(Mandate(m), today) \in {"pending", "active"}
        /\ u \in reps \/ Mandate(m).grantor = u
     THEN act' = [act EXCEPT ![c].pc = "cascade", ![c].found = Subtree(m)]
     ELSE act' = [act EXCEPT ![c] = Resting]
  /\ UNCHANGED <<register, reps, today, calls, late>>

(* Mutant: the cascade also reaches what had ended by itself.              *)
LivesUnrevoked(m, day) == m.revoked = Ever

(* What the cascade still may end.                                         *)
Lives(m, day) == m.revoked = Ever /\ m.until > day

(* Mutant: the date asked for is the date set.                             *)
EndedAsAsked(m, end, day) ==
  IF end = Ever \/ m.from >= end THEN [m EXCEPT !.revoked = day] ELSE [m EXCEPT !.until = end]

(* Mutant: a window that opens after the date is cut to it.                *)
EndedTrimmed(m, end, day) ==
  IF end = Ever THEN [m EXCEPT !.revoked = day] ELSE [m EXCEPT !.until = Earliest(m.until, end)]

(* Ended at once, or on a date where its window has opened by then.        *)
Ended(m, end, day) ==
  IF end = Ever \/ m.from >= end THEN [m EXCEPT !.revoked = day]
  ELSE [m EXCEPT !.until = Earliest(m.until, end)]

Cascade(c) ==
  /\ act[c].pc = "cascade" /\ \A m \in act[c].found : ~RowHeld(c, m)
  /\ register' = [m \in Ids |->
       IF m \in act[c].found /\ Lives(Mandate(m), act[c].at)
       THEN Ended(Mandate(m), act[c].end, act[c].at) ELSE Mandate(m)]
  /\ act' = [act EXCEPT ![c] = Resting]
  /\ UNCHANGED <<reps, today, calls, late>>

----------------------------------------------------------------------------
(* RequireMandateAuthority: a representative, or who holds a full mandate. *)
MayGrantMandate(u) == IsMember(u) /\ (u \in reps \/ OwnFull(u) # {})

AskMandate(c) ==
  /\ act[c].pc = "idle" /\ calls < kind.mandates
  /\ calls' = calls + 1
  /\ \E u \in Users : MayGrantMandate(u) /\ (AskGrant(c, u) \/ AskRevoke(c, u))
  /\ UNCHANGED <<register, reps, today, late>>

DayPasses ==
  /\ today < kind.days /\ today' = today + 1
  /\ UNCHANGED <<register, reps, act, calls, late>>

(* The register's extract no longer names the representative.              *)
RepresentationEnds(u) ==
  /\ u \in reps /\ kind.days > 0 /\ reps' = reps \ {u}
  /\ UNCHANGED <<register, today, act, calls, late>>

MandateNext ==
  \/ \E c \in Callers : ReadGrant(c) \/ InsertMandate(c) \/ LockTarget(c) \/ Cascade(c)
                          \/ AskMandate(c)
  \/ DayPasses \/ \E u \in Users : RepresentationEnds(u)

MandateInit ==
  /\ Init
  /\ register = <<>> /\ reps = kind.reps /\ today = 0
  /\ act = [c \in Callers |-> Resting] /\ calls = 0 /\ late = {}

Step == (DirNext /\ UNCHANGED mandateVars) \/ (MandateNext /\ UNCHANGED vars)

OrganizationSpec ==
  /\ MandateInit /\ [][Step]_allVars
  /\ \A w \in Workers : /\ WF_allVars(MemberStep(w) /\ UNCHANGED mandateVars)
                        /\ WF_allVars(SyncStep(w) /\ UNCHANGED mandateVars)

----------------------------------------------------------------------------
(* Types; a mandate's window is never empty (mandates_window_check).       *)
TypeOK ==
  /\ DirTypeOK
  /\ \A m \in Ids :
       /\ Mandate(m).type \in Tiers /\ Mandate(m).scope \in Scopes
       /\ Mandate(m).from \in Days /\ Mandate(m).until \in 1..Ever
       /\ Mandate(m).from < Mandate(m).until
       /\ Mandate(m).revoked \in 0..Ever /\ Mandate(m).parent \in 0..(m - 1)
  /\ today \in Days /\ reps \subseteq Users /\ late \subseteq Ids
  /\ \A c \in Callers : act[c].pc \in {"idle", "grant", "insert", "revoke", "cascade"}

(* A delegate does not outlive the authority it was cut from               *)
(* (RevokeMandate): a mandate in force was cut from one in force, within   *)
(* its tier and scope, unless it was cut from a descendant while the       *)
(* ancestor's revocation had already looked for what it would end.         *)
DelegatesEndToo ==
  \A m \in Ids \ late :
    InForce(m) /\ Mandate(m).parent # NoParent =>
      LET p == Mandate(Mandate(m).parent) IN
      /\ Status(p, today) = "active" /\ Rank(Mandate(m).type) <= Rank(p.type)
      /\ p.scope = "department" => Mandate(m).scope = "department"

(* A revocation is dated within the window it ends: one that had run out   *)
(* is not relabelled afterwards (the cascade's WHERE).                     *)
RevokedWithinWindow ==
  \A m \in Ids : Mandate(m).revoked # Ever => Mandate(m).revoked < Mandate(m).until

(* Whatever revocations follow each other, a mandate's end only comes      *)
(* nearer and a revocation stands.                                         *)
EndsOnlySooner ==
  [][\A m \in Ids : /\ register'[m].until <= Mandate(m).until
                    /\ Mandate(m).revoked # Ever => register'[m] = Mandate(m)]_allVars

(* A mandate is given by who holds it, ends with the one above it, within  *)
(* its term, and no end moves later.                                       *)
MandateChains == EndsOnlySooner /\ [](DelegatesEndToo /\ RevokedWithinWindow)
=============================================================================
