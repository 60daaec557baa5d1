--------------------------- MODULE Organizations ---------------------------
(***************************************************************************)
(* One organization under concurrent HTTP requests, and a count of the     *)
(* others: memberships and their roles, the transfer of ownership, invites, *)
(* accounts (api/organizations.py, services/organizations.py, api/deps.py,  *)
(* api/auth.py, core/bootstrap.py).                                        *)
(*                                                                         *)
(* A request authorizes (and commits), reads what it is about, and writes   *)
(* in one transaction.  Every await between these lets other requests run, *)
(* so what is written rests on what was read.  The isolation is READ        *)
(* COMMITTED; the rows a flush has changed stay locked until the commit, so *)
(* flush and commit are one step here.  SQLAlchemy writes back only columns *)
(* whose value differs from the one loaded, by primary key: an UPDATE of a  *)
(* row that is gone raises and rolls everything back, a DELETE of one does  *)
(* nothing.  job[r].held is what of the membership rows loaded by r is      *)
(* still in the table: somebody who has left and joined again has a row     *)
(* with another key.                                                       *)
(***************************************************************************)
EXTENDS Naturals, FiniteSets

CONSTANTS
  Users,      \* accounts, or email addresses that may become one
  Requests,   \* how many requests may be served at once
  Others,     \* identities for organizations besides this one
  Invites,    \* identities for invites into this organization
  This,       \* this organization
  Instance,   \* the organizations with is_instance_org: none or one
  MaxOwned,   \* Settings.max_orgs_per_user
  Nobody      \* owner of an organization that does not exist

ASSUME OrgAssumption == /\ Nobody \notin Users /\ This \notin Others
                        /\ Instance \subseteq Others \cup {This}
                        /\ IsFiniteSet(Others) /\ MaxOwned \in Nat

VARIABLES
  known,      \* users that have an account
  role,       \* organization_memberships of this organization
  ownerOf,    \* of the others: who owns it
  here,       \* this organization exists
  sent,       \* organization_invites: the state of each invite
  to,         \* its email
  job         \* per request: where it is and what it has read

vars == <<known, role, ownerOf, here, sent, to, job>>

Roles == {"none", "member", "admin", "owner"}
Orgs == Others \cup {This}
Exists(x) == IF x = This THEN here ELSE ownerOf[x] # Nobody
Existing == {x \in Orgs : Exists(x)}
Owned(u) == {x \in Others : ownerOf[x] = u} \cup {x \in {This} : role[u] = "owner"}
Owners == {u \in Users : role[u] = "owner"}

AdminOnly == {"add", "update", "remove", "invite", "resend", "revoke"}
Kinds == AdminOnly \cup {"delete", "transfer", "leave", "create", "register", "accept"}

(* by and was: the caller and the role authorization found.  who, seen and   *)
(* want: the member concerned, the role found and the role to be written.    *)
(* org and count: the organization to delete, and a number of organizations. *)
(* invites: those loaded.  fresh: the address was found to have no account.  *)
Idle == [step |-> "idle", kind |-> "none", by |-> Nobody, was |-> "none",
         who |-> Nobody, seen |-> "none", want |-> "none", org |-> This, count |-> 0,
         invites |-> {}, fresh |-> FALSE, held |-> {}]

Init ==
  /\ here = TRUE
  /\ role \in [Users -> Roles] /\ \E u \in Users : Owners = {u}
  /\ known \in SUBSET Users /\ \A u \in Users : role[u] # "none" => u \in known
  /\ ownerOf \in [Others -> known \cup {Nobody}]
  /\ \A u \in Users : Cardinality(Owned(u)) <= MaxOwned
  /\ sent = [i \in Invites |-> "unsent"] /\ to = [i \in Invites |-> Nobody]
  /\ job = [r \in Requests |-> Idle]

-----------------------------------------------------------------------------
(* Authorization: deps.py.  The dependency of an endpoint loads the user and *)
(* the membership in the active organization, and commits.                   *)

(* Not the code: nobody is told apart as the owner. *)
NobodyIsOwner(was) == FALSE

IsOrgOwner(was) == was = "owner"
IsOrgAdmin(was) == was \in {"owner", "admin"}

(* Only "delete" concerns other organizations than this one. *)
MayAct(u, k, x) ==
  CASE k = "delete" -> x \in Owned(u)
    [] k = "transfer" -> u \in known /\ IsOrgOwner(role[u])
    [] k \in AdminOnly -> u \in known /\ IsOrgAdmin(role[u])
    [] k = "leave" -> u \in known /\ role[u] # "none" /\ ~IsOrgOwner(role[u])
    [] k = "create" -> u \in known
    [] OTHER -> TRUE

(* What authorization loaded is remembered where the request uses it again. *)
Authorize(r, u, k, x) ==
  LET again == k \in {"leave", "update", "remove", "transfer"} IN
  /\ job[r].step = "idle"
  /\ x = This \/ k = "delete"
  /\ MayAct(u, k, x)
  /\ job' = [job EXCEPT ![r] = [Idle EXCEPT !.step = IF k = "leave" THEN "read" ELSE "authorized",
                                            !.kind = k, !.by = u, !.org = x,
                                            !.was = IF again THEN role[u] ELSE "none",
                                            !.held = IF again THEN {u} ELSE {}]]
  /\ UNCHANGED <<known, role, ownerOf, here, sent, to>>

At(r, k) == job[r].step = "authorized" /\ job[r].kind = k
Writing(r, k) == job[r].step = "read" /\ job[r].kind = k

(* An error is answered, the transaction is rolled back, or it wrote nothing. *)
Refuse(r) ==
  /\ job' = [job EXCEPT ![r] = Idle]
  /\ UNCHANGED <<known, role, ownerOf, here, sent, to>>

(* The request has loaded what it is about. *)
Load(r, what) ==
  /\ job' = [job EXCEPT ![r] = what]
  /\ UNCHANGED <<known, role, ownerOf, here, sent, to>>

(* The request is answered, and the membership rows of gone have been deleted. *)
Answered(r, gone) ==
  job' = [q \in Requests |-> IF q = r THEN Idle ELSE [job[q] EXCEPT !.held = @ \ gone]]

-----------------------------------------------------------------------------
(* Organizations *)

(* Not the code: one more than the cap. *)
ReadCreateOneMore(r) ==
  /\ At(r, "create")
  /\ IF Cardinality(Owned(job[r].by)) > MaxOwned THEN Refuse(r)
     ELSE Load(r, [job[r] EXCEPT !.step = "read", !.count = Cardinality(Owned(job[r].by))])

(* create_org: the count of owned organizations; register: no account yet. *)
ReadCreate(r) ==
  LET n == Cardinality(Owned(job[r].by)) IN
  \/ /\ At(r, "create")
     /\ IF n >= MaxOwned THEN Refuse(r)
        ELSE Load(r, [job[r] EXCEPT !.step = "read", !.count = n])
  \/ /\ At(r, "register")
     /\ IF job[r].by \in known THEN Refuse(r) ELSE Load(r, [job[r] EXCEPT !.step = "read"])

(* create_organization: a new organization and its owner's membership.  Two  *)
(* registrations of one address: users.email is unique.                      *)
Create(r) ==
  \/ /\ Writing(r, "register") /\ job[r].by \in known /\ Refuse(r)
  \/ /\ Writing(r, "create") \/ (Writing(r, "register") /\ job[r].by \notin known)
     /\ \E x \in Others :
          /\ ownerOf[x] = Nobody /\ \A q \in Requests : job[q].org # x
          /\ ownerOf' = [ownerOf EXCEPT ![x] = job[r].by]
     /\ known' = known \cup {job[r].by}
     /\ Answered(r, {})
     /\ UNCHANGED <<role, here, sent, to>>

(* delete_org: never the instance's, and not the last one. *)
ReadDelete(r) ==
  /\ At(r, "delete")
  /\ IF job[r].org \in Instance \/ Cardinality(Existing) <= 1 THEN Refuse(r)
     ELSE Load(r, [job[r] EXCEPT !.step = "read", !.count = Cardinality(Existing)])

(* Everything of an organization goes with it (ondelete CASCADE). *)
Delete(r) ==
  /\ Writing(r, "delete")
  /\ IF job[r].org = This
     THEN /\ here' = FALSE
          /\ role' = [u \in Users |-> "none"]
          /\ sent' = [i \in Invites |-> IF sent[i] = "unsent" THEN "unsent" ELSE "deleted"]
          /\ Answered(r, Users)
          /\ UNCHANGED ownerOf
     ELSE /\ ownerOf' = [ownerOf EXCEPT ![job[r].org] = Nobody]
          /\ Answered(r, {})
          /\ UNCHANGED <<here, role, sent>>
  /\ UNCHANGED <<known, to>>

-----------------------------------------------------------------------------
(* Members *)

(* create_member: an account made by an administrator. *)
ReadAdd(r) ==
  /\ At(r, "add")
  /\ \E u \in Users : \E as \in {"member", "admin"} :
       IF u \in known THEN Refuse(r)
       ELSE Load(r, [job[r] EXCEPT !.step = "read", !.who = u, !.want = as])

(* add_membership, of a user that may be new. *)
AddMembership(u, as) ==
  /\ known' = known \cup {u}
  /\ role' = [role EXCEPT ![u] = as]

(* users.email is unique, and the membership needs its organization. *)
Add(r) ==
  /\ Writing(r, "add")
  /\ IF job[r].who \in known \/ ~here THEN Refuse(r)
     ELSE /\ AddMembership(job[r].who, job[r].want)
          /\ Answered(r, {})
          /\ UNCHANGED <<ownerOf, here, sent, to>>

(* update_member, remove_member, transfer_ownership: get_membership of the   *)
(* member concerned.  A row that the session holds already is not reloaded.  *)
SeenRole(r, u) == IF u = job[r].by THEN job[r].was ELSE role[u]

ReadTarget(r) ==
  /\ \E k \in {"update", "remove", "transfer"} : At(r, k)
  /\ \E u \in Users : \E as \in {"member", "admin"} :
       /\ job[r].kind = "update" \/ as = "member"
       /\ IF role[u] = "none" \/ (job[r].kind # "transfer" /\ SeenRole(r, u) = "owner")
          THEN Refuse(r)
          ELSE Load(r, [job[r] EXCEPT !.step = "read", !.who = u, !.seen = SeenRole(r, u),
                                      !.want = as, !.held = IF u = job[r].by THEN @ ELSE @ \cup {u}])

Update(r) ==
  LET u == job[r].who IN
  /\ Writing(r, "update")
  /\ IF job[r].want = job[r].seen \/ u \notin job[r].held THEN Refuse(r)
     ELSE /\ role' = [role EXCEPT ![u] = job[r].want]
          /\ Answered(r, {})
          /\ UNCHANGED <<known, ownerOf, here, sent, to>>

(* remove_member and leave_org delete the row they hold, whatever it says. *)
DeleteMembership(r, u) ==
  IF u \notin job[r].held THEN Refuse(r)
  ELSE /\ role' = [role EXCEPT ![u] = "none"]
       /\ Answered(r, {u})
       /\ UNCHANGED <<known, ownerOf, here, sent, to>>

Remove(r) == Writing(r, "remove") /\ DeleteMembership(r, job[r].who)

Leave(r) == Writing(r, "leave") /\ DeleteMembership(r, job[r].by)

(* The roles after transfer_ownership's two UPDATEs: the owner's row first,  *)
(* then the other's unless it was loaded as "owner".                         *)
Transferred(r) ==
  LET u == job[r].by
      t == job[r].who
      stepped == [role EXCEPT ![u] = "admin"]
  IN IF t = u \/ job[r].seen # "owner" THEN [stepped EXCEPT ![t] = "owner"] ELSE stepped

(* Not the code: no unique index. *)
AnyOwnersIn(roles) == TRUE

(* uq_org_one_owner: a partial unique index, checked by each statement. *)
OneOwnerIn(roles) == \A u, v \in Users : roles[u] = "owner" /\ roles[v] = "owner" => u = v

Transfer(r) ==
  /\ Writing(r, "transfer")
  /\ IF /\ job[r].by \in job[r].held
        /\ job[r].who \in job[r].held \/ job[r].seen = "owner"
        /\ OneOwnerIn(Transferred(r))
     THEN /\ role' = Transferred(r)
          /\ Answered(r, {})
          /\ UNCHANGED <<known, ownerOf, here, sent, to>>
     ELSE Refuse(r)

-----------------------------------------------------------------------------
(* Invites *)

Pending(u) == {i \in Invites : to[i] = u /\ sent[i] \in {"pending", "expired"}}

(* create_invite: not for a member; a pending one is deleted. *)
ReadInvite(r) ==
  /\ At(r, "invite")
  /\ \E u \in Users :
       IF role[u] # "none" THEN Refuse(r)
       ELSE Load(r, [job[r] EXCEPT !.step = "read", !.invites = Pending(u), !.who = u])

(* uq_org_pending_invite_email: one pending invite per address. *)
Invite(r) ==
  /\ Writing(r, "invite")
  /\ IF ~here \/ Pending(job[r].who) \ job[r].invites # {} THEN Refuse(r)
     ELSE \E i \in Invites :
            /\ sent[i] = "unsent"
            /\ sent' = [j \in Invites |-> IF j = i THEN "pending"
                                          ELSE IF j \in job[r].invites THEN "deleted" ELSE sent[j]]
            /\ to' = [to EXCEPT ![i] = job[r].who]
            /\ Answered(r, {})
            /\ UNCHANGED <<known, role, ownerOf, here>>

(* Not the code: a state nothing else knows. *)
Lapse(i) ==
  /\ sent[i] = "pending"
  /\ sent' = [sent EXCEPT ![i] = "lapsed"]
  /\ UNCHANGED <<known, role, ownerOf, here, to, job>>

(* invite_expire_days have passed. *)
Expire(i) ==
  /\ sent[i] = "pending"
  /\ sent' = [sent EXCEPT ![i] = "expired"]
  /\ UNCHANGED <<known, role, ownerOf, here, to, job>>

(* resend_invite and revoke_invite load the invite; only the first cares     *)
(* whether it has been accepted.                                             *)
ReadSent(r) ==
  /\ At(r, "resend") \/ At(r, "revoke")
  /\ \E i \in Invites :
       IF \/ sent[i] \in {"unsent", "deleted"}
          \/ job[r].kind = "resend" /\ sent[i] = "accepted"
       THEN Refuse(r)
       ELSE Load(r, [job[r] EXCEPT !.step = "read", !.invites = {i}])

(* A new token and a new expiry; accepted_at is not written. *)
Resend(r) ==
  /\ Writing(r, "resend")
  /\ IF \A i \in job[r].invites : sent[i] # "expired" THEN Refuse(r)
     ELSE /\ sent' = [i \in Invites |-> IF i \in job[r].invites THEN "pending" ELSE sent[i]]
          /\ Answered(r, {})
          /\ UNCHANGED <<known, role, ownerOf, here, to>>

Revoke(r) ==
  /\ Writing(r, "revoke")
  /\ sent' = [i \in Invites |-> IF i \in job[r].invites THEN "deleted" ELSE sent[i]]
  /\ Answered(r, {})
  /\ UNCHANGED <<known, role, ownerOf, here, to>>

(* accept_invite: the link is good, and its address is the caller's or has   *)
(* no account; it is not a member's.                                         *)
ReadAccept(r) ==
  /\ At(r, "accept")
  /\ \E i \in Invites :
       IF sent[i] # "pending" \/ to[i] # job[r].by \/ role[job[r].by] # "none"
       THEN Refuse(r)
       ELSE Load(r, [job[r] EXCEPT !.step = "read", !.invites = {i},
                                   !.fresh = job[r].by \notin known])

(* Not the code: the invite is not written, so nothing notices that it is gone. *)
AcceptUnchecked(r, as) ==
  LET u == job[r].by IN
  /\ Writing(r, "accept")
  /\ IF role[u] # "none" \/ ~here THEN Refuse(r)
     ELSE /\ AddMembership(u, as)
          /\ Answered(r, {})
          /\ UNCHANGED <<ownerOf, here, sent, to>>

(* Membership (uq_org_membership_user), account (users.email) and            *)
(* accepted_at in one commit: the invite's row must still be there.          *)
Accept(r, as) ==
  LET u == job[r].by IN
  /\ Writing(r, "accept")
  /\ IF \/ \E i \in job[r].invites : sent[i] = "deleted"
        \/ role[u] # "none"
        \/ job[r].fresh /\ u \in known
     THEN Refuse(r)
     ELSE /\ AddMembership(u, as)
          /\ sent' = [i \in Invites |-> IF i \in job[r].invites THEN "accepted" ELSE sent[i]]
          /\ Answered(r, {})
          /\ UNCHANGED <<ownerOf, here, to>>
-----------------------------------------------------------------------------
Read(r) == ReadCreate(r) \/ ReadDelete(r) \/ ReadAdd(r) \/ ReadTarget(r)
           \/ ReadInvite(r) \/ ReadSent(r) \/ ReadAccept(r)

Write(r) == \/ Create(r) \/ Delete(r) \/ Add(r) \/ Update(r) \/ Remove(r) \/ Leave(r)
            \/ Transfer(r) \/ Invite(r) \/ Resend(r) \/ Revoke(r)
            \/ \E as \in {"member", "admin"} : Accept(r, as)

Next == \/ \E r \in Requests : \/ \E u \in Users, k \in Kinds, x \in Orgs : Authorize(r, u, k, x)
                               \/ Read(r)
                               \/ Write(r)
        \/ \E i \in Invites : Expire(i)

Spec == Init /\ [][Next]_vars

-----------------------------------------------------------------------------
(* Properties *)

Jobs == [step : {"idle", "authorized", "read"}, kind : Kinds \cup {"none"},
         by : Users \cup {Nobody}, was : Roles, who : Users \cup {Nobody}, seen : Roles,
         want : Roles, org : Orgs, count : Nat, invites : SUBSET Invites, fresh : BOOLEAN,
         held : SUBSET Users]

(* The type invariant. *)
TypeOK ==
  /\ known \in SUBSET Users
  /\ role \in [Users -> Roles]
  /\ ownerOf \in [Others -> Users \cup {Nobody}]
  /\ here \in BOOLEAN
  /\ sent \in [Invites -> {"unsent", "pending", "expired", "accepted", "deleted"}]
  /\ to \in [Invites -> Users \cup {Nobody}]
  /\ job \in [Requests -> Jobs]

(* An organization never has two owners (README.md:180), and its members have accounts, *)
(* whatever requests overlap: transfers to different members included.                  *)
AtMostOneOwner ==
  /\ \A u, v \in Owners : u = v
  /\ \A u \in Users : role[u] # "none" => u \in known

(* r is about to demote, remove or let go somebody whose role it loaded before that *)
(* member was made the owner; or it hands ownership to a member it found to own the  *)
(* organization already, and who has handed it back since.                           *)
ActsOnStaleRole(r) ==
  \/ \E u \in Users : /\ role[u] = "owner"
                      /\ \/ job[r].kind \in {"update", "remove"} /\ job[r].who = u /\ job[r].seen # "owner"
                         \/ job[r].kind = "leave" /\ job[r].by = u /\ job[r].was # "owner"
  \/ /\ job[r].kind = "transfer"
     /\ job[r].who \in Users /\ job[r].seen = "owner" /\ role[job[r].who] # "owner"

(* No request leaves an organization without owner unless it acts on a role that has     *)
(* changed since it was loaded: the checks of update_member, remove_member, leave_org and *)
(* transfer_ownership suffice, except against a transfer between their read and their     *)
(* write.                                                                                *)
OwnerLostToStaleRead ==
  [][(Owners # {} /\ Owners' = {} /\ here') =>
       \E r \in Requests : job[r].step = "read" /\ job'[r].step = "idle" /\ ActsOnStaleRole(r)]_vars

(* Who has an account becomes a member only by accepting an invite that is theirs and     *)
(* has been neither revoked nor replaced at that moment: an acceptance that overlaps the  *)
(* revocation is rolled back.                                                             *)
JoinsNeedInvite ==
  [][\A u \in Users : (role[u] = "none" /\ role'[u] # "none" /\ u \in known) =>
       \E i \in Invites : to[i] = u /\ sent[i] \notin {"unsent", "deleted"} /\ sent'[i] = "accepted"]_vars

(* The last organization goes (delete_org), and somebody owns more than MaxOwned           *)
(* organizations (create_org), only when two requests overlap that each counted before the *)
(* other wrote, or, for the second, by a transfer, which does not count.                   *)
LimitsFallToOverlap ==
  [][/\ Existing # {} /\ Existing' = {} =>
          \E r \in Requests : Writing(r, "delete") /\ job[r].count > Cardinality(Existing)
     /\ \A u \in Users :
          Cardinality(Owned(u)) <= MaxOwned /\ Cardinality(Owned(u)') > MaxOwned =>
            \/ role[u] # "owner" /\ role'[u] = "owner"
            \/ \E r \in Requests : Writing(r, "create") /\ job[r].by = u
                                   /\ job[r].count < Cardinality(Owned(u))]_vars
=============================================================================
