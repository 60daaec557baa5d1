------------------------ MODULE OrganizationsProofs ------------------------
(***************************************************************************)
(* What Organizations promises for any number of users, requests, invites   *)
(* and other organizations.                                                *)
(***************************************************************************)
EXTENDS Organizations, FiniteSetTheorems, TLAPS

(* A request never writes "owner" but by a transfer, holds rows of people    *)
(* with an account only, and has got past the checks of its endpoint.        *)
Sound(j) ==
  /\ j.want # "owner"
  /\ j.held \subseteq known
  /\ j.step # "idle" => j.by \in Users
  /\ j.step = "read" /\ j.kind \in {"add", "update", "remove", "transfer", "invite"} => j.who \in Users
  /\ j.step = "read" /\ j.kind \in {"update", "remove"} => j.seen # "owner"
  /\ j.step = "read" /\ j.kind = "leave" => j.was # "owner"

JobsSound == \A r \in Requests : Sound(job[r])

IInv == TypeOK /\ AtMostOneOwner /\ JobsSound

(* An organization that is counted is one of finitely many. *)
LEMMA CountsAreNumbers ==
  ASSUME OrgAssumption
  PROVE  /\ \A u : Cardinality(Owned(u)) \in Nat
         /\ Cardinality(Existing) \in Nat
<1>1. IsFiniteSet(Orgs)
  BY FS_AddElement, FS_Union, FS_Singleton, OrgAssumption DEF OrgAssumption, Orgs
<1>2. Existing \subseteq Orgs
  BY DEF Existing
<1>3. \A u : Owned(u) \subseteq Orgs
  BY DEF Owned, Orgs
<1>4. \A S \in SUBSET Orgs : Cardinality(S) \in Nat
  BY <1>1, FS_Subset, FS_CardinalityType
<1> QED BY <1>2, <1>3, <1>4

(* An idle request has a type and holds nothing. *)
LEMMA IdleSound == Idle \in Jobs /\ Sound(Idle)
BY OrgAssumption DEF Idle, Jobs, Sound, Orgs, Roles

(* A request that ends without writing keeps the invariant. *)
LEMMA RefuseStep ==
  ASSUME IInv, NEW r \in Requests, Refuse(r)
  PROVE  IInv'
<1>1. job' \in [Requests -> Jobs] /\ \A q \in Requests : job'[q] \in {job[q], Idle}
  BY IdleSound DEF IInv, TypeOK, Refuse
<1>2. JobsSound'
  BY <1>1, IdleSound DEF IInv, JobsSound, Sound, Refuse
<1> QED BY <1>1, <1>2 DEF IInv, TypeOK, AtMostOneOwner, Owners, Refuse

(* A request that has read something sound keeps it. *)
LEMMA LoadStep ==
  ASSUME IInv, NEW r \in Requests, NEW j \in Jobs, Sound(j), Load(r, j)
  PROVE  IInv'
<1>1. job' \in [Requests -> Jobs] /\ \A q \in Requests : job'[q] \in {job[q], j}
  BY DEF IInv, TypeOK, Load
<1>2. JobsSound'
  BY <1>1 DEF IInv, JobsSound, Sound, Load
<1> QED BY <1>1, <1>2 DEF IInv, TypeOK, AtMostOneOwner, Owners, Load

(* Answering a request, whoever has left, keeps the others sound. *)
LEMMA AnsweredStep ==
  ASSUME IInv, NEW r \in Requests, NEW gone, Answered(r, gone), known \subseteq known'
  PROVE  job' \in [Requests -> Jobs] /\ JobsSound'
<1> SUFFICES ASSUME NEW q \in Requests
             PROVE  job'[q] \in Jobs /\ Sound(job[q])'
  BY DEF Answered, JobsSound
<1>1. CASE q = r
  BY <1>1, IdleSound DEF Answered, Sound, Idle
<1>2. CASE q # r
  <2>1. job'[q] = [job[q] EXCEPT !.held = @ \ gone] /\ job[q] \in Jobs /\ Sound(job[q])
    BY <1>2 DEF Answered, IInv, TypeOK, JobsSound
  <2> QED BY <2>1 DEF Jobs, Sound
<1> QED BY <1>1, <1>2

(* The first user of the organization, its owner, has an account. *)
LEMMA InitStep ==
  ASSUME OrgAssumption, Init
  PROVE  IInv
<1>1. TypeOK
  BY IdleSound DEF Init, TypeOK, Roles
<1>2. AtMostOneOwner
  <2>1. PICK u \in Users : Owners = {u}
    BY DEF Init
  <2> QED BY <2>1 DEF Init, AtMostOneOwner, Owners
<1> QED BY <1>1, <1>2, IdleSound DEF Init, IInv, JobsSound

(* Authorization and everything a request reads before it writes. *)
LEMMA ReadStep ==
  ASSUME OrgAssumption, IInv, NEW r \in Requests,
         Read(r) \/ \E u \in Users, k \in Kinds, x \in Orgs : Authorize(r, u, k, x)
  PROVE  IInv'
<1> USE DEF IInv, TypeOK, JobsSound
<1>0. job[r] \in Jobs /\ Sound(job[r])
  OBVIOUS
<1>1. ASSUME NEW u \in Users, NEW k \in Kinds, NEW x \in Orgs, Authorize(r, u, k, x)
      PROVE  IInv'
  <2> DEFINE st == IF k = "leave" THEN "read" ELSE "authorized"
             again == k \in {"leave", "update", "remove", "transfer"}
             w == IF again THEN role[u] ELSE "none"
             h == IF again THEN {u} ELSE {}
             j == [Idle EXCEPT !.step = st, !.kind = k, !.by = u, !.org = x, !.was = w, !.held = h]
  <2>1. Load(r, j)
    BY <1>1 DEF Authorize, Load
  <2>2. /\ st \in {"authorized", "read"} /\ (st = "read" => k = "leave")
        /\ w \in Roles /\ h \in SUBSET Users
    BY DEF Roles
  <2>3. MayAct(u, k, x)
    BY <1>1 DEF Authorize
  <2>4. k = "leave" => role[u] # "owner"
    BY <2>3 DEF MayAct, IsOrgOwner, AdminOnly
  <2>5. h \subseteq known
    <3>1. again => role[u] # "none" \/ u \in known
      BY <2>3 DEF MayAct, AdminOnly
    <3> QED BY <3>1 DEF AtMostOneOwner, Owners
  <2>6. k = "leave" => w # "owner"
    BY <2>4
  <2> HIDE DEF st, again, w, h
  <2>7. j \in Jobs
    BY <2>2, IdleSound DEF Jobs
  <2>8. Sound(j)
    BY <2>2, <2>5, <2>6 DEF Sound, Idle
  <2> QED BY <2>1, <2>7, <2>8, LoadStep
<1>2. CASE ReadCreate(r)
  <2>1. CASE Refuse(r)
    BY <2>1, RefuseStep
  <2>2. CASE Load(r, [job[r] EXCEPT !.step = "read", !.count = Cardinality(Owned(job[r].by))])
            /\ At(r, "create")
    <3> DEFINE j == [job[r] EXCEPT !.step = "read", !.count = Cardinality(Owned(job[r].by))]
    <3>1. j \in Jobs
      BY <1>0, CountsAreNumbers DEF Jobs
    <3>2. Sound(j)
      BY <1>0, <2>2 DEF Sound, Jobs, At
    <3> QED BY <3>1, <3>2, <2>2, LoadStep
  <2>3. CASE Load(r, [job[r] EXCEPT !.step = "read"]) /\ At(r, "register")
    <3> DEFINE j == [job[r] EXCEPT !.step = "read"]
    <3>1. j \in Jobs /\ Sound(j)
      BY <1>0, <2>3 DEF Jobs, Sound, At
    <3> QED BY <3>1, <2>3, LoadStep
  <2> QED BY <1>2, <2>1, <2>2, <2>3 DEF ReadCreate
<1>3. CASE ReadDelete(r)
  <2> DEFINE j == [job[r] EXCEPT !.step = "read", !.count = Cardinality(Existing)]
  <2>1. Refuse(r) \/ Load(r, j)
    BY <1>3 DEF ReadDelete
  <2>2. j \in Jobs /\ Sound(j)
    BY <1>0, <1>3, CountsAreNumbers DEF Jobs, Sound, ReadDelete, At
  <2> QED BY <2>1, <2>2, RefuseStep, LoadStep
<1>4. CASE ReadAdd(r)
  <2>1. PICK u \in Users, as \in {"member", "admin"} :
          Refuse(r) \/ Load(r, [job[r] EXCEPT !.step = "read", !.who = u, !.want = as])
    BY <1>4 DEF ReadAdd
  <2> DEFINE j == [job[r] EXCEPT !.step = "read", !.who = u, !.want = as]
  <2>2. j \in Jobs /\ Sound(j)
    BY <1>0, <1>4 DEF Jobs, Sound, ReadAdd, At, Roles
  <2> QED BY <2>1, <2>2, RefuseStep, LoadStep
<1>5. CASE ReadTarget(r)
  <2>1. PICK u \in Users, as \in {"member", "admin"} :
          \/ Refuse(r)
          \/ /\ role[u] # "none" /\ (job[r].kind # "transfer" => SeenRole(r, u) # "owner")
             /\ Load(r, [job[r] EXCEPT !.step = "read", !.who = u, !.seen = SeenRole(r, u),
                                       !.want = as, !.held = IF u = job[r].by THEN @ ELSE @ \cup {u}])
    BY <1>5 DEF ReadTarget
  <2> DEFINE h == IF u = job[r].by THEN job[r].held ELSE job[r].held \cup {u}
             j == [job[r] EXCEPT !.step = "read", !.who = u, !.seen = SeenRole(r, u),
                                 !.want = as, !.held = h]
  <2>2. CASE Refuse(r)
    BY <2>2, RefuseStep
  <2>3. CASE ~Refuse(r)
    <3>1. Load(r, j) /\ role[u] # "none" /\ (job[r].kind # "transfer" => SeenRole(r, u) # "owner")
      BY <2>1, <2>3, <1>0 DEF Jobs
    <3>2. SeenRole(r, u) \in Roles /\ h \subseteq known /\ h \subseteq Users
      BY <1>0, <3>1 DEF SeenRole, Jobs, AtMostOneOwner, Owners, Sound
    <3> HIDE DEF h
    <3>3. j \in Jobs
      BY <1>0, <3>2 DEF Jobs, Roles
    <3>4. job[r].kind \in {"update", "remove", "transfer"} /\ job[r].step # "idle"
      BY <1>5 DEF ReadTarget, At
    <3>5. Sound(j)
      BY <1>0, <3>1, <3>2, <3>4 DEF Jobs, Sound
    <3> QED BY <3>1, <3>3, <3>5, LoadStep
  <2> QED BY <2>2, <2>3
<1>6. CASE ReadInvite(r)
  <2>1. PICK u \in Users :
          Refuse(r) \/ Load(r, [job[r] EXCEPT !.step = "read", !.invites = Pending(u), !.who = u])
    BY <1>6 DEF ReadInvite
  <2> DEFINE j == [job[r] EXCEPT !.step = "read", !.invites = Pending(u), !.who = u]
  <2>2. j \in Jobs /\ Sound(j)
    BY <1>0, <1>6 DEF Jobs, Sound, ReadInvite, At, Pending
  <2> QED BY <2>1, <2>2, RefuseStep, LoadStep
<1>7. CASE ReadSent(r)
  <2>1. PICK i \in Invites : Refuse(r) \/ Load(r, [job[r] EXCEPT !.step = "read", !.invites = {i}])
    BY <1>7 DEF ReadSent
  <2> DEFINE j == [job[r] EXCEPT !.step = "read", !.invites = {i}]
  <2>2. j \in Jobs /\ Sound(j)
    BY <1>0, <1>7 DEF Jobs, Sound, ReadSent, At
  <2> QED BY <2>1, <2>2, RefuseStep, LoadStep
<1>8. CASE ReadAccept(r)
  <2>1. PICK i \in Invites :
          Refuse(r) \/ Load(r, [job[r] EXCEPT !.step = "read", !.invites = {i},
                                              !.fresh = job[r].by \notin known])
    BY <1>8 DEF ReadAccept
  <2> DEFINE j == [job[r] EXCEPT !.step = "read", !.invites = {i}, !.fresh = job[r].by \notin known]
  <2>2. j \in Jobs /\ Sound(j)
    BY <1>0, <1>8 DEF Jobs, Sound, ReadAccept, At
  <2> QED BY <2>1, <2>2, RefuseStep, LoadStep
<1> QED BY <1>1, <1>2, <1>3, <1>4, <1>5, <1>6, <1>7, <1>8 DEF Read

(* The writes that leave the roles as they are. *)
LEMMA OtherWriteStep ==
  ASSUME OrgAssumption, IInv, NEW r \in Requests,
         Create(r) \/ Invite(r) \/ Resend(r) \/ Revoke(r)
  PROVE  IInv'
<1> USE DEF IInv, TypeOK, JobsSound
<1>0. job[r] \in Jobs /\ Sound(job[r])
  OBVIOUS
<1>1. CASE Refuse(r)
  BY <1>1, RefuseStep
<1>2. CASE ~Refuse(r)
  <2>1. Answered(r, {}) /\ known' \in {known, known \cup {job[r].by}} /\ UNCHANGED <<role, here>>
    BY <1>2 DEF Create, Invite, Resend, Revoke
  <2>2. known' \subseteq Users
    <3>1. CASE known' = known
      BY <3>1
    <3>2. CASE known' # known
      BY <1>0, <1>2, <3>2 DEF Create, Invite, Resend, Revoke, Writing, Sound
    <3> QED BY <3>1, <3>2
  <2>3. ownerOf' \in [Others -> Users \cup {Nobody}]
    BY <1>0, <1>2 DEF Create, Invite, Resend, Revoke, Writing, Sound
  <2>4. sent' \in [Invites -> {"unsent", "pending", "expired", "accepted", "deleted"}]
    BY <1>2 DEF Create, Invite, Resend, Revoke
  <2>5. to' \in [Invites -> Users \cup {Nobody}]
    BY <1>0, <1>2 DEF Create, Invite, Resend, Revoke, Writing, Sound
  <2>6. job' \in [Requests -> Jobs] /\ JobsSound'
    BY <2>1, AnsweredStep
  <2> QED BY <2>1, <2>2, <2>3, <2>4, <2>5, <2>6 DEF AtMostOneOwner, Owners
<1> QED BY <1>1, <1>2

(* The writes of roles: none makes a second owner or a member without account. *)
LEMMA RoleWriteStep ==
  ASSUME OrgAssumption, IInv, NEW r \in Requests,
         \/ Add(r) \/ Update(r) \/ Remove(r) \/ Leave(r) \/ Transfer(r) \/ Delete(r)
         \/ \E as \in {"member", "admin"} : Accept(r, as)
  PROVE  IInv'
<1> USE DEF IInv, TypeOK, JobsSound
<1>0. job[r] \in Jobs /\ Sound(job[r])
  OBVIOUS
<1>1. CASE Refuse(r)
  BY <1>1, RefuseStep
<1>2. ASSUME ~Refuse(r), Add(r)
      PROVE  IInv'
  <2>1. job[r].who \in Users /\ job[r].want \in Roles \ {"owner"}
    BY <1>0, <1>2 DEF Add, AddMembership, Writing, Sound, Jobs
  <2>2. job' \in [Requests -> Jobs] /\ JobsSound'
    BY <1>2, AnsweredStep DEF Add, AddMembership
  <2> QED BY <1>2, <2>1, <2>2 DEF Add, AddMembership, AtMostOneOwner, Owners
<1>3. ASSUME ~Refuse(r), Update(r)
      PROVE  IInv'
  <2>1. job[r].who \in known /\ job[r].want \in Roles \ {"owner"}
    BY <1>0, <1>3 DEF Update, Writing, Sound, Jobs
  <2>2. job' \in [Requests -> Jobs] /\ JobsSound'
    BY <1>3, AnsweredStep DEF Update
  <2> QED BY <1>3, <2>1, <2>2 DEF Update, AtMostOneOwner, Owners
<1>4. ASSUME ~Refuse(r), NEW u, DeleteMembership(r, u)
      PROVE  IInv'
  <2>1. job' \in [Requests -> Jobs] /\ JobsSound'
    BY <1>4, AnsweredStep DEF DeleteMembership
  <2> QED BY <1>4, <2>1 DEF DeleteMembership, AtMostOneOwner, Owners, Roles
<1>5. ASSUME ~Refuse(r), Transfer(r)
      PROVE  IInv'
  <2>1. job' \in [Requests -> Jobs] /\ JobsSound'
    BY <1>5, AnsweredStep DEF Transfer
  <2>2. job[r].by \in known
    BY <1>0, <1>5 DEF Transfer, Sound
  <2>3. job[r].who \in known \/ job[r].seen = "owner"
    BY <1>0, <1>5 DEF Transfer, Sound
  <2>4. Transferred(r) \in [Users -> Roles]
    BY DEF Transferred, Roles
  <2>5. \A u \in Users : Transferred(r)[u] # "none" => u \in known
    BY <2>2, <2>3 DEF Transferred, AtMostOneOwner
  <2> QED BY <1>5, <2>1, <2>4, <2>5 DEF Transfer, AtMostOneOwner, Owners, OneOwnerIn
<1>6. ASSUME ~Refuse(r), Delete(r)
      PROVE  IInv'
  <2>1. \E gone : Answered(r, gone)
    BY <1>6 DEF Delete
  <2>2. job' \in [Requests -> Jobs] /\ JobsSound'
    BY <1>6, <2>1, AnsweredStep DEF Delete
  <2>3. role' \in [Users -> Roles] /\ \A u \in Users : role'[u] \in {"none", role[u]}
    BY <1>6 DEF Delete, Roles
  <2>4. ownerOf' \in [Others -> Users \cup {Nobody}] /\ here' \in BOOLEAN
    BY <1>6 DEF Delete
  <2>5. sent' \in [Invites -> {"unsent", "pending", "expired", "accepted", "deleted"}]
    BY <1>6 DEF Delete
  <2> QED BY <1>6, <2>2, <2>3, <2>4, <2>5 DEF Delete, AtMostOneOwner, Owners
<1>7. ASSUME ~Refuse(r), NEW as \in {"member", "admin"}, Accept(r, as)
      PROVE  IInv'
  <2>1. job[r].by \in Users
    BY <1>0, <1>7 DEF Accept, AddMembership, Writing, Sound
  <2>2. job' \in [Requests -> Jobs] /\ JobsSound'
    BY <1>7, AnsweredStep DEF Accept, AddMembership
  <2>3. sent' \in [Invites -> {"unsent", "pending", "expired", "accepted", "deleted"}]
    BY <1>7 DEF Accept, AddMembership
  <2>4. /\ role' = [role EXCEPT ![job[r].by] = as] /\ known' = known \cup {job[r].by}
        /\ UNCHANGED <<ownerOf, here, to>>
    BY <1>7 DEF Accept, AddMembership
  <2>5. role' \in [Users -> Roles] /\ known' \in SUBSET Users
    BY <2>1, <2>4 DEF Roles
  <2>6. AtMostOneOwner'
    BY <2>1, <2>4 DEF AtMostOneOwner, Owners
  <2> QED BY <2>2, <2>3, <2>4, <2>5, <2>6
<1>8. ASSUME ~Refuse(r), Remove(r) \/ Leave(r)
      PROVE  IInv'
  <2>1. DeleteMembership(r, job[r].who) \/ DeleteMembership(r, job[r].by)
    BY <1>8 DEF Remove, Leave
  <2> HIDE DEF IInv, TypeOK, JobsSound
  <2> QED BY <1>8, <2>1, <1>4
<1> HIDE DEF IInv, TypeOK, JobsSound
<1> QED BY <1>1, <1>2, <1>3, <1>5, <1>6, <1>7, <1>8

(* Every step keeps the invariant. *)
LEMMA NextStep ==
  ASSUME OrgAssumption, IInv, [Next]_vars
  PROVE  IInv'
<1>1. CASE UNCHANGED vars
  BY <1>1 DEF vars, IInv, TypeOK, AtMostOneOwner, Owners, JobsSound, Sound
<1>2. ASSUME NEW i \in Invites, Expire(i)
      PROVE  IInv'
  BY <1>2 DEF Expire, IInv, TypeOK, AtMostOneOwner, Owners, JobsSound, Sound
<1>3. ASSUME NEW r \in Requests, Read(r) \/ \E u \in Users, k \in Kinds, x \in Orgs : Authorize(r, u, k, x)
      PROVE  IInv'
  BY <1>3, ReadStep
<1>4. ASSUME NEW r \in Requests, Write(r)
      PROVE  IInv'
  BY <1>4, OtherWriteStep, RoleWriteStep DEF Write
<1> QED BY <1>1, <1>2, <1>3, <1>4 DEF Next

(* The invariant holds of every behaviour. *)
LEMMA Invariant == Spec => []IInv
<1>1. Init => IInv
  BY InitStep, OrgAssumption
<1>2. IInv /\ [Next]_vars => IInv'
  BY NextStep, OrgAssumption
<1> QED BY <1>1, <1>2, PTL DEF Spec

(* No overlap of requests on an organization, of any number of users, makes two     *)
(* owners: uq_org_one_owner is what a transfer that has been overtaken runs into.   *)
THEOREM OneOwner == Spec => []AtMostOneOwner
<1>1. IInv => AtMostOneOwner
  BY DEF IInv
<1> QED BY <1>1, Invariant, PTL

(* The types of the state. *)
THEOREM TypeCorrect == Spec => []TypeOK
<1>1. IInv => TypeOK
  BY DEF IInv
<1> QED BY <1>1, Invariant, PTL

(* The owner of an organization of any size is lost only to a request that acts on  *)
(* a role which has changed since it was loaded.                                    *)
THEOREM OwnerKept == Spec => OwnerLostToStaleRead
<1>1. ASSUME IInv, [Next]_vars, Owners # {}, Owners' = {}, here'
      PROVE  \E r \in Requests : job[r].step = "read" /\ job'[r].step = "idle" /\ ActsOnStaleRole(r)
  <2>1. PICK o \in Users : role[o] = "owner"
    BY <1>1 DEF Owners
  <2>2. \A u \in Users : role'[u] # "owner"
    BY <1>1 DEF Owners
  <2>3. role' # role
    BY <2>1, <2>2
  <2>4. PICK r \in Requests :
          \/ Add(r) \/ Update(r) \/ Remove(r) \/ Leave(r) \/ Transfer(r) \/ Delete(r)
          \/ \E as \in {"member", "admin"} : Accept(r, as)
    BY <1>1, <2>3 DEF Next, vars, Read, Write, Authorize, Expire, ReadCreate, ReadDelete, ReadAdd,
                      ReadTarget, ReadInvite, ReadSent, ReadAccept, Refuse, Load, Create, Invite,
                      Resend, Revoke
  <2>5. ~Refuse(r)
    BY <2>3 DEF Refuse
  <2>6. job[r] \in Jobs /\ Sound(job[r]) /\ role \in [Users -> Roles]
    BY <1>1 DEF IInv, TypeOK, JobsSound
  <2>7. job[r].step = "read"
    BY <2>4 DEF Add, Update, Remove, Leave, Transfer, Delete, Accept, AddMembership, Writing
  <2>8. job'[r].step = "idle"
    BY <2>4, <2>5 DEF Add, Update, Remove, Leave, Transfer, Delete, Accept, AddMembership, Answered, Idle,
                      DeleteMembership
  <2>9. ActsOnStaleRole(r)
    <3>1. CASE Add(r)
      BY <3>1, <1>1, <2>1, <2>2, <2>5, <2>6 DEF Add, AddMembership, IInv, AtMostOneOwner
    <3>2. CASE Update(r)
      BY <3>2, <2>1, <2>2, <2>5, <2>6 DEF Update, ActsOnStaleRole, Sound, Writing
    <3>3. CASE Remove(r)
      BY <3>3, <2>1, <2>2, <2>5, <2>6 DEF Remove, DeleteMembership, ActsOnStaleRole, Sound, Writing
    <3>4. CASE Leave(r)
      BY <3>4, <2>1, <2>2, <2>5, <2>6 DEF Leave, DeleteMembership, ActsOnStaleRole, Sound, Writing
    <3>5. CASE Transfer(r)
      <4>1. role' = Transferred(r) /\ job[r].who \in Users /\ job[r].by \in Users
            /\ job[r].kind = "transfer"
        BY <3>5, <2>5, <2>6 DEF Transfer, Sound, Writing
      <4>2. job[r].seen = "owner" /\ job[r].who # job[r].by
        BY <4>1, <2>2, <2>6 DEF Transferred
      <4>3. role[job[r].who] # "owner"
        BY <4>1, <4>2, <2>2, <2>6 DEF Transferred
      <4> QED BY <4>1, <4>2, <4>3 DEF ActsOnStaleRole
    <3>6. CASE Delete(r)
      BY <3>6, <1>1, <2>3 DEF Delete
    <3>7. ASSUME NEW as \in {"member", "admin"}, Accept(r, as)
          PROVE  ActsOnStaleRole(r)
      BY <3>7, <2>1, <2>2, <2>5, <2>6 DEF Accept, AddMembership
    <3> QED BY <2>4, <3>1, <3>2, <3>3, <3>4, <3>5, <3>6, <3>7
  <2> QED BY <2>7, <2>8, <2>9
<1>2. IInv /\ [Next]_vars =>
        [(Owners # {} /\ Owners' = {} /\ here') =>
          \E r \in Requests : job[r].step = "read" /\ job'[r].step = "idle" /\ ActsOnStaleRole(r)]_vars
  BY <1>1
<1> QED BY <1>2, Invariant, PTL DEF Spec, OwnerLostToStaleRead

-----------------------------------------------------------------------------
(* What a request rests on stays good until it writes. *)

(* What a request has read and still rests on when it writes: rows that are  *)
(* still there, an invite of the caller's, counts below their limits.        *)
Grounded(j) ==
  /\ \A u \in j.held : role[u] # "none"
  /\ j.step = "read" /\ j.kind = "update" => j.want # "none"
  /\ j.step = "read" /\ j.kind = "accept" =>
        \E i \in Invites : j.invites = {i} /\ to[i] = j.by /\ sent[i] # "unsent"
  /\ j.step = "read" /\ j.kind = "delete" => j.count > 1
  /\ j.step = "read" /\ j.kind = "create" => j.count < MaxOwned

Grounds ==
  /\ MaxOwned > 0
  /\ \A x \in Others : ownerOf[x] \in known \cup {Nobody}
  /\ \A r \in Requests : Grounded(job[r])

(* A request that has read nothing rests on nothing.                       *)
LEMMA IdleGrounded == Grounded(Idle)
BY DEF Idle, Grounded

(* The limit is no less than what the first owner owns. *)
LEMMA GroundsInit ==
  ASSUME OrgAssumption, Init
  PROVE  Grounds
<1>1. PICK u \in Users : Owners = {u} /\ Cardinality(Owned(u)) <= MaxOwned
  BY DEF Init
<1>2. This \in Owned(u)
  BY <1>1 DEF Owned, Owners
<1>3. Owned(u) \in SUBSET (Others \cup {This}) /\ IsFiniteSet(Others \cup {This})
  BY FS_AddElement DEF Owned, OrgAssumption
<1>4. IsFiniteSet(Owned(u))
  BY <1>3, FS_Subset
<1>5. Cardinality(Owned(u)) \in Nat /\ Cardinality(Owned(u)) # 0
  BY <1>2, <1>4, FS_EmptySet, FS_CardinalityType
<1>6. MaxOwned > 0
  BY <1>1, <1>5 DEF OrgAssumption
<1>7. \A x \in Others : ownerOf[x] \in known \cup {Nobody}
  BY DEF Init
<1>8. \A r \in Requests : job[r] = Idle
  BY DEF Init
<1> QED BY <1>6, <1>7, <1>8, IdleGrounded DEF Grounds

(* A refusal keeps the grounds of the others.                              *)
LEMMA GroundsRefuse ==
  ASSUME IInv, Grounds, NEW r \in Requests, Refuse(r)
  PROVE  Grounds'
<1>1. \A q \in Requests : job'[q] \in {job[q], Idle}
  BY DEF IInv, TypeOK, Refuse
<1> QED BY <1>1, IdleGrounded DEF Grounds, Grounded, Refuse, Idle

(* So does a read of what is there.                                        *)
LEMMA GroundsLoad ==
  ASSUME IInv, Grounds, NEW r \in Requests, NEW j, Grounded(j), Load(r, j)
  PROVE  Grounds'
<1>1. \A q \in Requests : job'[q] \in {job[q], j}
  BY DEF IInv, TypeOK, Load
<1> QED BY <1>1 DEF Grounds, Grounded, Load

(* A write that takes nobody's row but of those gone, and no invite's email. *)
LEMMA GroundsAnswered ==
  ASSUME IInv, Grounds, NEW r \in Requests, NEW gone, Answered(r, gone),
         \A u \in known \ gone : role[u] # "none" => role'[u] # "none",
         \A i \in Invites : sent[i] # "unsent" => sent'[i] # "unsent" /\ to'[i] = to[i],
         known \subseteq known',
         \A x \in Others : ownerOf'[x] \in {ownerOf[x], Nobody} \cup known'
  PROVE  Grounds'
<1>1. ASSUME NEW q \in Requests
      PROVE  Grounded(job[q])'
  <2>1. CASE q = r
    <3>1. job'[q] = Idle
      BY <2>1 DEF Answered
    <3> QED BY <3>1 DEF Grounded, Idle
  <2>2. CASE q # r
    <3>1. job'[q] = [job[q] EXCEPT !.held = @ \ gone] /\ job[q] \in Jobs /\ Sound(job[q])
      BY <2>2 DEF Answered, IInv, TypeOK, JobsSound
    <3>2. /\ job'[q].held = job[q].held \ gone /\ job[q].held \subseteq known
          /\ job'[q].step = job[q].step /\ job'[q].kind = job[q].kind /\ job'[q].want = job[q].want
          /\ job'[q].invites = job[q].invites /\ job'[q].by = job[q].by /\ job'[q].count = job[q].count
      BY <3>1 DEF Jobs, Sound
    <3>3. Grounded(job[q])
      BY DEF Grounds
    <3> QED BY <3>2, <3>3 DEF Grounded
  <2> QED BY <2>1, <2>2
<1>2. \A x \in Others : ownerOf'[x] \in known' \cup {Nobody}
  BY DEF Grounds
<1> QED BY <1>1, <1>2 DEF Grounds

(* What authorize and the endpoints read is there.                         *)
LEMMA GroundsRead ==
  ASSUME OrgAssumption, IInv, Grounds, NEW r \in Requests,
         Read(r) \/ \E u \in Users, k \in Kinds, x \in Orgs : Authorize(r, u, k, x)
  PROVE  Grounds'
<1>0. job[r] \in Jobs /\ Grounded(job[r])
  BY DEF IInv, TypeOK, Grounds
<1>1. ASSUME NEW u \in Users, NEW k \in Kinds, NEW x \in Orgs, Authorize(r, u, k, x)
      PROVE  Grounds'
  <2> DEFINE again == k \in {"leave", "update", "remove", "transfer"}
             j == [Idle EXCEPT !.step = IF k = "leave" THEN "read" ELSE "authorized",
                               !.kind = k, !.by = u, !.org = x,
                               !.was = IF again THEN role[u] ELSE "none",
                               !.held = IF again THEN {u} ELSE {}]
  <2>1. Load(r, j)
    BY <1>1 DEF Authorize, Load
  <2>2. again => role[u] # "none"
    BY <1>1 DEF Authorize, MayAct, IsOrgOwner, IsOrgAdmin, AdminOnly
  <2>3. j.held \subseteq {u} /\ (~again => j.held = {}) /\ j.kind = k /\ (j.step = "read" => k = "leave")
    BY DEF Idle
  <2>4. Grounded(j)
    BY <2>2, <2>3 DEF Grounded
  <2> HIDE DEF j
  <2> QED BY <2>1, <2>4, GroundsLoad
<1>2. CASE ReadCreate(r)
  <2>1. CASE Refuse(r)
    BY <2>1, GroundsRefuse
  <2>2. CASE ~Refuse(r) /\ At(r, "create")
    <3> DEFINE j == [job[r] EXCEPT !.step = "read", !.count = Cardinality(Owned(job[r].by))]
    <3>1. Load(r, j) /\ ~(Cardinality(Owned(job[r].by)) >= MaxOwned)
      BY <1>2, <2>2 DEF ReadCreate, At
    <3>2. j.count < MaxOwned /\ j.kind = "create" /\ j.held = job[r].held
      BY <1>0, <2>2, <3>1, CountsAreNumbers DEF OrgAssumption, Jobs, At
    <3>3. Grounded(j)
      BY <1>0, <3>2 DEF Grounded
    <3> HIDE DEF j
    <3> QED BY <3>1, <3>3, GroundsLoad
  <2>3. CASE ~Refuse(r) /\ At(r, "register")
    <3> DEFINE j == [job[r] EXCEPT !.step = "read"]
    <3>1. Load(r, j)
      BY <1>2, <2>3 DEF ReadCreate, At
    <3>2. Grounded(j)
      BY <1>0, <2>3 DEF Grounded, Jobs, At
    <3> HIDE DEF j
    <3> QED BY <3>1, <3>2, GroundsLoad
  <2> QED BY <1>2, <2>1, <2>2, <2>3 DEF ReadCreate
<1>3. CASE ReadDelete(r)
  <2> DEFINE j == [job[r] EXCEPT !.step = "read", !.count = Cardinality(Existing)]
  <2>1. CASE Refuse(r)
    BY <2>1, GroundsRefuse
  <2>2. CASE ~Refuse(r)
    <3>1. Load(r, j) /\ ~(Cardinality(Existing) <= 1) /\ At(r, "delete")
      BY <1>3, <2>2 DEF ReadDelete
    <3>2. j.count > 1 /\ j.kind = "delete" /\ j.held = job[r].held
      BY <1>0, <3>1, CountsAreNumbers DEF Jobs, At
    <3>3. Grounded(j)
      BY <1>0, <3>2 DEF Grounded
    <3> HIDE DEF j
    <3> QED BY <3>1, <3>3, GroundsLoad
  <2> QED BY <2>1, <2>2
<1>4. CASE ReadAdd(r)
  <2>1. PICK u \in Users, as \in {"member", "admin"} :
          Refuse(r) \/ Load(r, [job[r] EXCEPT !.step = "read", !.who = u, !.want = as])
    BY <1>4 DEF ReadAdd
  <2> DEFINE j == [job[r] EXCEPT !.step = "read", !.who = u, !.want = as]
  <2>2. Grounded(j)
    BY <1>0, <1>4 DEF Jobs, Grounded, ReadAdd, At
  <2> HIDE DEF j
  <2> QED BY <2>1, <2>2, GroundsRefuse, GroundsLoad DEF j
<1>5. CASE ReadTarget(r)
  <2>1. PICK u \in Users, as \in {"member", "admin"} :
          \/ Refuse(r)
          \/ /\ role[u] # "none"
             /\ Load(r, [job[r] EXCEPT !.step = "read", !.who = u, !.seen = SeenRole(r, u),
                                       !.want = as, !.held = IF u = job[r].by THEN @ ELSE @ \cup {u}])
    BY <1>5 DEF ReadTarget
  <2> DEFINE h == IF u = job[r].by THEN job[r].held ELSE job[r].held \cup {u}
             j == [job[r] EXCEPT !.step = "read", !.who = u, !.seen = SeenRole(r, u),
                                 !.want = as, !.held = h]
  <2>2. CASE Refuse(r)
    BY <2>2, GroundsRefuse
  <2>3. CASE ~Refuse(r)
    <3>1. Load(r, j) /\ role[u] # "none"
      BY <2>1, <2>3, <1>0 DEF Jobs
    <3>2. job[r].kind \in {"update", "remove", "transfer"}
      BY <1>5 DEF ReadTarget, At
    <3>3. \A v \in h : role[v] # "none"
      BY <1>0, <3>1 DEF Grounded
    <3> HIDE DEF h
    <3>4. Grounded(j)
      BY <1>0, <3>2, <3>3 DEF Jobs, Grounded
    <3> HIDE DEF j
    <3> QED BY <3>1, <3>4, GroundsLoad
  <2> QED BY <2>2, <2>3
<1>6. CASE ReadInvite(r)
  <2>1. PICK u \in Users :
          Refuse(r) \/ Load(r, [job[r] EXCEPT !.step = "read", !.invites = Pending(u), !.who = u])
    BY <1>6 DEF ReadInvite
  <2> DEFINE j == [job[r] EXCEPT !.step = "read", !.invites = Pending(u), !.who = u]
  <2>2. Grounded(j)
    BY <1>0, <1>6 DEF Jobs, Grounded, ReadInvite, At
  <2> HIDE DEF j
  <2> QED BY <2>1, <2>2, GroundsRefuse, GroundsLoad DEF j
<1>7. CASE ReadSent(r)
  <2>1. PICK i \in Invites : Refuse(r) \/ Load(r, [job[r] EXCEPT !.step = "read", !.invites = {i}])
    BY <1>7 DEF ReadSent
  <2> DEFINE j == [job[r] EXCEPT !.step = "read", !.invites = {i}]
  <2>2. Grounded(j)
    BY <1>0, <1>7 DEF Jobs, Grounded, ReadSent, At
  <2> HIDE DEF j
  <2> QED BY <2>1, <2>2, GroundsRefuse, GroundsLoad DEF j
<1>8. CASE ReadAccept(r)
  <2>1. PICK i \in Invites :
          \/ Refuse(r)
          \/ /\ sent[i] = "pending" /\ to[i] = job[r].by
             /\ Load(r, [job[r] EXCEPT !.step = "read", !.invites = {i},
                                       !.fresh = job[r].by \notin known])
    BY <1>8 DEF ReadAccept
  <2> DEFINE j == [job[r] EXCEPT !.step = "read", !.invites = {i}, !.fresh = job[r].by \notin known]
  <2>2. CASE Refuse(r)
    BY <2>2, GroundsRefuse
  <2>3. CASE ~Refuse(r)
    <3>1. Load(r, j) /\ sent[i] = "pending" /\ to[i] = job[r].by
      BY <2>1, <2>3
    <3>2. j.held = job[r].held /\ j.kind = "accept" /\ j.invites = {i} /\ j.by = job[r].by
      BY <1>0, <1>8 DEF Jobs, ReadAccept, At
    <3> HIDE DEF j
    <3>3. Grounded(j)
      BY <1>0, <3>1, <3>2 DEF Grounded
    <3> QED BY <3>1, <3>3, GroundsLoad
  <2> QED BY <2>2, <2>3
<1> QED BY <1>1, <1>2, <1>3, <1>4, <1>5, <1>6, <1>7, <1>8 DEF Read

(* A write keeps the grounds of the requests that go on.                   *)
LEMMA GroundsWrite ==
  ASSUME OrgAssumption, IInv, Grounds, NEW r \in Requests, Write(r)
  PROVE  Grounds'
<1>0. job[r] \in Jobs /\ Sound(job[r]) /\ Grounded(job[r]) /\ role \in [Users -> Roles]
      /\ known \subseteq Users
  BY DEF IInv, TypeOK, JobsSound, Grounds
<1>1. CASE Refuse(r)
  BY <1>1, GroundsRefuse
<1>2. ASSUME ~Refuse(r), Create(r)
      PROVE  Grounds'
  <2>1. Answered(r, {}) /\ known' = known \cup {job[r].by} /\ UNCHANGED <<role, sent, to>>
    BY <1>2 DEF Create
  <2>2. \A x \in Others : ownerOf'[x] \in {ownerOf[x], job[r].by}
    BY <1>2 DEF Create, IInv, TypeOK
  <2> QED BY <2>1, <2>2, GroundsAnswered
<1>3. ASSUME ~Refuse(r), Delete(r)
      PROVE  Grounds'
  <2>1. PICK gone : Answered(r, gone) /\ (gone = Users \/ role' = role)
    BY <1>3 DEF Delete
  <2>2. UNCHANGED known /\ to' = to /\ \A x \in Others : ownerOf'[x] \in {ownerOf[x], Nobody}
    BY <1>3 DEF Delete, IInv, TypeOK
  <2>3. \A i \in Invites : sent[i] # "unsent" => sent'[i] # "unsent"
    BY <1>3 DEF Delete, IInv, TypeOK
  <2>4. \A u \in known \ gone : role[u] # "none" => role'[u] # "none"
    BY <1>0, <2>1
  <2> QED BY <2>1, <2>2, <2>3, <2>4, GroundsAnswered
<1>4. ASSUME ~Refuse(r), Add(r)
      PROVE  Grounds'
  <2>1. /\ Answered(r, {}) /\ job[r].who \notin known /\ known' = known \cup {job[r].who}
        /\ role' = [role EXCEPT ![job[r].who] = job[r].want]
        /\ UNCHANGED <<ownerOf, sent, to>>
    BY <1>4 DEF Add, AddMembership
  <2>2. \A u \in known \ {} : role[u] # "none" => role'[u] # "none"
    BY <1>0, <2>1
  <2> QED BY <2>1, <2>2, GroundsAnswered
<1>5. ASSUME ~Refuse(r), Update(r)
      PROVE  Grounds'
  <2>1. /\ Answered(r, {}) /\ role' = [role EXCEPT ![job[r].who] = job[r].want]
        /\ UNCHANGED <<known, ownerOf, sent, to>> /\ Writing(r, "update")
    BY <1>5 DEF Update
  <2>2. \A u \in known \ {} : role[u] # "none" => role'[u] # "none"
    BY <1>0, <2>1 DEF Grounded, Writing
  <2> QED BY <2>1, <2>2, GroundsAnswered
<1>6. ASSUME ~Refuse(r), NEW u, DeleteMembership(r, u)
      PROVE  Grounds'
  <2>1. /\ Answered(r, {u}) /\ role' = [role EXCEPT ![u] = "none"]
        /\ UNCHANGED <<known, ownerOf, sent, to>>
    BY <1>6 DEF DeleteMembership
  <2>2. \A v \in known \ {u} : role[v] # "none" => role'[v] # "none"
    BY <1>0, <2>1
  <2> QED BY <2>1, <2>2, GroundsAnswered
<1>7. ASSUME ~Refuse(r), Transfer(r)
      PROVE  Grounds'
  <2>1. /\ Answered(r, {}) /\ role' = Transferred(r)
        /\ UNCHANGED <<known, ownerOf, sent, to>>
    BY <1>7 DEF Transfer
  <2>2. \A u \in known \ {} : role[u] # "none" => role'[u] # "none"
    BY <1>0, <2>1 DEF Transferred
  <2> QED BY <2>1, <2>2, GroundsAnswered
<1>8. ASSUME ~Refuse(r), Invite(r)
      PROVE  Grounds'
  <2>1. Answered(r, {}) /\ UNCHANGED <<known, role, ownerOf>>
    BY <1>8 DEF Invite
  <2>2. \A i \in Invites : sent[i] # "unsent" => sent'[i] # "unsent" /\ to'[i] = to[i]
    BY <1>8 DEF Invite, IInv, TypeOK
  <2> QED BY <2>1, <2>2, GroundsAnswered
<1>9. ASSUME ~Refuse(r), Resend(r) \/ Revoke(r)
      PROVE  Grounds'
  <2>1. Answered(r, {}) /\ UNCHANGED <<known, role, ownerOf, to>>
    BY <1>9 DEF Resend, Revoke
  <2>2. \A i \in Invites : sent[i] # "unsent" => sent'[i] # "unsent"
    BY <1>9 DEF Resend, Revoke, IInv, TypeOK
  <2> QED BY <2>1, <2>2, GroundsAnswered
<1>10. ASSUME ~Refuse(r), NEW as \in {"member", "admin"}, Accept(r, as)
       PROVE  Grounds'
  <2>1. /\ Answered(r, {}) /\ role' = [role EXCEPT ![job[r].by] = as]
        /\ known' = known \cup {job[r].by} /\ UNCHANGED <<ownerOf, to>>
    BY <1>10 DEF Accept, AddMembership
  <2>2. \A i \in Invites : sent[i] # "unsent" => sent'[i] # "unsent"
    BY <1>10 DEF Accept, IInv, TypeOK
  <2>3. \A u \in known \ {} : role[u] # "none" => role'[u] # "none"
    BY <1>0, <2>1
  <2> QED BY <2>1, <2>2, <2>3, GroundsAnswered
<1>11. ASSUME ~Refuse(r), Remove(r) \/ Leave(r)
       PROVE  Grounds'
  BY <1>6, <1>11 DEF Remove, Leave
<1> QED BY <1>1, <1>2, <1>3, <1>4, <1>5, <1>7, <1>8, <1>9, <1>10, <1>11 DEF Write

(* Every step keeps the grounds.                                           *)
LEMMA GroundsStep ==
  ASSUME OrgAssumption, IInv, Grounds, [Next]_vars
  PROVE  Grounds'
<1>1. CASE UNCHANGED vars
  BY <1>1 DEF vars, Grounds, Grounded
<1>2. ASSUME NEW i \in Invites, Expire(i)
      PROVE  Grounds'
  BY <1>2 DEF Expire, Grounds, Grounded, IInv, TypeOK
<1>3. ASSUME NEW r \in Requests, Read(r) \/ \E u \in Users, k \in Kinds, x \in Orgs : Authorize(r, u, k, x)
      PROVE  Grounds'
  BY <1>3, GroundsRead
<1>4. ASSUME NEW r \in Requests, Write(r)
      PROVE  Grounds'
  BY <1>4, GroundsWrite
<1> QED BY <1>1, <1>2, <1>3, <1>4 DEF Next

(* What requests rest on holds of every behaviour. *)
LEMMA Rests == Spec => [](IInv /\ Grounds)
<1>1. Init => IInv /\ Grounds
  BY InitStep, GroundsInit, OrgAssumption
<1>2. IInv /\ Grounds /\ [Next]_vars => (IInv /\ Grounds)'
  BY NextStep, GroundsStep, OrgAssumption
<1> QED BY <1>1, <1>2, PTL DEF Spec

(* Only writes change roles, organizations or accounts. *)
LEMMA WhoWrites ==
  ASSUME [Next]_vars, ~UNCHANGED <<role, ownerOf, here, known>>
  PROVE  \E r \in Requests : Write(r) /\ ~Refuse(r)
<1>1. PICK r \in Requests : Write(r)
  BY DEF Next, vars, Read, Authorize, Expire, ReadCreate, ReadDelete, ReadAdd, ReadTarget,
         ReadInvite, ReadSent, ReadAccept, Refuse, Load
<1>2. ~Refuse(r)
  BY DEF Refuse
<1> QED BY <1>1, <1>2

(* Whoever has an account gets into an organization, of any size and with any number of *)
(* requests, only by an invite that is theirs and that nobody has revoked or replaced   *)
(* by the time it is accepted.                                                          *)
THEOREM InviteNeeded == Spec => JoinsNeedInvite
<1>1. ASSUME IInv, Grounds, [Next]_vars, NEW u \in Users,
             role[u] = "none", role'[u] # "none", u \in known
      PROVE  \E i \in Invites : to[i] = u /\ sent[i] \notin {"unsent", "deleted"} /\ sent'[i] = "accepted"
  <2>1. PICK r \in Requests : Write(r) /\ ~Refuse(r)
    BY <1>1, WhoWrites
  <2>2. job[r] \in Jobs /\ Sound(job[r]) /\ Grounded(job[r]) /\ role \in [Users -> Roles]
    BY <1>1 DEF IInv, TypeOK, JobsSound, Grounds
  <2>3. ~Create(r) /\ ~Invite(r) /\ ~Resend(r) /\ ~Revoke(r) /\ ~Delete(r)
    BY <1>1, <2>1 DEF Create, Invite, Resend, Revoke, Delete
  <2>4. ~Add(r) /\ ~Update(r)
    BY <1>1, <2>1, <2>2 DEF Add, AddMembership, Update, Grounded
  <2>5. ~Remove(r) /\ ~Leave(r)
    BY <1>1, <2>1, <2>2 DEF Remove, Leave, DeleteMembership
  <2>6. ~Transfer(r)
    BY <1>1, <2>1, <2>2 DEF Transfer, Transferred, Grounded
  <2>7. PICK as \in {"member", "admin"} : Accept(r, as)
    BY <2>1, <2>3, <2>4, <2>5, <2>6 DEF Write
  <2>8. /\ role' = [role EXCEPT ![job[r].by] = as]
        /\ sent' = [i \in Invites |-> IF i \in job[r].invites THEN "accepted" ELSE sent[i]]
        /\ \A i \in job[r].invites : sent[i] # "deleted"
        /\ Writing(r, "accept")
    BY <2>1, <2>7 DEF Accept, AddMembership
  <2>9. u = job[r].by
    BY <1>1, <2>2, <2>8
  <2>10. PICK i \in Invites : job[r].invites = {i} /\ to[i] = job[r].by /\ sent[i] # "unsent"
    BY <2>2, <2>8 DEF Grounded, Writing
  <2> QED BY <2>8, <2>9, <2>10
<1>2. IInv /\ Grounds /\ [Next]_vars =>
        [\A u \in Users : (role[u] = "none" /\ role'[u] # "none" /\ u \in known) =>
           \E i \in Invites : to[i] = u /\ sent[i] \notin {"unsent", "deleted"} /\ sent'[i] = "accepted"]_vars
  BY <1>1
<1> QED BY <1>2, Rests, PTL DEF Spec, JoinsNeedInvite

(* An organization goes by a deletion only. *)
LEMMA ExistingStep ==
  ASSUME OrgAssumption, IInv, [Next]_vars
  PROVE  \/ Existing \subseteq Existing'
         \/ \E r \in Requests : Writing(r, "delete") /\ Existing \ {job[r].org} \subseteq Existing'
<1>1. CASE UNCHANGED <<ownerOf, here>>
  BY <1>1 DEF Existing, Exists, Orgs
<1>2. CASE ~UNCHANGED <<ownerOf, here>>
  <2>1. PICK r \in Requests : Write(r) /\ ~Refuse(r)
    BY <1>2, WhoWrites
  <2>2. Create(r) \/ Delete(r)
    BY <1>2, <2>1 DEF Write, Add, Update, Remove, Leave, DeleteMembership, Transfer, Invite, Resend,
                      Revoke, Accept, AddMembership
  <2>3. CASE Create(r)
    <3>1. job[r].by \in Users
      BY <2>1, <2>3 DEF Create, Writing, IInv, JobsSound, Sound
    <3>2. PICK x \in Others : ownerOf' = [ownerOf EXCEPT ![x] = job[r].by] /\ here' = here
      BY <2>1, <2>3 DEF Create
    <3> QED BY <3>1, <3>2 DEF IInv, TypeOK, Existing, Exists, Orgs, OrgAssumption
  <2>4. CASE Delete(r)
    <3>1. Writing(r, "delete")
      BY <2>4 DEF Delete
    <3>2. \A x \in Orgs \ {job[r].org} : Exists(x) => Exists(x)'
      BY <2>4 DEF Delete, Exists, Orgs, OrgAssumption, IInv, TypeOK
    <3>3. Existing \ {job[r].org} \subseteq Existing'
      BY <3>2 DEF Existing, Orgs
    <3> QED BY <3>1, <3>3
  <2> QED BY <2>2, <2>3, <2>4
<1> QED BY <1>1, <1>2

(* There are finitely many organizations to count.                         *)
LEMMA FiniteOrgs ==
  ASSUME OrgAssumption
  PROVE  IsFiniteSet(Existing) /\ \A u : IsFiniteSet(Owned(u))
<1>1. IsFiniteSet(Orgs)
  BY FS_AddElement DEF OrgAssumption, Orgs
<1>2. Existing \in SUBSET Orgs /\ \A u : Owned(u) \in SUBSET Orgs
  BY DEF Existing, Owned, Orgs
<1> QED BY <1>1, <1>2, FS_Subset

(* Who comes to own more has been made an owner, or creates one. *)
LEMMA OwnedStep ==
  ASSUME OrgAssumption, IInv, [Next]_vars, NEW u \in Users
  PROVE  \/ Owned(u)' \subseteq Owned(u)
         \/ role[u] # "owner" /\ role'[u] = "owner"
         \/ \E r \in Requests : /\ job[r].by = u
                                /\ Writing(r, "create") \/ (Writing(r, "register") /\ u \notin known)
                                /\ \E x \in Others : Owned(u)' \subseteq Owned(u) \cup {x}
<1>1. CASE UNCHANGED ownerOf
  BY <1>1 DEF Owned
<1>2. CASE ~UNCHANGED ownerOf
  <2>1. PICK r \in Requests : Write(r) /\ ~Refuse(r)
    BY <1>2, WhoWrites
  <2>2. Create(r) \/ Delete(r)
    BY <1>2, <2>1 DEF Write, Add, Update, Remove, Leave, DeleteMembership, Transfer, Invite, Resend,
                      Revoke, Accept, AddMembership
  <2>3. CASE Create(r)
    <3>1. PICK x \in Others : ownerOf' = [ownerOf EXCEPT ![x] = job[r].by] /\ role' = role
      BY <2>1, <2>3 DEF Create
    <3>2. CASE job[r].by = u
      <4>1. Owned(u)' \subseteq Owned(u) \cup {x}
        BY <3>1 DEF Owned, IInv, TypeOK
      <4>2. Writing(r, "create") \/ (Writing(r, "register") /\ u \notin known)
        BY <2>1, <2>3, <3>2 DEF Create
      <4> QED BY <3>2, <4>1, <4>2
    <3>3. CASE job[r].by # u
      BY <3>1, <3>3 DEF Owned, IInv, TypeOK
    <3> QED BY <3>2, <3>3
  <2>4. CASE Delete(r)
    <3>1. ownerOf' = [ownerOf EXCEPT ![job[r].org] = Nobody] /\ role' = role
      BY <1>2, <2>4 DEF Delete
    <3> QED BY <3>1 DEF Owned, IInv, TypeOK, OrgAssumption
  <2> QED BY <2>2, <2>3, <2>4
<1> QED BY <1>1, <1>2

(* For any number of users, organizations and requests and any limit: the last          *)
(* organization goes, and somebody comes to own more than the limit, only when a count  *)
(* has become stale, or by a transfer.                                                  *)
THEOREM LimitsHold == Spec => LimitsFallToOverlap
<1>1. ASSUME IInv, Grounds, [Next]_vars, Existing # {}, Existing' = {}
      PROVE  \E r \in Requests : Writing(r, "delete") /\ job[r].count > Cardinality(Existing)
  <2>1. PICK r \in Requests : Writing(r, "delete") /\ Existing \subseteq {job[r].org}
    BY <1>1, ExistingStep, OrgAssumption
  <2>2. Existing = {job[r].org}
    BY <1>1, <2>1
  <2>3. Cardinality(Existing) = 1
    BY <2>2, FS_Singleton
  <2>4. job[r].count > 1
    BY <1>1, <2>1 DEF Grounds, Grounded, Writing
  <2> QED BY <2>1, <2>3, <2>4
<1>2. ASSUME IInv, Grounds, [Next]_vars, NEW u \in Users,
             Cardinality(Owned(u)) <= MaxOwned, Cardinality(Owned(u)') > MaxOwned,
             ~(role[u] # "owner" /\ role'[u] = "owner")
      PROVE  \E r \in Requests : Writing(r, "create") /\ job[r].by = u
                                 /\ job[r].count < Cardinality(Owned(u))
  <2>1. IsFiniteSet(Owned(u)) /\ Cardinality(Owned(u)) \in Nat /\ MaxOwned \in Nat /\ MaxOwned > 0
    BY <1>2, FiniteOrgs, OrgAssumption, FS_CardinalityType DEF OrgAssumption, Grounds
  <2>2. \A S \in SUBSET Owned(u) : Cardinality(S) <= Cardinality(Owned(u)) /\ Cardinality(S) \in Nat
    BY <2>1, FS_Subset, FS_CardinalityType
  <2>3. ~(Owned(u)' \subseteq Owned(u))
    BY <1>2, <2>1, <2>2
  <2>4. PICK r \in Requests, x \in Others :
           /\ job[r].by = u
           /\ Writing(r, "create") \/ (Writing(r, "register") /\ u \notin known)
           /\ Owned(u)' \subseteq Owned(u) \cup {x}
    BY <1>2, <2>3, OwnedStep, OrgAssumption
  <2>5. PICK S : S = Owned(u) \cup {x}
    OBVIOUS
  <2>6. /\ IsFiniteSet(S) /\ Cardinality(S) <= Cardinality(Owned(u)) + 1 /\ Cardinality(S) \in Nat
    <3>1. IsFiniteSet(S) /\ Cardinality(S) = IF x \in Owned(u) THEN Cardinality(Owned(u)) ELSE Cardinality(Owned(u)) + 1
      BY <2>1, <2>5, FS_AddElement
    <3> QED BY <2>1, <3>1
  <2>7. Cardinality(Owned(u)') \in Nat /\ Cardinality(Owned(u)') <= Cardinality(S)
    BY <2>4, <2>5, <2>6, FS_Subset, FS_CardinalityType
  <2>8. Cardinality(Owned(u)) >= MaxOwned
    BY <1>2, <2>1, <2>6, <2>7
  <2>9. u \in known
    <3> SUFFICES ASSUME u \notin known
                 PROVE  Owned(u) = {}
      BY <2>1, <2>8, FS_EmptySet
    <3>1. u # Nobody
      BY OrgAssumption DEF OrgAssumption
    <3> QED BY <1>2, <3>1 DEF Owned, Grounds, IInv, AtMostOneOwner
  <2>10. Writing(r, "create")
    BY <2>4, <2>9
  <2>11. job[r].count < MaxOwned /\ job[r].count \in Nat
    BY <1>2, <2>10 DEF Grounds, Grounded, Writing, IInv, TypeOK, Jobs
  <2> QED BY <2>1, <2>4, <2>8, <2>10, <2>11
<1>3. IInv /\ Grounds /\ [Next]_vars =>
        [/\ Existing # {} /\ Existing' = {} =>
              \E r \in Requests : Writing(r, "delete") /\ job[r].count > Cardinality(Existing)
         /\ \A u \in Users :
              Cardinality(Owned(u)) <= MaxOwned /\ Cardinality(Owned(u)') > MaxOwned =>
                \/ role[u] # "owner" /\ role'[u] = "owner"
                \/ \E r \in Requests : Writing(r, "create") /\ job[r].by = u
                                       /\ job[r].count < Cardinality(Owned(u))]_vars
  BY <1>1, <1>2
<1> QED BY <1>3, Rests, PTL DEF Spec, LimitsFallToOverlap
=============================================================================
