--------------------------- MODULE MembershipProofs ---------------------------
(***************************************************************************)
(* The invariants of Membership for any people, invitations and requests.  *)
(* The guard of the last owner holds because a request that takes an owner *)
(* away carries a set of owners with another member; a token is used once  *)
(* because the row lock makes the requests that hold it exclusive.         *)
(***************************************************************************)
EXTENDS Membership, TLAPS, FiniteSetTheorems

\* A write that takes an owner away saw another one.
EditsAreGuarded ==
    \A e \in Editors :
        /\ edit[e].phase = "write" /\ edit[e].to # "owner"
        /\ edit[e].target \in edit[e].seen
        => \E q \in edit[e].seen : q # edit[e].target

\* A row lock has one holder, and what it locks stays open for it.
LocksAreSound ==
    \A v \in Visitors : visit[v] # NoVisit =>
        /\ invite[visit[v].token].stage \in {"pending", "expired"}
        /\ \A w \in Visitors \ {v} : visit[w] # NoVisit => visit[w].token # visit[v].token

ProvisionedHasAccount ==
    \A v \in Visitors : visit[v].phase = "provisioned" => invite[visit[v].token].email \in account

IInv ==
    /\ TypeOK
    /\ EditsAreGuarded
    /\ OwnerlessOnlyByRace
    /\ LocksAreSound
    /\ ProvisionedHasAccount
    /\ TokenIsSingleUse
    /\ AcceptedCanSignIn

-----------------------------------------------------------------------------
LEMMA InitIInv == Init => IInv
<1> SUFFICES ASSUME Init PROVE IInv
  OBVIOUS
<1>1. TypeOK
  <2>1. NoInvite \in Blank
    BY DEF Blank, NoInvite
  <2>2. /\ invite \in [Invites -> Blank \cup Letter]
        /\ edit \in [Editors -> Edits \cup {NoEdit}]
        /\ visit \in [Visitors -> Visits \cup {NoVisit}]
    BY <2>1 DEF Init
  <2>3. account \in SUBSET People /\ shut_out \in SUBSET People /\ uses \in [Invites -> 0..2]
    BY DEF Init
  <2>4. user \in [People -> {"none", "account", "invented"}] /\ role \in [People -> Roles \cup {"none"}]
    BY DEF Init
  <2>5. founded \in BOOLEAN /\ raced \in BOOLEAN
    BY DEF Init
  <2> QED BY <2>2, <2>3, <2>4, <2>5 DEF TypeOK
<1>2. EditsAreGuarded /\ OwnerlessOnlyByRace
  BY DEF Init, EditsAreGuarded, OwnerlessOnlyByRace, NoEdit
<1>3. LocksAreSound /\ ProvisionedHasAccount /\ TokenIsSingleUse /\ AcceptedCanSignIn
  BY DEF Init, LocksAreSound, ProvisionedHasAccount, TokenIsSingleUse, AcceptedCanSignIn,
         NoVisit, NoInvite
<1> QED BY <1>1, <1>2, <1>3 DEF IInv

\* A set with two elements or more has one other than p.
LEMMA AnotherOwner ==
    ASSUME NEW p, ~(Cardinality(Owners) <= 1)
    PROVE  \E q \in Owners : q # p
<1>1. IsFiniteSet(Owners)
  BY FiniteAssumption, FS_Subset DEF Owners
<1>2. CASE Owners \subseteq {p}
  <2>1. IsFiniteSet({p}) /\ Cardinality({p}) = 1
    BY FS_Singleton
  <2>2. Cardinality(Owners) <= 1
    BY <1>2, <2>1, FS_Subset
  <2> QED BY <2>2
<1> QED BY <1>2

-----------------------------------------------------------------------------
\* Accounts, sign-in and the creation of the organisation.
LEMMA PersonStep ==
    ASSUME IInv, NEW p \in People, SignUp(p) \/ ListMyOrgs(p) \/ CreateOrg(p)
    PROVE  IInv'
<1>1. TypeOK'
  BY DEF IInv, TypeOK, SignUp, ListMyOrgs, CreateOrg, ghosts, Roles
<1>2. edit' = edit /\ visit' = visit /\ invite' = invite /\ uses' = uses /\ account \subseteq account'
  BY DEF SignUp, ListMyOrgs, CreateOrg, ghosts
<1>3. EditsAreGuarded' /\ LocksAreSound' /\ ProvisionedHasAccount' /\ TokenIsSingleUse'
  BY <1>2 DEF IInv, EditsAreGuarded, LocksAreSound, ProvisionedHasAccount, TokenIsSingleUse
<1>4. OwnerlessOnlyByRace'
  BY DEF IInv, TypeOK, OwnerlessOnlyByRace, Owners, SignUp, ListMyOrgs, CreateOrg, ghosts
<1>5. \A q \in People : user[q] = "account" => user'[q] = "account"
  BY DEF IInv, TypeOK, SignUp, ListMyOrgs, CreateOrg
<1>6. AcceptedCanSignIn'
  <2> SUFFICES ASSUME NEW i \in Invites, invite[i].stage = "accepted"
               PROVE  invite[i].email \in account' /\ user'[invite[i].email] = "account"
    BY <1>2 DEF AcceptedCanSignIn
  <2>1. invite[i].email \in account /\ user[invite[i].email] = "account" /\ account \subseteq People
    BY DEF IInv, TypeOK, AcceptedCanSignIn
  <2> QED BY <1>2, <1>5, <2>1
<1> QED BY <1>1, <1>3, <1>4, <1>6 DEF IInv

\* The member endpoints.
LEMMA InviteMemberStep ==
    ASSUME IInv, NEW p \in People, NEW r \in Roles, InviteMember(p, r)
    PROVE  IInv'
<1>1. TypeOK'
  BY DEF IInv, TypeOK, InviteMember, ghosts
<1>2. /\ edit' = edit /\ visit' = visit /\ invite' = invite /\ account' = account
      /\ founded' = founded /\ raced' = raced /\ uses' = uses
  BY DEF InviteMember, ghosts
<1>3. EditsAreGuarded' /\ LocksAreSound' /\ ProvisionedHasAccount' /\ TokenIsSingleUse'
  BY <1>2 DEF IInv, EditsAreGuarded, LocksAreSound, ProvisionedHasAccount, TokenIsSingleUse
<1>4. OwnerlessOnlyByRace'
  BY <1>2 DEF IInv, TypeOK, OwnerlessOnlyByRace, Owners, InviteMember
<1>5. AcceptedCanSignIn'
  <2>1. \A q \in People : user[q] = "account" => user'[q] = "account"
    BY DEF IInv, TypeOK, InviteMember
  <2>2. account \subseteq People
    BY DEF IInv, TypeOK
  <2> QED BY <1>2, <2>1, <2>2 DEF IInv, AcceptedCanSignIn
<1> QED BY <1>1, <1>3, <1>4, <1>5 DEF IInv

LEMMA StartEditStep ==
    ASSUME IInv, NEW e \in Editors, NEW p \in People, NEW to \in Roles \cup {"none"}, StartEdit(e, p, to)
    PROVE  IInv'
<1> DEFINE new == [phase  |-> IF to # "owner" /\ role[p] = "owner" THEN "count" ELSE "write",
                   target |-> p, to |-> to, seen |-> Owners]
<1>0. /\ UNCHANGED <<account, user, role, invite, visit, founded, raced, uses, shut_out>>
      /\ edit' = [edit EXCEPT ![e] = new]
  BY DEF StartEdit, tables, ghosts
<1>1. new \in Edits
  BY DEF Edits, Owners
<1>2. TypeOK'
  BY <1>0, <1>1 DEF IInv, TypeOK
<1>3. EditsAreGuarded'
  <2>1. ~(new.phase = "write" /\ new.to # "owner" /\ new.target \in new.seen)
    BY DEF Owners
  <2> QED BY <1>0, <2>1 DEF IInv, TypeOK, EditsAreGuarded
<1>4. OwnerlessOnlyByRace' /\ LocksAreSound' /\ ProvisionedHasAccount' /\ TokenIsSingleUse' /\ AcceptedCanSignIn'
  BY <1>0 DEF IInv, OwnerlessOnlyByRace, Owners, LocksAreSound, ProvisionedHasAccount,
              TokenIsSingleUse, AcceptedCanSignIn
<1> QED BY <1>2, <1>3, <1>4 DEF IInv

LEMMA CountOwnersStep ==
    ASSUME IInv, NEW e \in Editors, CountOwners(e)
    PROVE  IInv'
<1> DEFINE new == IF Cardinality(Owners) <= 1 THEN NoEdit
                  ELSE [edit[e] EXCEPT !.phase = "write", !.seen = Owners]
<1>0. /\ UNCHANGED <<account, user, role, invite, visit, founded, raced, uses, shut_out>>
      /\ edit' = [edit EXCEPT ![e] = new]
      /\ edit[e].phase = "count"
  BY DEF CountOwners, tables, ghosts
<1>1. edit[e] \in Edits
  BY <1>0 DEF IInv, TypeOK, NoEdit
<1>2. new \in Edits \cup {NoEdit}
  BY <1>1 DEF Edits, Owners
<1>3. TypeOK'
  BY <1>0, <1>2 DEF IInv, TypeOK
<1>4. EditsAreGuarded'
  <2>1. new.phase = "write" => \E q \in new.seen : q # new.target
    BY <1>1, AnotherOwner DEF Edits, NoEdit
  <2> QED BY <1>0, <2>1 DEF IInv, TypeOK, EditsAreGuarded
<1>5. OwnerlessOnlyByRace' /\ LocksAreSound' /\ ProvisionedHasAccount' /\ TokenIsSingleUse' /\ AcceptedCanSignIn'
  BY <1>0 DEF IInv, OwnerlessOnlyByRace, Owners, LocksAreSound, ProvisionedHasAccount,
              TokenIsSingleUse, AcceptedCanSignIn
<1> QED BY <1>3, <1>4, <1>5 DEF IInv

\* The write of a request: the one step that can take the last owner away.
LEMMA WriteEditStep ==
    ASSUME IInv, NEW e \in Editors, WriteEdit(e)
    PROVE  IInv'
<1> DEFINE p == edit[e].target
<1>0. /\ UNCHANGED <<account, user, invite, visit, founded, uses, shut_out>>
      /\ edit[e].phase = "write"
      /\ role' = [role EXCEPT ![p] = IF @ = "none" THEN @ ELSE edit[e].to]
      /\ raced' = (raced \/ (role[p] = "owner" /\ edit[e].to # "owner" /\ edit[e].seen # Owners))
      /\ edit' = [edit EXCEPT ![e] = NoEdit]
  BY DEF WriteEdit
<1>1. edit[e] \in Edits
  BY <1>0 DEF IInv, TypeOK, NoEdit
<1>2. p \in People /\ edit[e].to \in Roles \cup {"none"}
  BY <1>1 DEF Edits
<1>3. TypeOK'
  BY <1>0, <1>2 DEF IInv, TypeOK
<1>4. EditsAreGuarded'
  BY <1>0 DEF IInv, TypeOK, EditsAreGuarded, NoEdit
<1>5. OwnerlessOnlyByRace'
  <2> SUFFICES ASSUME founded, ~raced', Owners' = {} PROVE FALSE
    BY <1>0 DEF OwnerlessOnlyByRace
  <2>1. PICK o \in Owners : TRUE
    BY <1>0 DEF IInv, OwnerlessOnlyByRace
  <2>2. o = p /\ edit[e].to # "owner" /\ role[p] = "owner"
    BY <1>0, <1>2, <2>1 DEF IInv, TypeOK, Owners
  <2>3. edit[e].seen = Owners
    BY <1>0, <2>2
  <2>4. PICK q \in Owners : q # p
    BY <1>0, <2>1, <2>2, <2>3 DEF IInv, EditsAreGuarded
  <2>5. q \in Owners'
    BY <1>0, <1>2, <2>4 DEF IInv, TypeOK, Owners
  <2> QED BY <2>5
<1>6. LocksAreSound' /\ ProvisionedHasAccount' /\ TokenIsSingleUse' /\ AcceptedCanSignIn'
  BY <1>0 DEF IInv, LocksAreSound, ProvisionedHasAccount, TokenIsSingleUse, AcceptedCanSignIn
<1> QED BY <1>3, <1>4, <1>5, <1>6 DEF IInv

-----------------------------------------------------------------------------
\* Steps of the row of an invitation other than its acceptance.
LEMMA InvitationStep ==
    ASSUME IInv, NEW i \in Invites,
           \/ \E p \in People, r \in Invitable : CheckInvitation(i, p, r)
           \/ InsertInvitation(i) \/ ExpireInvitation(i) \/ RevokeInvitation(i)
           \/ invite[i].stage = "checked" /\ invite' = [invite EXCEPT ![i] = NoInvite]
              /\ UNCHANGED <<account, user, role, edit, visit, ghosts>>
    PROVE  IInv'
<1>0. UNCHANGED <<account, user, role, edit, visit, founded, raced, uses, shut_out>>
  BY DEF CheckInvitation, InsertInvitation, ExpireInvitation, RevokeInvitation, ghosts
<1>1. invite' \in [Invites -> Blank \cup Letter]
  <2>1. CASE \E p \in People, r \in Invitable : CheckInvitation(i, p, r)
    BY <2>1 DEF IInv, TypeOK, CheckInvitation, Letter, Stages
  <2>2. CASE InsertInvitation(i) \/ ExpireInvitation(i) \/ RevokeInvitation(i)
    <3>1. invite[i] \in Letter
      BY <2>2 DEF IInv, TypeOK, Blank, InsertInvitation, ExpireInvitation, RevokeInvitation
    <3>2. \A x \in Letter, s \in Stages \ {"absent"} : [x EXCEPT !.stage = s] \in Letter
      BY DEF Letter
    <3>3. \E s \in Stages \ {"absent"} : invite' = [invite EXCEPT ![i] = [invite[i] EXCEPT !.stage = s]]
      BY <2>2 DEF InsertInvitation, ExpireInvitation, RevokeInvitation, Stages
    <3> QED BY <3>1, <3>2, <3>3 DEF IInv, TypeOK
  <2>3. CASE invite' = [invite EXCEPT ![i] = NoInvite]
    <3>1. NoInvite \in Blank
      BY DEF Blank, NoInvite
    <3> QED BY <2>3, <3>1 DEF IInv, TypeOK
  <2> QED BY <2>1, <2>2, <2>3
<1>2. TypeOK'
  BY <1>0, <1>1 DEF IInv, TypeOK
<1> DEFINE reached == {"absent", "checked", "pending", "expired", "revoked"}
<1>3. /\ \A j \in Invites \ {i} : invite'[j] = invite[j]
      /\ invite[i].stage \in reached /\ invite'[i].stage \in reached
  <2> USE DEF IInv, TypeOK
  <2>1. CASE \E p \in People, r \in Invitable : CheckInvitation(i, p, r)
    <3>1. PICK p \in People, r \in Invitable : CheckInvitation(i, p, r)
      BY <2>1
    <3>2. invite' = [invite EXCEPT ![i] = [stage |-> "checked", email |-> p, role |-> r]]
      BY <3>1 DEF CheckInvitation
    <3>3. invite[i].stage = "absent"
      BY <3>1 DEF CheckInvitation
    <3> QED BY <3>2, <3>3
  <2>2. CASE InsertInvitation(i)
    BY <2>2 DEF InsertInvitation
  <2>3. CASE ExpireInvitation(i)
    BY <2>3 DEF ExpireInvitation
  <2>5. CASE RevokeInvitation(i)
    <3>1. /\ invite[i].stage \in {"pending", "expired"}
          /\ invite' = [invite EXCEPT ![i].stage = "revoked"]
      BY <2>5 DEF RevokeInvitation
    <3> QED BY <3>1 DEF Blank, Letter
  <2>4. CASE invite[i].stage = "checked" /\ invite' = [invite EXCEPT ![i] = NoInvite]
    <3>1. NoInvite.stage = "absent"
      BY DEF NoInvite
    <3>2. invite'[i] = NoInvite /\ \A j \in Invites \ {i} : invite'[j] = invite[j]
      BY <2>4
    <3> QED BY <2>4, <3>1, <3>2
  <2> QED BY <2>1, <2>2, <2>3, <2>4, <2>5
<1>4. \A v \in Visitors : visit[v] # NoVisit /\ visit[v].token = i =>
          invite'[i].stage \in {"pending", "expired"} /\ invite'[i].email = invite[i].email
  <2>1. SUFFICES ASSUME NEW v \in Visitors, visit[v] # NoVisit, visit[v].token = i
                 PROVE  invite'[i].stage \in {"pending", "expired"} /\ invite'[i].email = invite[i].email
    OBVIOUS
  <2>2. invite[i].stage \in {"pending", "expired"} /\ ~Unlocked(i)
    BY <2>1 DEF IInv, LocksAreSound, Unlocked
  <2>3. ExpireInvitation(i)
    BY <2>2 DEF CheckInvitation, InsertInvitation, RevokeInvitation
  <2>4. invite' = [invite EXCEPT ![i] = [invite[i] EXCEPT !.stage = "expired"]]
    BY <2>3 DEF ExpireInvitation
  <2>5. invite[i] \in Letter
    BY <2>2 DEF IInv, TypeOK, Blank
  <2>6. \A x \in Letter : LET y == [x EXCEPT !.stage = "expired"]
                          IN  y.stage = "expired" /\ y.email = x.email
    BY DEF Letter
  <2> QED BY <2>4, <2>5, <2>6 DEF IInv, TypeOK
<1>5. \A v \in Visitors : visit[v] # NoVisit => visit[v].token \in Invites
  BY DEF IInv, TypeOK, Visits
<1>6. LocksAreSound'
  BY <1>0, <1>3, <1>4, <1>5 DEF IInv, LocksAreSound
<1>7. ProvisionedHasAccount'
  <2>1. \A v \in Visitors : visit[v].phase = "provisioned" => visit[v] # NoVisit
    BY DEF NoVisit
  <2> QED BY <1>0, <1>3, <1>4, <1>5, <2>1 DEF IInv, ProvisionedHasAccount
<1>8. EditsAreGuarded' /\ OwnerlessOnlyByRace' /\ TokenIsSingleUse' /\ AcceptedCanSignIn'
  BY <1>0, <1>3 DEF IInv, EditsAreGuarded, OwnerlessOnlyByRace, Owners, TokenIsSingleUse, AcceptedCanSignIn
<1> QED BY <1>2, <1>6, <1>7, <1>8 DEF IInv

\* An accept request takes the row lock, or makes the account.
LEMMA VisitStep ==
    ASSUME IInv, NEW v \in Visitors,
           ProvisionUser(v) \/ \E i \in Invites : LockInvitation(v, i)
    PROVE  IInv'
<1>1. CASE \E i \in Invites : LockInvitation(v, i)
  <2>1. PICK i \in Invites : LockInvitation(v, i)
    BY <1>1
  <2> DEFINE new == [phase |-> "locked", token |-> i]
  <2>2. /\ UNCHANGED <<account, user, role, invite, edit, founded, raced, uses, shut_out>>
        /\ visit' = [visit EXCEPT ![v] = new]
        /\ invite[i].stage = "pending"
        /\ \A w \in Visitors : visit[w] # NoVisit => visit[w].token # i
    BY <2>1 DEF LockInvitation, Unlocked, tables, ghosts
  <2>3. new \in Visits /\ new.phase # "provisioned" /\ new.token = i
    BY DEF Visits
  <2>4. TypeOK'
    BY <2>2, <2>3 DEF IInv, TypeOK
  <2>5. LocksAreSound' /\ ProvisionedHasAccount'
    BY <2>2, <2>3 DEF IInv, TypeOK, LocksAreSound, ProvisionedHasAccount
  <2>6. EditsAreGuarded' /\ OwnerlessOnlyByRace' /\ TokenIsSingleUse' /\ AcceptedCanSignIn'
    BY <2>2 DEF IInv, EditsAreGuarded, OwnerlessOnlyByRace, Owners, TokenIsSingleUse, AcceptedCanSignIn
  <2> QED BY <2>4, <2>5, <2>6 DEF IInv
<1>2. CASE ProvisionUser(v)
  <2> DEFINE new == [visit[v] EXCEPT !.phase = "provisioned"]
             p   == invite[visit[v].token].email
  <2>1. /\ UNCHANGED <<user, role, invite, edit, founded, raced, uses, shut_out>>
        /\ visit' = [visit EXCEPT ![v] = new]
        /\ account' = account \cup {p}
        /\ visit[v].phase = "locked"
    BY <1>2 DEF ProvisionUser, ghosts
  <2>2. visit[v] \in Visits /\ visit[v] # NoVisit
    BY <2>1 DEF IInv, TypeOK, NoVisit
  <2>3. new \in Visits /\ new # NoVisit /\ new.token = visit[v].token
    BY <2>2 DEF Visits, NoVisit
  <2>4. p \in People
    BY <2>2 DEF IInv, TypeOK, LocksAreSound, Visits, Blank, Letter
  <2>5. TypeOK'
    BY <2>1, <2>3, <2>4 DEF IInv, TypeOK
  <2>6. LocksAreSound'
    BY <2>1, <2>2, <2>3 DEF IInv, TypeOK, LocksAreSound
  <2>7. ProvisionedHasAccount'
    BY <2>1, <2>3 DEF IInv, TypeOK, ProvisionedHasAccount
  <2>8. EditsAreGuarded' /\ OwnerlessOnlyByRace' /\ TokenIsSingleUse' /\ AcceptedCanSignIn'
    BY <2>1 DEF IInv, EditsAreGuarded, OwnerlessOnlyByRace, Owners, TokenIsSingleUse, AcceptedCanSignIn
  <2> QED BY <2>5, <2>6, <2>7, <2>8 DEF IInv
<1> QED BY <1>1, <1>2

\* The commit of an acceptance.
LEMMA GrantStep ==
    ASSUME IInv, NEW v \in Visitors, GrantMembership(v)
    PROVE  IInv'
<1> DEFINE i == visit[v].token
           p == invite[i].email
<1>1. /\ UNCHANGED <<account, edit, founded, raced, shut_out>>
      /\ visit[v].phase = "provisioned"
      /\ user' = [user EXCEPT ![p] = "account"]
      /\ role' = [role EXCEPT ![p] = IF @ = "none" THEN invite[i].role ELSE @]
      /\ invite' = [invite EXCEPT ![i].stage = "accepted"]
      /\ uses' = [uses EXCEPT ![i] = IF @ < 2 THEN @ + 1 ELSE @]
      /\ visit' = [visit EXCEPT ![v] = NoVisit]
  BY DEF GrantMembership
<1>2. visit[v] # NoVisit /\ i \in Invites
  BY <1>1 DEF IInv, TypeOK, Visits, NoVisit
<1>3. invite[i] \in Letter /\ invite[i].stage \in {"pending", "expired"}
  BY <1>2 DEF IInv, TypeOK, LocksAreSound, Blank
<1>4. p \in People /\ invite[i].role \in Roles /\ invite[i].role # "owner"
  BY <1>3 DEF Letter, Invitable, Roles
<1>5. [invite[i] EXCEPT !.stage = "accepted"] \in Letter
  BY <1>3 DEF Letter, Stages
<1>6. TypeOK'
  <2>1. invite' = [invite EXCEPT ![i] = [invite[i] EXCEPT !.stage = "accepted"]]
    BY <1>1
  <2> QED BY <1>1, <1>2, <1>4, <1>5, <2>1 DEF IInv, TypeOK
<1>7. /\ \A j \in Invites \ {i} : invite'[j] = invite[j] /\ uses'[j] = uses[j]
      /\ invite'[i].stage = "accepted" /\ invite'[i].email = p
  BY <1>1, <1>2 DEF IInv, TypeOK
<1>8. \A w \in Visitors \ {v} : visit'[w] = visit[w] /\ (visit[w] # NoVisit => visit[w].token \in Invites \ {i})
  BY <1>1, <1>2 DEF IInv, TypeOK, LocksAreSound, Visits
<1>9. visit'[v] = NoVisit /\ NoVisit.phase # "provisioned"
  BY <1>1 DEF IInv, TypeOK, NoVisit
<1>10. LocksAreSound'
  BY <1>7, <1>8, <1>9 DEF IInv, LocksAreSound
<1>11. ProvisionedHasAccount'
  <2>1. \A w \in Visitors : visit[w].phase = "provisioned" => visit[w] # NoVisit
    BY DEF NoVisit
  <2> QED BY <1>1, <1>7, <1>8, <1>9, <2>1 DEF IInv, ProvisionedHasAccount
<1>12. TokenIsSingleUse'
  <2>1. uses[i] = 0 /\ \A j \in Invites : uses[j] \in 0..2
    BY <1>2, <1>3 DEF IInv, TypeOK, TokenIsSingleUse
  <2>2. uses'[i] = 1
    BY <1>1, <1>2, <2>1 DEF IInv, TypeOK
  <2> QED BY <1>7, <2>2 DEF IInv, TokenIsSingleUse
<1>13. AcceptedCanSignIn'
  <2>1. p \in account /\ user'[p] = "account"
    BY <1>1, <1>4 DEF IInv, TypeOK, ProvisionedHasAccount
  <2>2. \A q \in People : user[q] = "account" => user'[q] = "account"
    BY <1>1 DEF IInv, TypeOK
  <2>3. account \subseteq People
    BY DEF IInv, TypeOK
  <2> QED BY <1>1, <1>7, <2>1, <2>2, <2>3 DEF IInv, AcceptedCanSignIn
<1>14. EditsAreGuarded'
  BY <1>1 DEF IInv, EditsAreGuarded
<1>15. OwnerlessOnlyByRace'
  BY <1>1, <1>4 DEF IInv, TypeOK, OwnerlessOnlyByRace, Owners
<1> QED BY <1>6, <1>10, <1>11, <1>12, <1>13, <1>14, <1>15 DEF IInv

\* Requests that fail half way.
LEMMA DropStep ==
    ASSUME IInv, DropRequest
    PROVE  IInv'
<1>1. CASE \E i \in Invites : invite[i].stage = "checked" /\ invite' = [invite EXCEPT ![i] = NoInvite]
                              /\ UNCHANGED <<account, user, role, edit, visit, ghosts>>
  BY <1>1, InvitationStep
<1>2. CASE \E e \in Editors : edit' = [edit EXCEPT ![e] = NoEdit] /\ UNCHANGED <<tables, visit, ghosts>>
  <2>1. PICK e \in Editors : edit' = [edit EXCEPT ![e] = NoEdit]
    BY <1>2
  <2>2. UNCHANGED <<account, user, role, invite, visit, founded, raced, uses, shut_out>>
    BY <1>2 DEF tables, ghosts
  <2>3. TypeOK'
    BY <2>1, <2>2 DEF IInv, TypeOK
  <2>4. EditsAreGuarded'
    BY <2>1 DEF IInv, TypeOK, EditsAreGuarded, NoEdit
  <2>5. OwnerlessOnlyByRace' /\ LocksAreSound' /\ ProvisionedHasAccount' /\ TokenIsSingleUse' /\ AcceptedCanSignIn'
    BY <2>2 DEF IInv, OwnerlessOnlyByRace, Owners, LocksAreSound, ProvisionedHasAccount,
                TokenIsSingleUse, AcceptedCanSignIn
  <2> QED BY <2>3, <2>4, <2>5 DEF IInv
<1>3. CASE \E v \in Visitors : visit' = [visit EXCEPT ![v] = NoVisit] /\ UNCHANGED <<tables, edit, ghosts>>
  <2>1. PICK v \in Visitors : visit' = [visit EXCEPT ![v] = NoVisit]
    BY <1>3
  <2>2. UNCHANGED <<account, user, role, invite, edit, founded, raced, uses, shut_out>>
    BY <1>3 DEF tables, ghosts
  <2>3. TypeOK'
    BY <2>1, <2>2 DEF IInv, TypeOK
  <2>4. LocksAreSound' /\ ProvisionedHasAccount'
    BY <2>1, <2>2 DEF IInv, TypeOK, LocksAreSound, ProvisionedHasAccount, NoVisit
  <2>5. EditsAreGuarded' /\ OwnerlessOnlyByRace' /\ TokenIsSingleUse' /\ AcceptedCanSignIn'
    BY <2>2 DEF IInv, EditsAreGuarded, OwnerlessOnlyByRace, Owners, TokenIsSingleUse, AcceptedCanSignIn
  <2> QED BY <2>3, <2>4, <2>5 DEF IInv
<1> QED BY <1>1, <1>2, <1>3 DEF DropRequest

-----------------------------------------------------------------------------
LEMMA NextIInv == IInv /\ [Next]_vars => IInv'
<1> SUFFICES ASSUME IInv, [Next]_vars PROVE IInv'
  OBVIOUS
<1>1. CASE UNCHANGED vars
  BY <1>1 DEF IInv, TypeOK, EditsAreGuarded, OwnerlessOnlyByRace, Owners, LocksAreSound,
              ProvisionedHasAccount, TokenIsSingleUse, AcceptedCanSignIn, vars, tables, ghosts
<1>2. CASE \E p \in People : SignUp(p) \/ ListMyOrgs(p) \/ CreateOrg(p)
  BY <1>2, PersonStep
<1>3. CASE Members
  BY <1>3, InviteMemberStep, StartEditStep, CountOwnersStep, WriteEditStep DEF Members
<1>4. CASE Invitations
  BY <1>4, InvitationStep, VisitStep, GrantStep DEF Invitations
<1>5. CASE DropRequest
  BY <1>5, DropStep
<1> QED BY <1>1, <1>2, <1>3, <1>4, <1>5 DEF Next

\* The inductive invariant, for any people, invitations and requests.
THEOREM Invariance == Spec => []IInv
  BY InitIInv, NextIInv, PTL DEF Spec

\* Type correctness of the tables and of the requests under way.
THEOREM TypeCorrect == Spec => []TypeOK
<1>1. IInv => TypeOK
  BY DEF IInv
<1> QED BY <1>1, Invariance, PTL

\* An organisation loses its last owner only by a count that became false.
THEOREM LastOwnerIsGuarded == Spec => []OwnerlessOnlyByRace
<1>1. IInv => OwnerlessOnlyByRace
  BY DEF IInv
<1> QED BY <1>1, Invariance, PTL

\* An invitation lets someone in at most once, and never once it is revoked.
THEOREM TokensAreSingleUse == Spec => []TokenIsSingleUse
<1>1. IInv => TokenIsSingleUse
  BY DEF IInv
<1> QED BY <1>1, Invariance, PTL

\* Whoever accepted an invitation can sign in.
THEOREM AcceptanceLetsIn == Spec => []AcceptedCanSignIn
<1>1. IInv => AcceptedCanSignIn
  BY DEF IInv
<1> QED BY <1>1, Invariance, PTL
=============================================================================
