------------------------------ MODULE Membership ------------------------------
(***************************************************************************)
(* Who belongs to an organisation: its creation (routers/orgs.py), the     *)
(* member endpoints (routers/org.py), the invitations (routers/            *)
(* invitations.py) and the users row a sign-in provisions (routers/me.py). *)
(*                                                                         *)
(* A person is an e-mail address.  users.email is unique, so a person has  *)
(* at most one users row; its id is the one of the person's Supabase       *)
(* account, or one that invite_member made up before there was an account. *)
(* org_members hangs on the users row.  The database runs READ COMMITTED:  *)
(* a check and the write it guards are two steps, a write waits for the    *)
(* row locks of others and then sees what they committed.                  *)
(***************************************************************************)
EXTENDS Naturals, FiniteSets

CONSTANTS
    People,         \* e-mail addresses
    Invites,        \* ids of invitations rows
    Editors,        \* PATCH and DELETE /org/members requests under way
    Visitors        \* POST /invitations/{token}/accept requests under way

ASSUME FiniteAssumption == IsFiniteSet(People)

VARIABLES
    account,        \* people with a Supabase account (external)
    user,           \* the users row of a person, by its id
    role,           \* the org_members row of a person: its role
    invite,         \* invitations rows; "checked" is a create request under way
    edit,           \* each PATCH or DELETE request
    visit,          \* each accept request
    \* ---- ghosts ----
    founded,        \* the organisation exists
    raced,          \* an owner was taken away on a count that was no longer true
    uses,           \* accept requests that committed, per invitation, up to 2
    shut_out        \* people whose sign-in ended in an error

tables == <<account, user, role, invite>>
ghosts == <<founded, raced, uses, shut_out>>
vars   == <<tables, edit, visit, ghosts>>

-----------------------------------------------------------------------------
\* Role.VIEWER differs from Role.MEMBER in what the other routers allow only.
Roles      == {"owner", "admin", "member"}
Invitable  == {"admin", "member"}
Stages     == {"absent", "checked", "pending", "expired", "accepted", "revoked"}

Blank      == [stage : {"absent"}, email : {"nobody"}, role : {"none"}]
Letter     == [stage : Stages \ {"absent"}, email : People, role : Invitable]
NoInvite   == [stage |-> "absent", email |-> "nobody", role |-> "none"]

\* A request whose target is an owner counts the owners before it writes.
\* seen is the set of owners at its last check.
Edits  == [phase : {"count", "write"}, target : People, to : Roles \cup {"none"}, seen : SUBSET People]
NoEdit == [phase |-> "idle"]

Visits  == [phase : {"locked", "provisioned"}, token : Invites]
NoVisit == [phase |-> "idle"]

Owners == {p \in People : role[p] = "owner"}

\* require_min_role(ADMIN): a signed-in owner or admin.
AdminIsIn == \E c \in People : user[c] = "account" /\ role[c] \in {"owner", "admin"}

TypeOK ==
    /\ account \in SUBSET People
    /\ user \in [People -> {"none", "account", "invented"}]
    /\ role \in [People -> Roles \cup {"none"}]
    /\ invite \in [Invites -> Blank \cup Letter]
    /\ edit \in [Editors -> Edits \cup {NoEdit}]
    /\ visit \in [Visitors -> Visits \cup {NoVisit}]
    /\ founded \in BOOLEAN
    /\ raced \in BOOLEAN
    /\ uses \in [Invites -> 0..2]
    /\ shut_out \in SUBSET People

Init ==
    /\ account = {}
    /\ user = [p \in People |-> "none"]
    /\ role = [p \in People |-> "none"]
    /\ invite = [i \in Invites |-> NoInvite]
    /\ edit = [e \in Editors |-> NoEdit]
    /\ visit = [v \in Visitors |-> NoVisit]
    /\ founded = FALSE
    /\ raced = FALSE
    /\ uses = [i \in Invites |-> 0]
    /\ shut_out = {}

-----------------------------------------------------------------------------
(* Accounts and sign-in.                                                   *)

\* A person registers with Supabase.
SignUp(p) ==
    /\ p \notin account
    /\ account' = account \cup {p}
    /\ UNCHANGED <<user, role, invite, edit, visit, ghosts>>

\* INSERT INTO users (id, email) ... ON CONFLICT (id) DO UPDATE: a row with
\* the same e-mail and another id is not that conflict but a unique violation.
EmailTaken(p) == user[p] = "invented"

\* list_my_orgs: the users row of a first sign-in, or an error.
ListMyOrgs(p) ==
    /\ p \in account
    /\ IF EmailTaken(p)
       THEN shut_out' = shut_out \cup {p} /\ UNCHANGED user
       ELSE user' = [user EXCEPT ![p] = "account"] /\ UNCHANGED shut_out
    /\ UNCHANGED <<account, role, invite, edit, visit, founded, raced, uses>>

\* create_org: one transaction, the caller becomes the owner.
CreateOrg(p) ==
    /\ p \in account
    /\ ~founded /\ ~EmailTaken(p)
    /\ founded' = TRUE
    /\ user' = [user EXCEPT ![p] = "account"]
    /\ role' = [role EXCEPT ![p] = "owner"]
    /\ UNCHANGED <<account, invite, edit, visit, raced, uses, shut_out>>

-----------------------------------------------------------------------------
(* The member endpoints.                                                   *)

\* Fault: the enum itself is stored as the role.
InviteMemberRaw(p, r) ==
    /\ AdminIsIn
    /\ role[p] = "none"
    /\ user' = [user EXCEPT ![p] = IF @ = "none" THEN "invented" ELSE @]
    /\ role' = [role EXCEPT ![p] = "Role"]
    /\ UNCHANGED <<account, invite, edit, visit, ghosts>>

\* invite_member: the users row of a new e-mail gets an id of its own, and an
\* existing membership is left as it is.  One transaction; where it meets a
\* concurrent insert a unique constraint fails it as a whole.
InviteMember(p, r) ==
    /\ AdminIsIn
    /\ role[p] = "none"
    /\ user' = [user EXCEPT ![p] = IF @ = "none" THEN "invented" ELSE @]
    /\ role' = [role EXCEPT ![p] = r]
    /\ UNCHANGED <<account, invite, edit, visit, ghosts>>

\* update_member_role or remove_member up to the first SELECT of
\* _ensure_not_last_owner, which PATCH to owner skips.
StartEdit(e, p, to) ==
    /\ edit[e] = NoEdit
    /\ AdminIsIn
    /\ edit' = [edit EXCEPT ![e] =
                  [phase  |-> IF to # "owner" /\ role[p] = "owner" THEN "count" ELSE "write",
                   target |-> p, to |-> to, seen |-> Owners]]
    /\ UNCHANGED <<tables, visit, ghosts>>

\* Fault: the last owner may go as well.
CountOwnersOffByOne(e) ==
    /\ edit[e].phase = "count"
    /\ edit' = [edit EXCEPT ![e] = IF Cardinality(Owners) < 1 THEN NoEdit
                                   ELSE [@ EXCEPT !.phase = "write", !.seen = Owners]]
    /\ UNCHANGED <<tables, visit, ghosts>>

\* Its second SELECT: no other owner is a 409.
CountOwners(e) ==
    /\ edit[e].phase = "count"
    /\ edit' = [edit EXCEPT ![e] = IF Cardinality(Owners) <= 1 THEN NoEdit
                                   ELSE [@ EXCEPT !.phase = "write", !.seen = Owners]]
    /\ UNCHANGED <<tables, visit, ghosts>>

\* The UPDATE or DELETE and its commit; no row of that person, no change.
WriteEdit(e) ==
    LET p == edit[e].target IN
    /\ edit[e].phase = "write"
    /\ role' = [role EXCEPT ![p] = IF @ = "none" THEN @ ELSE edit[e].to]
    /\ raced' = (raced \/ (role[p] = "owner" /\ edit[e].to # "owner" /\ edit[e].seen # Owners))
    /\ edit' = [edit EXCEPT ![e] = NoEdit]
    /\ UNCHANGED <<account, user, invite, visit, founded, uses, shut_out>>

-----------------------------------------------------------------------------
(* Invitations.                                                            *)

\* create_invitation up to its SELECT: no pending row of that e-mail.
CheckInvitation(i, p, r) ==
    /\ invite[i].stage = "absent"
    /\ AdminIsIn
    /\ \A j \in Invites : ~(invite[j].stage = "pending" /\ invite[j].email = p)
    /\ invite' = [invite EXCEPT ![i] = [stage |-> "checked", email |-> p, role |-> r]]
    /\ UNCHANGED <<account, user, role, edit, visit, ghosts>>

\* Its INSERT and commit.
InsertInvitation(i) ==
    /\ invite[i].stage = "checked"
    /\ invite' = [invite EXCEPT ![i].stage = "pending"]
    /\ UNCHANGED <<account, user, role, edit, visit, ghosts>>

ExpireInvitation(i) ==
    /\ invite[i].stage = "pending"
    /\ invite' = [invite EXCEPT ![i].stage = "expired"]
    /\ UNCHANGED <<account, user, role, edit, visit, ghosts>>

\* Fault: the accept endpoint selects the row without FOR UPDATE.
Unguarded(i) == TRUE

\* No accept request holds the row lock of SELECT ... FOR UPDATE.
Unlocked(i) == \A v \in Visitors : visit[v] # NoVisit => visit[v].token # i

\* revoke_invitation: DELETE ... accepted_at IS NULL, once the row is free.
RevokeInvitation(i) ==
    /\ AdminIsIn
    /\ invite[i].stage \in {"pending", "expired"}
    /\ Unlocked(i)
    /\ invite' = [invite EXCEPT ![i].stage = "revoked"]
    /\ UNCHANGED <<account, user, role, edit, visit, ghosts>>

\* accept_invitation: the locked row is neither accepted nor expired.
LockInvitation(v, i) ==
    /\ visit[v] = NoVisit
    /\ Unlocked(i)
    /\ invite[i].stage = "pending"
    /\ visit' = [visit EXCEPT ![v] = [phase |-> "locked", token |-> i]]
    /\ UNCHANGED <<tables, edit, ghosts>>

\* _provision_supabase_user: the account is created, or was there.  Supabase
\* is not part of the transaction.
ProvisionUser(v) ==
    /\ visit[v].phase = "locked"
    /\ account' = account \cup {invite[visit[v].token].email}
    /\ visit' = [visit EXCEPT ![v].phase = "provisioned"]
    /\ UNCHANGED <<user, role, invite, edit, ghosts>>

\* Fault: the users row is found by its e-mail, whatever its id.
GrantMembershipByEmail(v) ==
    LET i == visit[v].token
        p == invite[i].email
    IN
    /\ visit[v].phase = "provisioned"
    /\ user' = [user EXCEPT ![p] = IF @ = "none" THEN "account" ELSE @]
    /\ role' = [role EXCEPT ![p] = IF @ = "none" THEN invite[i].role ELSE @]
    /\ invite' = [invite EXCEPT ![i].stage = "accepted"]
    /\ uses' = [uses EXCEPT ![i] = IF @ < 2 THEN @ + 1 ELSE @]
    /\ visit' = [visit EXCEPT ![v] = NoVisit]
    /\ UNCHANGED <<account, edit, founded, raced, shut_out>>

\* The users row, the membership unless there is one, accepted_at, commit.
GrantMembership(v) ==
    LET i == visit[v].token
        p == invite[i].email
    IN
    /\ visit[v].phase = "provisioned"
    /\ ~EmailTaken(p)
    /\ user' = [user EXCEPT ![p] = "account"]
    /\ role' = [role EXCEPT ![p] = IF @ = "none" THEN invite[i].role ELSE @]
    /\ invite' = [invite EXCEPT ![i].stage = "accepted"]
    /\ uses' = [uses EXCEPT ![i] = IF @ < 2 THEN @ + 1 ELSE @]
    /\ visit' = [visit EXCEPT ![v] = NoVisit]
    /\ UNCHANGED <<account, edit, founded, raced, shut_out>>

-----------------------------------------------------------------------------
\* A request fails between two of its statements: an exception (Supabase
\* refuses, a unique violation), a lost connection, a restart.
DropRequest ==
    \/ /\ \E e \in Editors : edit[e] # NoEdit /\ edit' = [edit EXCEPT ![e] = NoEdit]
       /\ UNCHANGED <<tables, visit, ghosts>>
    \/ /\ \E v \in Visitors : visit[v] # NoVisit /\ visit' = [visit EXCEPT ![v] = NoVisit]
       /\ UNCHANGED <<tables, edit, ghosts>>
    \/ /\ \E i \in Invites : /\ invite[i].stage = "checked"
                             /\ invite' = [invite EXCEPT ![i] = NoInvite]
       /\ UNCHANGED <<account, user, role, edit, visit, ghosts>>

Members ==
    \/ \E p \in People, r \in Roles : InviteMember(p, r)
    \/ \E e \in Editors, p \in People, to \in Roles \cup {"none"} : StartEdit(e, p, to)
    \/ \E e \in Editors : CountOwners(e) \/ WriteEdit(e)

Invitations ==
    \/ \E i \in Invites, p \in People, r \in Invitable : CheckInvitation(i, p, r)
    \/ \E i \in Invites : InsertInvitation(i) \/ ExpireInvitation(i) \/ RevokeInvitation(i)
    \/ \E v \in Visitors, i \in Invites : LockInvitation(v, i)
    \/ \E v \in Visitors : ProvisionUser(v) \/ GrantMembership(v)

Next ==
    \/ \E p \in People : SignUp(p) \/ ListMyOrgs(p) \/ CreateOrg(p)
    \/ Members
    \/ Invitations
    \/ DropRequest

Spec == Init /\ [][Next]_vars

-----------------------------------------------------------------------------
(* Properties.                                                             *)

\* An organisation loses its last owner only if an owner was demoted or
\* removed on a count that had become false in the meantime: the check of
\* _ensure_not_last_owner is right when it is fresh, on every path that
\* skips one of its SELECTs.
OwnerlessOnlyByRace == founded /\ Owners = {} => raced

\* "Tokens are single-use": however accept requests of one link overlap, with
\* each other and with failures, one of them commits, and never for an
\* invitation whose revocation was confirmed.
TokenIsSingleUse ==
    \A i \in Invites : uses[i] <= (IF invite[i].stage = "accepted" THEN 1 ELSE 0)

\* Whoever accepted an invitation can sign in: there is an account, and the
\* users row the membership hangs on has its id.
AcceptedCanSignIn ==
    \A i \in Invites : invite[i].stage = "accepted" =>
        invite[i].email \in account /\ user[invite[i].email] = "account"

(* What a comment of the code says and the code does not keep.             *)

\* "the next time that user logs in, /api/v1/me/orgs shows the new
\* membership": no member's sign-in ends in an error.
MembersAreNotShutOut == \A p \in shut_out : role[p] = "none"
=============================================================================
