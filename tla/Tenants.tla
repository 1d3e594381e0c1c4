------------------------------- MODULE Tenants -------------------------------
(***************************************************************************)
(* Who belongs to which organization: signup, users created by an          *)
(* administrator, first logins with Google, GitHub and Facebook, members   *)
(* and invitations (httpapi/handlers.go, admin_users.go, advanced.go,      *)
(* auth.go and the link functions of the OAuth files).                     *)
(*                                                                         *)
(* A slot is a goroutine that serves one request after another.  In a      *)
(* transaction each statement that may wait for a row or for a unique key  *)
(* is a step, and what it wrote is seen from its commit on; outside of one *)
(* every statement is a step.                                              *)
(*                                                                         *)
(* An email is a spelling of an address: signup, administrators and        *)
(* invitations store it in lower case, a provider's is stored as it came,  *)
(* lookups ignore the case and the unique key does not.  The workspace a   *)
(* first login founds has the number of its user and stands for its        *)
(* project and wallet, which come with the same commit.                    *)
(***************************************************************************)
EXTENDS Integers

CONSTANTS
    Slots,       \* as many requests as run at the same time
    Emails,      \* spellings of email addresses
    Lower,       \* [Emails -> Emails]: the same in lower case
    Identities,  \* accounts at the providers
    Claims,      \* which identity comes with which email
    Seeded,      \* organizations of the seed data
    Demo,        \* the oldest of them
    MaxUsers,    \* bound that unique emails keep from being reached
    MaxInvites,  \* bound: invitations ever made
    None

ASSUME TenantsAssumption ==
    /\ Lower \in [Emails -> Emails]
    /\ \A e \in Emails : Lower[Lower[e]] = Lower[e]
    /\ Claims \subseteq Identities \X Emails
    /\ Demo \in Seeded
    /\ MaxUsers \in Nat /\ MaxInvites \in Nat
    /\ Seeded \cap Nat = {}
    /\ None \notin Seeded \cup Emails \cup Identities

UserIds == 1..MaxUsers
Orgs == Seeded \cup UserIds
InviteIds == 1..MaxInvites

\* "member" stands for the five roles that may not manage.
Roles == {"owner", "admin", "member"}

VARIABLES
    users,       \* sys_users
    linked,      \* sys_oauth_accounts: the user of each identity, or 0
    role,        \* sys_memberships: role[u][o], or "none"
    workspaces,  \* sys_organizations other than the seeded ones
    invitations, \* user_organization_invitations
    expired,     \* the invitations whose time is over
    uses,        \* how often each invitation was accepted, and by whom
    outcasts,    \* users whose signup failed half way or who were removed somewhere
    slot

accounts == <<users, linked, workspaces>>
offers == <<invitations, expired, uses>>
vars == <<accounts, role, offers, outcasts, slot>>

UserRows == [id : UserIds, email : Emails]
Invitations == [id : InviteIds, org : Orgs, email : Emails, role : Roles, accepted : BOOLEAN]
Stages == {"idle", "seeking", "locking", "founding", "founded", "linking", "committing", "joining",
           "appointing", "accepting", "managing"}
Idle == [at |-> "idle", who |-> None, email |-> None, user |-> 0, org |-> None,
         role |-> "none", invite |-> 0, held |-> {}, left |-> {}]
SlotStates == [at : Stages, who : Identities \cup {None}, email : Emails \cup {None},
               user : 0..MaxUsers, org : Orgs \cup {None}, role : Roles \cup {"none"},
               invite : 0..MaxInvites, held : SUBSET UserIds, left : SUBSET UserIds]

TypeOK ==
    /\ users \subseteq UserRows
    /\ linked \in [Identities -> 0..MaxUsers]
    /\ role \in [UserIds -> [Orgs -> Roles \cup {"none"}]]
    /\ workspaces \subseteq UserIds
    /\ invitations \subseteq Invitations
    /\ expired \subseteq InviteIds
    /\ uses \in [InviteIds -> [times : Nat, by : SUBSET UserIds]]
    /\ outcasts \subseteq UserIds
    /\ slot \in [Slots -> SlotStates]

Init ==
    /\ users = {} /\ workspaces = {}
    /\ linked = [i \in Identities |-> 0]
    /\ role = [u \in UserIds |-> [o \in Orgs |-> "none"]]
    /\ invitations = {} /\ expired = {}
    /\ uses = [i \in InviteIds |-> [times |-> 0, by |-> {}]]
    /\ outcasts = {}
    /\ slot = [s \in Slots |-> Idle]

Become(s, state) == slot' = [slot EXCEPT ![s] = state]
-----------------------------------------------------------------------------
(* Rows, and what a transaction under way holds *)

Ids == {row.id : row \in users}
Taken(e) == \E row \in users : row.email = e
AreSame(e, f) == Lower[e] = Lower[f]

\* A random id, which is new.
IsNext(u) == u \notin Ids /\ \A v \in UserIds \ Ids : u <= v

\* Its user row is inserted and not yet committed: another insert waits.
HoldsEmail(s, e) ==
    /\ slot[s].email = e
    /\ slot[s].at \in {"founded", "appointing"} \/ (slot[s].at = "committing" /\ slot[s].user = 0)

\* The rows that the lookup of a link function has locked, up to the end of its transaction.
HoldsUser(s, u) == u \in slot[s].held

\* Mutant: the row of an identity is held from when it is looked for.
HoldsFromTheLookup(s, i) ==
    /\ slot[s].who = i
    /\ slot[s].at \in {"seeking", "locking", "founding", "founded", "linking", "committing"}

HoldsIdentity(s, i) == slot[s].who = i /\ slot[s].at = "committing"
HoldsInvite(s, i) == slot[s].invite = i /\ slot[s].at = "accepting"

EmailFree(e) == \A t \in Slots : ~HoldsEmail(t, e)
UserFree(u) == \A t \in Slots : ~HoldsUser(t, u)

OrgOf(i) == (CHOOSE invite \in invitations : invite.id = i).org

\* The foreign key of a new membership wants the user's row.
Enters(s) ==
    \/ slot[s].at = "joining" /\ role[slot[s].user][slot[s].org] = "none"
    \/ slot[s].at = "accepting" /\ role[slot[s].user][OrgOf(slot[s].invite)] = "none"

\* The users of the address, in every spelling.
SameUsers(e) == {row.id : row \in {x \in users : AreSame(x.email, e)}}

\* What the next statement of s waits for is held by t.
Blocks(t, s) ==
    \/ slot[s].at = "locking" /\ \E u \in slot[s].left : HoldsUser(t, u)
    \/ slot[s].at = "founding" /\ HoldsEmail(t, slot[s].email)
    \/ slot[s].at \in {"linking", "founded"} /\ HoldsIdentity(t, slot[s].who)
    \/ Enters(s) /\ HoldsUser(t, slot[s].user)
-----------------------------------------------------------------------------
(* linkGoogleIdentity, linkGithubIdentity and linkFacebookIdentity: one transaction *)

\* An identity that is linked changes nothing here.
FindIdentity(s) ==
    /\ slot[s].at = "idle"
    /\ \E claim \in Claims :
          /\ linked[claim[1]] = 0
          /\ Become(s, [Idle EXCEPT !.at = "seeking", !.who = claim[1], !.email = claim[2]])
    /\ UNCHANGED <<accounts, role, offers, outcasts>>

\* select ... for update without a limit: what the statement sees as it begins, it locks.
SeekUser(s) ==
    LET same == SameUsers(slot[s].email) IN
    /\ slot[s].at = "seeking"
    /\ Become(s, IF same = {} THEN [slot[s] EXCEPT !.at = "founding"]
                 ELSE [slot[s] EXCEPT !.at = "locking", !.left = same])
    /\ UNCHANGED <<accounts, role, offers, outcasts>>

\* One row after the other, in any order; the first is the user that is linked.
LockUser(s) ==
    /\ slot[s].at = "locking"
    /\ \E u \in slot[s].left :
          /\ UserFree(u)
          /\ Become(s, [slot[s] EXCEPT !.at = IF slot[s].left = {u} THEN "linking" ELSE "locking",
                                       !.user = IF slot[s].held = {} THEN u ELSE @,
                                       !.held = @ \cup {u}, !.left = @ \ {u}])
    /\ UNCHANGED <<accounts, role, offers, outcasts>>

\* If the email is taken by now the transaction fails.
InsertUser(s) ==
    /\ slot[s].at = "founding"
    /\ EmailFree(slot[s].email)
    /\ Become(s, IF Taken(slot[s].email) THEN Idle ELSE [slot[s] EXCEPT !.at = "founded"])
    /\ UNCHANGED <<accounts, role, offers, outcasts>>

\* Mutant: on conflict do nothing.
InsertIdentityIfNew(s) ==
    /\ slot[s].at \in {"linking", "founded"}
    /\ \A t \in Slots : ~HoldsIdentity(t, slot[s].who)
    /\ Become(s, [slot[s] EXCEPT !.at = "committing"])
    /\ UNCHANGED <<accounts, role, offers, outcasts>>

InsertIdentity(s) ==
    /\ slot[s].at \in {"linking", "founded"}
    /\ \A t \in Slots : ~HoldsIdentity(t, slot[s].who)
    /\ Become(s, IF linked[slot[s].who] # 0 THEN Idle ELSE [slot[s] EXCEPT !.at = "committing"])
    /\ UNCHANGED <<accounts, role, offers, outcasts>>

CommitLink(s) ==
    /\ slot[s].at = "committing"
    /\ slot[s].user # 0
    /\ linked' = [linked EXCEPT ![slot[s].who] = slot[s].user]
    /\ Become(s, Idle)
    /\ UNCHANGED <<users, workspaces, role, offers, outcasts>>

\* The user, its organization, membership, project and wallet.
CommitFounding(s) ==
    /\ slot[s].at = "committing"
    /\ slot[s].user = 0
    /\ \E u \in UserIds :
          /\ IsNext(u)
          /\ users' = users \cup {[id |-> u, email |-> slot[s].email]}
          /\ workspaces' = workspaces \cup {u}
          /\ role' = [role EXCEPT ![u][u] = "owner"]
          /\ linked' = [linked EXCEPT ![slot[s].who] = u]
    /\ Become(s, Idle)
    /\ UNCHANGED <<offers, outcasts>>
-----------------------------------------------------------------------------
(* signup: two statements.  createAdminUser: one transaction *)

\* Into the demo organization, or that of the company named, which is seeded too.
Signup(s) ==
    /\ slot[s].at = "idle"
    /\ \E e \in Emails, o \in Seeded, u \in UserIds :
          /\ e = Lower[e]
          /\ EmailFree(e) /\ ~Taken(e)
          /\ IsNext(u)
          /\ users' = users \cup {[id |-> u, email |-> e]}
          /\ Become(s, [Idle EXCEPT !.at = "joining", !.user = u, !.org = o])
    /\ UNCHANGED <<linked, workspaces, role, offers, outcasts>>

\* Fails if the user is a member already.
Join(s) ==
    LET u == slot[s].user
        o == slot[s].org
    IN  /\ slot[s].at = "joining"
        /\ Enters(s) => UserFree(u)
        /\ role' = IF role[u][o] = "none" THEN [role EXCEPT ![u][o] = "member"] ELSE role
        /\ Become(s, Idle)
        /\ UNCHANGED <<accounts, offers, outcasts>>

Appoint(s) ==
    /\ slot[s].at = "idle"
    /\ \E e \in Emails, r \in {"owner", "member"} :
          /\ e = Lower[e]
          /\ EmailFree(e) /\ ~Taken(e)
          /\ Become(s, [Idle EXCEPT !.at = "appointing", !.email = e, !.role = r])
    /\ UNCHANGED <<accounts, role, offers, outcasts>>

CommitAppointment(s) ==
    /\ slot[s].at = "appointing"
    /\ \E u \in UserIds :
          /\ IsNext(u)
          /\ users' = users \cup {[id |-> u, email |-> slot[s].email]}
          /\ role' = [role EXCEPT ![u][Demo] = slot[s].role]
    /\ Become(s, Idle)
    /\ UNCHANGED <<linked, workspaces, offers, outcasts>>
-----------------------------------------------------------------------------
(* updateOrganizationMember and createOrganizationInvitation *)

\* authorizeTenantRequest, before the handler runs: the caller manages the organization that
\* the request names.  Names in the query come before those in the body, and the handler acts
\* on the organization in the body.  A request that names a project is refused: its query asks
\* for a column the table does not have.
Authorise(s) ==
    /\ slot[s].at = "idle"
    /\ \E u \in Ids, named \in Orgs : role[u][named] \in {"owner", "admin"}
    /\ \E o \in Seeded \cup workspaces : Become(s, [Idle EXCEPT !.at = "managing", !.org = o])
    /\ UNCHANGED <<accounts, role, offers, outcasts>>

\* Mutant: whatever the request says.
AnyRole == Roles \cup {"guest"}

GivenRoles == Roles

\* Of any member, owners and the caller included.
ChangeRole(s) ==
    LET o == slot[s].org IN
    /\ slot[s].at = "managing"
    /\ \E u \in Ids, r \in GivenRoles :
          /\ role[u][o] # "none"
          /\ role' = [role EXCEPT ![u][o] = r]
    /\ Become(s, Idle)
    /\ UNCHANGED <<accounts, offers, outcasts>>

RemoveMember(s) ==
    LET o == slot[s].org IN
    /\ slot[s].at = "managing"
    /\ \E u \in Ids :
          /\ role[u][o] \notin {"none", "owner"}
          /\ role' = [role EXCEPT ![u][o] = "none"]
          /\ outcasts' = outcasts \cup {u}
    /\ Become(s, Idle)
    /\ UNCHANGED <<accounts, offers>>

Invite(s) ==
    /\ slot[s].at = "managing"
    /\ \E i \in InviteIds, e \in Emails, r \in GivenRoles :
          /\ \A invite \in invitations : invite.id < i
          /\ e = Lower[e]
          /\ invitations' = invitations \cup
                {[id |-> i, org |-> slot[s].org, email |-> e, role |-> r, accepted |-> FALSE]}
    /\ Become(s, Idle)
    /\ UNCHANGED <<accounts, role, expired, uses, outcasts>>

Expire(i) ==
    /\ i \notin expired
    /\ \E invite \in invitations : invite.id = i
    /\ expired' = expired \cup {i}
    /\ UNCHANGED <<accounts, role, invitations, uses, outcasts, slot>>
-----------------------------------------------------------------------------
(* acceptOrganizationInvitation: one transaction *)

IsOpen(invite) == ~invite.accepted /\ invite.id \notin expired

\* Mutant: read without for update.
AcceptUnlocked(s) ==
    /\ slot[s].at = "idle"
    /\ \E invite \in invitations, row \in users :
          /\ IsOpen(invite)
          /\ AreSame(row.email, invite.email)
          /\ Become(s, [Idle EXCEPT !.at = "accepting", !.invite = invite.id, !.user = row.id])
    /\ UNCHANGED <<accounts, role, offers, outcasts>>

AcceptLock(s) ==
    /\ slot[s].at = "idle"
    /\ \E invite \in invitations, row \in users :
          /\ \A t \in Slots : ~HoldsInvite(t, invite.id)
          /\ IsOpen(invite)
          /\ AreSame(row.email, invite.email)
          /\ Become(s, [Idle EXCEPT !.at = "accepting", !.invite = invite.id, !.user = row.id])
    /\ UNCHANGED <<accounts, role, offers, outcasts>>

\* A member's role is overwritten, an owner's too.
AcceptCommit(s) ==
    LET i == slot[s].invite
        u == slot[s].user
    IN  /\ slot[s].at = "accepting"
        /\ Enters(s) => UserFree(u)
        /\ \E invite \in invitations :
              /\ invite.id = i
              /\ role' = [role EXCEPT ![u][invite.org] = invite.role]
              /\ invitations' = (invitations \ {invite}) \cup {[invite EXCEPT !.accepted = TRUE]}
        /\ uses' = [uses EXCEPT ![i].times = @ + 1, ![i].by = @ \cup {u}]
        /\ Become(s, Idle)
        /\ UNCHANGED <<accounts, expired, outcasts>>
-----------------------------------------------------------------------------
\* A statement fails, a transaction is rolled back, or the process stops.
Fails(s) ==
    /\ slot[s].at # "idle"
    /\ outcasts' = IF slot[s].at = "joining" THEN outcasts \cup {slot[s].user} ELSE outcasts
    /\ Become(s, Idle)
    /\ UNCHANGED <<accounts, role, offers>>

Link(s) ==
    \/ FindIdentity(s) \/ SeekUser(s) \/ LockUser(s) \/ InsertUser(s) \/ InsertIdentity(s)
    \/ CommitLink(s) \/ CommitFounding(s)

Register(s) == Signup(s) \/ Join(s) \/ Appoint(s) \/ CommitAppointment(s)

Manage(s) == Authorise(s) \/ ChangeRole(s) \/ RemoveMember(s) \/ Invite(s)

Accept(s) == AcceptLock(s) \/ AcceptCommit(s)

Next ==
    \/ \E s \in Slots :
          Link(s) \/ Register(s) \/ Manage(s) \/ Accept(s) \/ Fails(s)
    \/ \E i \in InviteIds : Expire(i)

Spec == Init /\ [][Next]_vars
-----------------------------------------------------------------------------
(* Properties *)

\* However first logins with one identity or one email, signups and appointments race and
\* fail, every user, identity and workspace is whole: no two users have one email, an
\* identity leads to a user that exists, a workspace was founded by a user some identity
\* leads to (linkGoogleIdentity and its like), and a user without any organization is one
\* whose signup failed half way or who was removed.
RegistrationIsWhole ==
    /\ \A v, w \in users : v.email = w.email \/ v.id = w.id => v = w
    /\ \A i \in Identities : linked[i] # 0 => linked[i] \in Ids
    /\ \A u \in workspaces : \E i \in Identities : linked[i] = u
    /\ \A u \in Ids \ outcasts :
          \/ \E o \in Orgs : role[u][o] # "none"
          \/ \E s \in Slots : slot[s].at = "joining" /\ slot[s].user = u

\* An invitation lets one user in, once, whose email it was sent to: accepted twice at the
\* same time, or again after the member was removed, it does not work again
\* (acceptOrganizationInvitation).  Nobody but its founder is in a workspace without one.
InvitationsAdmitOnce ==
    /\ \A invite \in invitations :
          LET use == uses[invite.id] IN
          /\ use.times = IF invite.accepted THEN 1 ELSE 0
          /\ \A u \in use.by : \E row \in users : row.id = u /\ AreSame(row.email, invite.email)
    /\ \A w \in UserIds : \A u \in UserIds \ {w} :
          role[u][w] # "none" =>
             \E invite \in invitations : invite.org = w /\ u \in uses[invite.id].by

\* It holds a row of its address and waits for another.
HalfWay(s) == slot[s].at = "locking" /\ slot[s].held # {}

\* Requests that wait for each other's user rows, emails and identities in a circle, which
\* the database breaks by failing one, have two first logins among them that are half way
\* through the rows of one address in two spellings.  Nothing else can be in the way: the
\* link functions (linkGoogleIdentity and its like) take row, email and identity in one
\* order, and acceptances and signups hold nothing that they want.
NoCircleOfWaits ==
    \A S \in (SUBSET Slots) \ {{}} :
        (\A s \in S : \E t \in S : Blocks(t, s)) =>
            \E s, t \in S :
                s # t /\ HalfWay(s) /\ HalfWay(t) /\ AreSame(slot[s].email, slot[t].email)
=============================================================================
