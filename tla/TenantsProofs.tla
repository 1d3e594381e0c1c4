---------------------------- MODULE TenantsProofs ----------------------------
(***************************************************************************)
(* What registrations and invitations promise, for any number of requests, *)
(* emails, identities and organizations.                                   *)
(***************************************************************************)
EXTENDS Tenants, TLAPS

-----------------------------------------------------------------------------
(* Types *)

\* What a request under way carries.
Carries(s) ==
    LET me == slot[s] IN
    /\ me.at \in {"seeking", "locking", "founding", "founded", "linking", "committing"} =>
          me.who \in Identities /\ me.email \in Emails
    /\ me.at \notin {"locking", "linking", "committing"} => me.held = {}
    /\ me.at = "locking" =>
          me.left \subseteq Ids /\ me.user \in Ids \cup {0} /\ (me.held # {} => me.user \in Ids)
    /\ me.at \in {"linking", "joining", "accepting"} => me.user \in Ids
    /\ me.at \in {"seeking", "founding", "founded"} => me.user = 0
    /\ me.at = "committing" => me.user \in Ids \cup {0}
    /\ me.at = "appointing" => me.email \in Emails /\ me.role \in Roles
    /\ me.at = "joining" => me.org \in Seeded
    /\ me.at = "managing" => me.org \in Orgs
    /\ me.at = "accepting" => me.invite \in InviteIds

Typed == TypeOK /\ \A s \in Slots : Carries(s)

\* Lower case, and the bounds of ids.
LEMMA Constants ==
    /\ \A e \in Emails : Lower[e] \in Emails
    /\ 0 \notin UserIds /\ UserIds \subseteq Orgs /\ Seeded \subseteq Orgs /\ Demo \in Orgs
    /\ Seeded \cap UserIds = {}
    /\ UserIds \subseteq 0..MaxUsers /\ InviteIds \subseteq 0..MaxInvites
    /\ 0 \in 0..MaxUsers /\ 0 \in 0..MaxInvites
  BY TenantsAssumption DEF UserIds, Orgs, InviteIds

LEMMA TypedInit == Init => Typed
  BY Constants DEF Init, Typed, TypeOK, Carries, Idle, SlotStates, Stages, Roles

\* A step of one request: it is typed, and the others carry what they did, as long as
\* users only come.
LEMMA StepOfOne ==
    ASSUME Typed, NEW s \in Slots, NEW state \in SlotStates, Become(s, state),
           users \subseteq users'
    PROVE  /\ slot' \in [Slots -> SlotStates]
           /\ slot'[s] = state
           /\ \A t \in Slots \ {s} : Carries(t)'
  <1>1. Ids \subseteq Ids' BY DEF Ids
  <1>2. slot' \in [Slots -> SlotStates] /\ slot'[s] = state
    BY DEF Become, Typed, TypeOK
  <1>3. \A t \in Slots \ {s} : slot'[t] = slot[t] BY DEF Become, Typed, TypeOK
  <1>4. QED BY <1>1, <1>2, <1>3 DEF Carries, Typed

\* Whoever begins is new to its request.
LEMMA IdleTyped == Idle \in SlotStates
  BY Constants DEF Idle, SlotStates, Stages

LEMMA BeginTyped ==
    ASSUME NEW at \in Stages, NEW who \in Identities \cup {None}, NEW email \in Emails \cup {None},
           NEW user \in UserIds \cup {0}, NEW org \in Orgs \cup {None},
           NEW r \in Roles \cup {"none"}, NEW invite \in InviteIds \cup {0}
    PROVE  /\ [Idle EXCEPT !.at = at, !.who = who, !.email = email] \in SlotStates
           /\ [Idle EXCEPT !.at = at, !.user = user, !.org = org] \in SlotStates
           /\ [Idle EXCEPT !.at = at, !.email = email, !.role = r] \in SlotStates
           /\ [Idle EXCEPT !.at = at, !.org = org] \in SlotStates
           /\ [Idle EXCEPT !.at = at, !.invite = invite, !.user = user] \in SlotStates
  BY Constants DEF Idle, SlotStates

LEMMA GoOnTyped ==
    ASSUME NEW state \in SlotStates, NEW at \in Stages
    PROVE  /\ [state EXCEPT !.at = at] \in SlotStates
           /\ \A left \in SUBSET UserIds : [state EXCEPT !.at = at, !.left = left] \in SlotStates
  BY Constants DEF SlotStates

LEMMA IdsTyped ==
    ASSUME Typed
    PROVE  /\ Ids \subseteq UserIds
           /\ \A s \in Slots : slot[s] \in SlotStates /\ Carries(s)
           /\ \A e : SameUsers(e) \subseteq Ids
           /\ \A invite \in invitations : invite \in Invitations /\ invite.id \in InviteIds
  <1>1. \A row \in users : row.id \in UserIds BY DEF Typed, TypeOK, UserRows
  <1>2. \A e : SameUsers(e) \subseteq Ids BY DEF SameUsers, Ids
  <1>3. \A s \in Slots : slot[s] \in SlotStates /\ Carries(s) BY DEF Typed, TypeOK
  <1>4. \A invite \in invitations : invite \in Invitations /\ invite.id \in InviteIds
    BY DEF Typed, TypeOK, Invitations
  <1>5. QED BY <1>1, <1>2, <1>3, <1>4 DEF Ids

\* A row more.
LEMMA OneRow ==
    ASSUME NEW u, NEW e, users' = users \cup {[id |-> u, email |-> e]}
    PROVE  /\ Ids' = Ids \cup {u}
           /\ \A f : Taken(f)' <=> Taken(f) \/ f = e
  <1> DEFINE new == [id |-> u, email |-> e]
  <1>1. new.id = u /\ new.email = e OBVIOUS
  <1>2. \A row : row \in users' <=> row \in users \/ row = new OBVIOUS
  <1> HIDE DEF new
  <1>3. ASSUME NEW v PROVE v \in Ids' <=> v \in Ids \/ v = u
    <2>1. v \in Ids' <=> \E row \in users' : v = row.id BY DEF Ids
    <2>2. v \in Ids <=> \E row \in users : v = row.id BY DEF Ids
    <2>3. QED BY <1>1, <1>2, <2>1, <2>2
  <1>4. ASSUME NEW f PROVE Taken(f)' <=> Taken(f) \/ f = e
    <2>1. Taken(f)' <=> \E row \in users' : row.email = f BY DEF Taken
    <2>2. QED BY <1>1, <1>2, <2>1 DEF Taken
  <1>5. QED BY <1>3, <1>4

\* A new user's row.
LEMMA NewUser ==
    ASSUME Typed, NEW u \in UserIds, NEW e \in Emails,
           users' = users \cup {[id |-> u, email |-> e]}
    PROVE  /\ users' \subseteq UserRows
           /\ Ids' = Ids \cup {u}
  <1>1. [id |-> u, email |-> e] \in UserRows BY DEF UserRows
  <1>2. users \subseteq UserRows BY DEF Typed, TypeOK
  <1>3. QED BY <1>1, <1>2, OneRow

LEMMA TypedLink ==
    ASSUME Typed, NEW s \in Slots, Link(s)
    PROVE  Typed'
  <1> USE IdsTyped DEF accounts, offers
  <1>1. CASE FindIdentity(s)
    <2>1. PICK claim \in Claims :
             Become(s, [Idle EXCEPT !.at = "seeking", !.who = claim[1], !.email = claim[2]])
      BY <1>1 DEF FindIdentity
    <2> DEFINE state == [Idle EXCEPT !.at = "seeking", !.who = claim[1], !.email = claim[2]]
    <2>2. claim[1] \in Identities /\ claim[2] \in Emails BY TenantsAssumption
    <2>3. state \in SlotStates BY <2>2, BeginTyped DEF Stages
    <2>4. /\ state.at = "seeking" /\ state.who \in Identities /\ state.email \in Emails
          /\ state.user = 0 /\ state.held = {}
      BY <2>2 DEF Idle
    <2> HIDE DEF state
    <2>5. Carries(s)' BY <1>1, <2>1, <2>3, <2>4, StepOfOne DEF FindIdentity, Carries, state
    <2>6. QED BY <1>1, <2>1, <2>3, <2>5, StepOfOne DEF FindIdentity, Typed, TypeOK, state
  <1>2. CASE SeekUser(s)
    <2> DEFINE same == SameUsers(slot[s].email)
    <2>0. same \subseteq Ids /\ same \in SUBSET UserIds OBVIOUS
    <2>1. PICK state \in SlotStates :
             /\ Become(s, state)
             /\ state.who = slot[s].who /\ state.email = slot[s].email
             /\ state.user = slot[s].user /\ state.held = slot[s].held
             /\ state.at = "founding" \/ (state.at = "locking" /\ state.left \subseteq Ids)
      <3> DEFINE found == [slot[s] EXCEPT !.at = "founding"]
                 lock == [slot[s] EXCEPT !.at = "locking", !.left = same]
      <3>1. found \in SlotStates /\ lock \in SlotStates BY <2>0, GoOnTyped DEF Stages
      <3>2. slot[s] \in SlotStates OBVIOUS
      <3> HIDE DEF same
      <3>3. /\ found.at = "founding" /\ found.who = slot[s].who /\ found.email = slot[s].email
            /\ found.user = slot[s].user /\ found.held = slot[s].held
        BY <3>2 DEF SlotStates
      <3>4. /\ lock.at = "locking" /\ lock.who = slot[s].who /\ lock.email = slot[s].email
            /\ lock.user = slot[s].user /\ lock.held = slot[s].held /\ lock.left = same
        BY <3>2 DEF SlotStates
      <3>5. Become(s, found) \/ Become(s, lock) BY <1>2 DEF SeekUser, same
      <3> HIDE DEF found, lock
      <3>6. QED BY <2>0, <3>1, <3>3, <3>4, <3>5
    <2>2. Carries(s)' BY <1>2, <2>1, StepOfOne DEF SeekUser, Carries, Ids
    <2>3. QED BY <1>2, <2>1, <2>2, StepOfOne DEF SeekUser, Typed, TypeOK
  <1>8. CASE LockUser(s)
    <2>1. PICK u \in slot[s].left :
             Become(s, [slot[s] EXCEPT !.at = IF slot[s].left = {u} THEN "linking" ELSE "locking",
                                       !.user = IF slot[s].held = {} THEN u ELSE @,
                                       !.held = @ \cup {u}, !.left = @ \ {u}])
      BY <1>8 DEF LockUser
    <2> DEFINE state == [slot[s] EXCEPT !.at = IF slot[s].left = {u} THEN "linking" ELSE "locking",
                                       !.user = IF slot[s].held = {} THEN u ELSE @,
                                       !.held = @ \cup {u}, !.left = @ \ {u}]
    <2>2. /\ u \in Ids /\ u \in UserIds /\ slot[s].left \subseteq Ids
          /\ slot[s] \in SlotStates /\ (slot[s].held # {} => slot[s].user \in Ids)
          /\ slot[s].who \in Identities /\ slot[s].email \in Emails
      BY <1>8 DEF LockUser, Carries
    <2>3. state \in SlotStates
      <3>1. slot[s].held \cup {u} \in SUBSET UserIds /\ slot[s].left \ {u} \in SUBSET UserIds
        BY <2>2 DEF SlotStates
      <3>2. (IF slot[s].held = {} THEN u ELSE slot[s].user) \in 0..MaxUsers
        BY <2>2, Constants DEF SlotStates
      <3>3. (IF slot[s].left = {u} THEN "linking" ELSE "locking") \in Stages BY DEF Stages
      <3>4. QED BY <2>2, <3>1, <3>2, <3>3 DEF SlotStates
    <2>4. /\ state.at \in {"linking", "locking"}
          /\ state.who = slot[s].who /\ state.email = slot[s].email
          /\ state.user = IF slot[s].held = {} THEN u ELSE slot[s].user
          /\ state.left = slot[s].left \ {u}
      BY <2>2 DEF SlotStates
    <2> HIDE DEF state
    <2>5. Become(s, state) BY <2>1 DEF state
    <2>6. Carries(s)' BY <1>8, <2>2, <2>3, <2>4, <2>5, StepOfOne DEF LockUser, Carries, Ids
    <2>7. QED BY <1>8, <2>3, <2>5, <2>6, StepOfOne DEF LockUser, Typed, TypeOK
  <1>3. CASE InsertUser(s)
    <2>1. Idle \in SlotStates /\ [slot[s] EXCEPT !.at = "founded"] \in SlotStates BY IdleTyped, GoOnTyped DEF Stages
    <2>2. Carries(s)' BY <1>3, <2>1, StepOfOne DEF InsertUser, Carries, Idle, SlotStates, Ids
    <2>3. QED BY <1>3, <2>1, <2>2, StepOfOne DEF InsertUser, Typed, TypeOK
  <1>4. CASE InsertIdentity(s)
    <2>1. Idle \in SlotStates /\ [slot[s] EXCEPT !.at = "committing"] \in SlotStates BY IdleTyped, GoOnTyped DEF Stages
    <2>2. Carries(s)' BY <1>4, <2>1, StepOfOne DEF InsertIdentity, Carries, Idle, SlotStates, Ids
    <2>3. QED BY <1>4, <2>1, <2>2, StepOfOne DEF InsertIdentity, Typed, TypeOK
  <1>5. CASE CommitLink(s)
    <2>1. slot[s].user \in 0..MaxUsers BY <1>5 DEF SlotStates
    <2>2. Carries(s)' BY <1>5, IdleTyped, StepOfOne DEF CommitLink, Carries, Idle
    <2>3. QED BY <1>5, <2>1, <2>2, IdleTyped, StepOfOne DEF CommitLink, Typed, TypeOK
  <1>6. CASE CommitFounding(s)
    <2>1. PICK u \in UserIds :
             /\ users' = users \cup {[id |-> u, email |-> slot[s].email]}
             /\ workspaces' = workspaces \cup {u}
             /\ role' = [role EXCEPT ![u][u] = "owner"]
             /\ linked' = [linked EXCEPT ![slot[s].who] = u]
      BY <1>6 DEF CommitFounding
    <2>2. slot[s].email \in Emails BY <1>6 DEF CommitFounding, Carries
    <2>3. users' \subseteq UserRows BY <2>1, <2>2, NewUser
    <2>4. role' \in [UserIds -> [Orgs -> Roles \cup {"none"}]]
      BY <2>1, Constants DEF Typed, TypeOK, Roles
    <2>5. linked' \in [Identities -> 0..MaxUsers] BY <2>1, Constants DEF Typed, TypeOK
    <2>6. Carries(s)' /\ slot' \in [Slots -> SlotStates] /\ \A t \in Slots \ {s} : Carries(t)'
      BY <1>6, <2>1, IdleTyped, StepOfOne DEF CommitFounding, Carries, Idle
    <2>7. QED BY <1>6, <2>1, <2>3, <2>4, <2>5, <2>6 DEF CommitFounding, Typed, TypeOK
  <1>7. QED BY <1>1, <1>2, <1>3, <1>4, <1>5, <1>6, <1>8 DEF Link

LEMMA TypedRegister ==
    ASSUME Typed, NEW s \in Slots, Register(s)
    PROVE  Typed'
  <1> USE IdsTyped DEF accounts, offers
  <1>1. CASE Signup(s)
    <2>1. PICK e \in Emails, o \in Seeded, u \in UserIds :
             /\ users' = users \cup {[id |-> u, email |-> e]}
             /\ Become(s, [Idle EXCEPT !.at = "joining", !.user = u, !.org = o])
      BY <1>1 DEF Signup
    <2> DEFINE state == [Idle EXCEPT !.at = "joining", !.user = u, !.org = o]
    <2>2. state \in SlotStates BY BeginTyped, Constants DEF Stages
    <2>3. state.at = "joining" /\ state.user = u /\ state.org = o /\ state.held = {} BY DEF Idle
    <2> HIDE DEF state
    <2>4. users' \subseteq UserRows /\ u \in Ids' BY <2>1, NewUser
    <2>5. Carries(s)' BY <2>1, <2>2, <2>3, <2>4, StepOfOne DEF Carries, state
    <2>6. QED BY <1>1, <2>1, <2>2, <2>4, <2>5, StepOfOne DEF Signup, Typed, TypeOK, state
  <1>2. CASE Join(s)
    <2>1. Carries(s)' BY <1>2, IdleTyped, StepOfOne DEF Join, Carries, Idle
    <2>2. role' \in [UserIds -> [Orgs -> Roles \cup {"none"}]]
      BY <1>2 DEF Join, Typed, TypeOK, Roles
    <2>3. QED BY <1>2, <2>1, <2>2, IdleTyped, StepOfOne DEF Join, Typed, TypeOK
  <1>3. CASE Appoint(s)
    <2>1. PICK e \in Emails, r \in {"owner", "member"} :
             Become(s, [Idle EXCEPT !.at = "appointing", !.email = e, !.role = r])
      BY <1>3 DEF Appoint
    <2> DEFINE state == [Idle EXCEPT !.at = "appointing", !.email = e, !.role = r]
    <2>2. state \in SlotStates BY BeginTyped DEF Stages, Roles
    <2>3. state.at = "appointing" /\ state.email = e /\ state.role = r /\ state.held = {}
      BY DEF Idle
    <2> HIDE DEF state
    <2>4. Carries(s)' BY <1>3, <2>1, <2>2, <2>3, StepOfOne DEF Appoint, Carries, Roles, state
    <2>5. QED BY <1>3, <2>1, <2>2, <2>4, StepOfOne DEF Appoint, Typed, TypeOK, state
  <1>4. CASE CommitAppointment(s)
    <2>1. PICK u \in UserIds :
             /\ users' = users \cup {[id |-> u, email |-> slot[s].email]}
             /\ role' = [role EXCEPT ![u][Demo] = slot[s].role]
      BY <1>4 DEF CommitAppointment
    <2>2. slot[s].email \in Emails /\ slot[s].role \in Roles BY <1>4 DEF CommitAppointment, Carries
    <2>3. users' \subseteq UserRows BY <2>1, <2>2, NewUser
    <2>4. role' \in [UserIds -> [Orgs -> Roles \cup {"none"}]]
      BY <2>1, <2>2 DEF Typed, TypeOK
    <2>5. Carries(s)' BY <1>4, <2>1, IdleTyped, StepOfOne DEF CommitAppointment, Carries, Idle
    <2>6. QED
      BY <1>4, <2>1, <2>3, <2>4, <2>5, IdleTyped, StepOfOne DEF CommitAppointment, Typed, TypeOK
  <1>5. QED BY <1>1, <1>2, <1>3, <1>4 DEF Register

LEMMA TypedManage ==
    ASSUME Typed, NEW s \in Slots, Manage(s)
    PROVE  Typed'
  <1> USE IdsTyped DEF accounts, offers
  <1>1. CASE Authorise(s)
    <2>1. PICK o \in Orgs : Become(s, [Idle EXCEPT !.at = "managing", !.org = o])
      BY <1>1, Constants DEF Authorise, Typed, TypeOK
    <2> DEFINE state == [Idle EXCEPT !.at = "managing", !.org = o]
    <2>2. state \in SlotStates BY BeginTyped DEF Stages
    <2>3. state.at = "managing" /\ state.org = o /\ state.held = {} BY DEF Idle
    <2> HIDE DEF state
    <2>4. Carries(s)' BY <1>1, <2>1, <2>2, <2>3, StepOfOne DEF Authorise, Carries, state
    <2>5. QED BY <1>1, <2>1, <2>2, <2>4, StepOfOne DEF Authorise, Typed, TypeOK, state
  <1>2. CASE ChangeRole(s)
    <2> DEFINE o == slot[s].org
    <2>0. PICK u \in Ids, r \in Roles : role' = [role EXCEPT ![u][o] = r]
      BY <1>2 DEF ChangeRole, GivenRoles
    <2>1. role' \in [UserIds -> [Orgs -> Roles \cup {"none"}]]
      <3>1. role \in [UserIds -> [Orgs -> Roles \cup {"none"}]] BY DEF Typed, TypeOK
      <3> HIDE DEF o
      <3>2. QED BY <2>0, <3>1
    <2>2. Carries(s)' BY <1>2, IdleTyped, StepOfOne DEF ChangeRole, Carries, Idle
    <2>3. QED BY <1>2, <2>1, <2>2, IdleTyped, StepOfOne DEF ChangeRole, Typed, TypeOK
  <1>3. CASE RemoveMember(s)
    <2> DEFINE o == slot[s].org
    <2>0. PICK u \in Ids : /\ role' = [role EXCEPT ![u][o] = "none"]
                           /\ outcasts' = outcasts \cup {u}
      BY <1>3 DEF RemoveMember
    <2>1. /\ role' \in [UserIds -> [Orgs -> Roles \cup {"none"}]]
          /\ outcasts' \subseteq UserIds
      <3>1. role \in [UserIds -> [Orgs -> Roles \cup {"none"}]] /\ outcasts \subseteq UserIds
        BY DEF Typed, TypeOK
      <3> HIDE DEF o
      <3>2. QED BY <2>0, <3>1
    <2>2. Carries(s)' BY <1>3, IdleTyped, StepOfOne DEF RemoveMember, Carries, Idle
    <2>3. QED BY <1>3, <2>1, <2>2, IdleTyped, StepOfOne DEF RemoveMember, Typed, TypeOK
  <1>4. CASE Invite(s)
    <2>1. PICK i \in InviteIds, e \in Emails, r \in Roles :
             invitations' = invitations \cup
                {[id |-> i, org |-> slot[s].org, email |-> e, role |-> r, accepted |-> FALSE]}
      BY <1>4 DEF Invite, GivenRoles
    <2>2. slot[s].org \in Orgs BY <1>4 DEF Invite, Carries
    <2> DEFINE new == [id |-> i, org |-> slot[s].org, email |-> e, role |-> r, accepted |-> FALSE]
    <2>3. invitations' \subseteq Invitations
      <3>1. new \in Invitations BY <2>2 DEF Invitations
      <3>2. invitations \subseteq Invitations BY DEF Typed, TypeOK
      <3> HIDE DEF new
      <3>3. invitations' = invitations \cup {new} BY <2>1 DEF new
      <3>4. QED BY <3>1, <3>2, <3>3
    <2> HIDE DEF new
    <2>4. Carries(s)' BY <1>4, IdleTyped, StepOfOne DEF Invite, Carries, Idle
    <2>5. QED BY <1>4, <2>3, <2>4, IdleTyped, StepOfOne DEF Invite, Typed, TypeOK
  <1>5. QED BY <1>1, <1>2, <1>3, <1>4 DEF Manage

LEMMA TypedAccept ==
    ASSUME Typed, NEW s \in Slots, Accept(s)
    PROVE  Typed'
  <1> USE IdsTyped DEF accounts, offers
  <1>1. CASE AcceptLock(s)
    <2>1. PICK invite \in invitations, row \in users :
             Become(s, [Idle EXCEPT !.at = "accepting", !.invite = invite.id, !.user = row.id])
      BY <1>1 DEF AcceptLock
    <2> DEFINE state == [Idle EXCEPT !.at = "accepting", !.invite = invite.id, !.user = row.id]
    <2>2. invite.id \in InviteIds /\ row.id \in Ids /\ row.id \in UserIds
      BY DEF Typed, TypeOK, Invitations, Ids
    <2>3. state \in SlotStates BY <2>2, BeginTyped DEF Stages
    <2>4. /\ state.at = "accepting" /\ state.user \in Ids /\ state.invite \in InviteIds
          /\ state.held = {}
      BY <2>2 DEF Idle
    <2> HIDE DEF state
    <2>5. Carries(s)' BY <1>1, <2>1, <2>3, <2>4, StepOfOne DEF AcceptLock, Carries, Ids, state
    <2>6. QED BY <1>1, <2>1, <2>3, <2>5, StepOfOne DEF AcceptLock, Typed, TypeOK, state
  <1>2. CASE AcceptCommit(s)
    <2>1. PICK invite \in invitations :
             /\ role' = [role EXCEPT ![slot[s].user][invite.org] = invite.role]
             /\ invitations' = (invitations \ {invite}) \cup {[invite EXCEPT !.accepted = TRUE]}
      BY <1>2 DEF AcceptCommit
    <2>2. /\ slot[s].user \in UserIds
          /\ slot[s].invite \in InviteIds
          /\ invite \in Invitations
      BY <1>2 DEF AcceptCommit, Carries, Typed, TypeOK
    <2>3. role' \in [UserIds -> [Orgs -> Roles \cup {"none"}]]
      BY <2>1, <2>2 DEF Typed, TypeOK, Invitations
    <2>4. invitations' \subseteq Invitations BY <2>1, <2>2 DEF Typed, TypeOK, Invitations
    <2>5. uses' \in [InviteIds -> [times : Nat, by : SUBSET UserIds]]
      BY <1>2, <2>2 DEF AcceptCommit, Typed, TypeOK
    <2>6. Carries(s)' BY <1>2, IdleTyped, StepOfOne DEF AcceptCommit, Carries, Idle
    <2>7. QED
      BY <1>2, <2>3, <2>4, <2>5, <2>6, IdleTyped, StepOfOne DEF AcceptCommit, Typed, TypeOK
  <1>3. QED BY <1>1, <1>2 DEF Accept

LEMMA TypedStep == Typed /\ [Next]_vars => Typed'
  <1> SUFFICES ASSUME Typed, [Next]_vars PROVE Typed'
    OBVIOUS
  <1>1. ASSUME NEW s \in Slots, Fails(s) PROVE Typed'
    <2>1. Carries(s)' BY <1>1, IdleTyped, StepOfOne DEF Fails, accounts, Carries, Idle
    <2>2. outcasts' \subseteq UserIds
      BY <1>1, IdsTyped DEF Fails, Typed, TypeOK, Carries
    <2>3. QED
      BY <1>1, <2>1, <2>2, IdleTyped, StepOfOne DEF Fails, accounts, offers, Typed, TypeOK
  <1>2. ASSUME NEW i \in InviteIds, Expire(i) PROVE Typed'
    BY <1>2 DEF Expire, accounts, Typed, TypeOK, Carries, Ids
  <1>3. CASE UNCHANGED vars
    BY <1>3 DEF vars, accounts, offers, Typed, TypeOK, Carries, Ids
  <1>4. QED
    BY <1>1, <1>2, <1>3, TypedLink, TypedRegister, TypedManage, TypedAccept DEF Next

\* Every variable keeps its type (the columns of the tables and the requests under way).
THEOREM TenantsTypeCorrect == Spec => []TypeOK
  <1>1. Typed => TypeOK BY DEF Typed
  <1>2. QED BY <1>1, TypedInit, TypedStep, PTL DEF Spec

-----------------------------------------------------------------------------
(* Registration *)

OneEach == \A v, w \in users : v.email = w.email \/ v.id = w.id => v = w

Led ==
    /\ \A i \in Identities : linked[i] # 0 => linked[i] \in Ids
    /\ \A u \in workspaces : \E i \in Identities : linked[i] = u

Placed ==
    \A u \in Ids \ outcasts :
       \/ \E o \in Orgs : role[u][o] # "none"
       \/ \E s \in Slots : slot[s].at = "joining" /\ slot[s].user = u

\* What transactions hold: nobody else holds it, and nobody has it yet.
Holding(s) == HoldsEmail(s, slot[s].email)

KeysHeld ==
    /\ \A s \in Slots : slot[s].at = "committing" => linked[slot[s].who] = 0
    /\ \A s, t \in Slots :
          slot[s].at = "committing" /\ slot[t].at = "committing" /\ slot[s].who = slot[t].who
             => s = t
    /\ \A s \in Slots : Holding(s) => ~Taken(slot[s].email)
    /\ \A s, t \in Slots : Holding(s) /\ Holding(t) /\ slot[s].email = slot[t].email => s = t

Registered == OneEach /\ Led /\ Placed /\ KeysHeld

LEMMA RegisteredInit == Init => Registered
  BY DEF Init, Registered, OneEach, Led, Placed, KeysHeld, Holding, HoldsEmail, Taken, Ids, Idle

\* A step after which its request holds nothing, and that neither registers nor links.
LEMMA KeysKept ==
    ASSUME KeysHeld, NEW s \in Slots, NEW state, Become(s, state), slot \in [Slots -> SlotStates],
           state.at \notin {"founded", "appointing", "committing"},
           UNCHANGED <<users, linked>>
    PROVE  KeysHeld'
  <1>1. slot'[s] = state /\ \A t \in Slots \ {s} : slot'[t] = slot[t] BY DEF Become
  <1>2. ~Holding(s)' BY <1>1 DEF Holding, HoldsEmail
  <1>3. \A t \in Slots \ {s} : Holding(t)' <=> Holding(t) BY <1>1 DEF Holding, HoldsEmail
  <1>4. \A e : Taken(e)' <=> Taken(e) BY DEF Taken
  <1>5. QED BY <1>1, <1>2, <1>3, <1>4 DEF KeysHeld

\* A step that takes no membership, and whose request did not join.
LEMMA PlacedKept ==
    ASSUME Placed, NEW s \in Slots, NEW state, Become(s, state), slot \in [Slots -> SlotStates],
           slot[s].at # "joining", UNCHANGED users, outcasts \subseteq outcasts',
           \A u \in Ids \ outcasts', o \in Orgs : role[u][o] # "none" => role'[u][o] # "none"
    PROVE  Placed'
  <1>1. \A t \in Slots \ {s} : slot'[t] = slot[t] BY DEF Become
  <1>2. Ids' = Ids BY DEF Ids
  <1>3. QED BY <1>1, <1>2 DEF Placed

LEMMA UsersKept ==
    ASSUME OneEach, Led, UNCHANGED accounts
    PROVE  OneEach' /\ Led'
  BY DEF OneEach, Led, accounts, Ids

\* A new user whose id and email nobody has.
LEMMA OneMore ==
    ASSUME OneEach, NEW u, NEW e, u \notin Ids, ~Taken(e),
           users' = users \cup {[id |-> u, email |-> e]}
    PROVE  OneEach' /\ Ids' = Ids \cup {u} /\ \A f : Taken(f)' <=> Taken(f) \/ f = e
  <1>1. \A row \in users : row.id # u /\ row.email # e BY DEF Ids, Taken
  <1>2. OneEach' BY <1>1 DEF OneEach
  <1>3. QED BY <1>2, OneRow

\* A lookup goes on to the next row or to what it looks for.
LEMMA LookupStages ==
    ASSUME NEW s \in Slots, slot[s] \in SlotStates, SeekUser(s) \/ LockUser(s)
    PROVE  \E state : Become(s, state) /\ state.at \in {"founding", "locking", "linking"}
  <1>1. CASE SeekUser(s)
    <2>1. /\ [slot[s] EXCEPT !.at = "founding"].at = "founding"
          /\ \A left : [slot[s] EXCEPT !.at = "locking", !.left = left].at = "locking"
      BY DEF SlotStates
    <2>2. CASE Become(s, [slot[s] EXCEPT !.at = "founding"]) BY <2>1, <2>2
    <2>3. CASE \E left : Become(s, [slot[s] EXCEPT !.at = "locking", !.left = left]) BY <2>1, <2>3
    <2>4. QED BY <1>1, <2>2, <2>3 DEF SeekUser
  <1>2. CASE LockUser(s)
    <2>1. PICK u \in slot[s].left :
             Become(s, [slot[s] EXCEPT !.at = IF slot[s].left = {u} THEN "linking" ELSE "locking",
                                       !.user = IF slot[s].held = {} THEN u ELSE @,
                                       !.held = @ \cup {u}, !.left = @ \ {u}])
      BY <1>2 DEF LockUser
    <2> DEFINE state == [slot[s] EXCEPT !.at = IF slot[s].left = {u} THEN "linking" ELSE "locking",
                                       !.user = IF slot[s].held = {} THEN u ELSE @,
                                       !.held = @ \cup {u}, !.left = @ \ {u}]
    <2>2. state.at \in {"locking", "linking"} BY DEF SlotStates
    <2> HIDE DEF state
    <2>3. Become(s, state) BY <2>1 DEF state
    <2>4. QED BY <2>2, <2>3
  <1>3. QED BY <1>1, <1>2

LEMMA RegisteredLink ==
    ASSUME Typed, Registered, NEW s \in Slots, Link(s)
    PROVE  Registered'
  <1> USE DEF Registered
  <1>0. /\ slot \in [Slots -> SlotStates]
        /\ Carries(s)
        /\ Idle.at = "idle"
    BY IdsTyped DEF Typed, TypeOK, Idle
  <1>1. CASE FindIdentity(s)
    <2>0. PICK claim \in Claims :
             Become(s, [Idle EXCEPT !.at = "seeking", !.who = claim[1], !.email = claim[2]])
      BY <1>1 DEF FindIdentity
    <2> DEFINE state == [Idle EXCEPT !.at = "seeking", !.who = claim[1], !.email = claim[2]]
    <2>9. state.at = "seeking" BY DEF Idle
    <2> HIDE DEF state
    <2>1. Become(s, state) /\ state.at = "seeking" BY <2>0, <2>9 DEF state
    <2>2. QED
      BY <1>0, <1>1, <2>1, KeysKept, PlacedKept, UsersKept DEF FindIdentity, accounts
  <1>2. CASE SeekUser(s) \/ LockUser(s)
    <2>1. PICK state : Become(s, state) /\ state.at \in {"founding", "locking", "linking"}
      BY <1>0, <1>2, LookupStages
    <2>2. slot[s].at # "joining" /\ UNCHANGED <<accounts, role, outcasts>>
      BY <1>2 DEF SeekUser, LockUser
    <2>3. QED BY <1>0, <2>1, <2>2, KeysKept, PlacedKept, UsersKept DEF accounts
  <1>3. CASE InsertUser(s)
    <2>1. OneEach' /\ Led' BY <1>3, UsersKept DEF InsertUser
    <2>2. PICK state : Become(s, state) BY <1>3 DEF InsertUser
    <2>3. Placed' BY <1>0, <1>3, <2>2, PlacedKept DEF InsertUser, accounts
    <2>4. CASE Taken(slot[s].email)
      BY <1>0, <1>3, <2>1, <2>3, <2>4, KeysKept DEF InsertUser, accounts
    <2>5. CASE ~Taken(slot[s].email)
      <3>1. /\ slot'[s].at = "founded" /\ slot'[s].email = slot[s].email
            /\ \A t \in Slots \ {s} : slot'[t] = slot[t]
        BY <1>0, <1>3, <2>5 DEF InsertUser, Become, SlotStates
      <3>2. \A t \in Slots \ {s} : Holding(t)' <=> Holding(t) BY <3>1 DEF Holding, HoldsEmail
      <3>3. \A t \in Slots \ {s} : Holding(t) => slot[t].email # slot[s].email
        BY <1>3 DEF InsertUser, EmailFree, Holding
      <3>4. \A e : Taken(e)' <=> Taken(e) BY <1>3 DEF InsertUser, accounts, Taken
      <3>5. linked' = linked BY <1>3 DEF InsertUser, accounts
      <3>6. KeysHeld' BY <2>5, <3>1, <3>2, <3>3, <3>4, <3>5 DEF KeysHeld
      <3>7. QED BY <2>1, <2>3, <3>6
    <2>6. QED BY <2>4, <2>5
  <1>4. CASE InsertIdentity(s)
    <2>1. OneEach' /\ Led' BY <1>4, UsersKept DEF InsertIdentity
    <2>2. PICK state : Become(s, state) BY <1>4 DEF InsertIdentity
    <2>3. Placed' BY <1>0, <1>4, <2>2, PlacedKept DEF InsertIdentity, accounts
    <2>4. CASE linked[slot[s].who] # 0
      BY <1>0, <1>4, <2>1, <2>3, <2>4, KeysKept DEF InsertIdentity, accounts
    <2>5. CASE linked[slot[s].who] = 0
      <3>1. /\ slot'[s].at = "committing" /\ slot'[s].email = slot[s].email
            /\ slot'[s].who = slot[s].who /\ slot'[s].user = slot[s].user
            /\ \A t \in Slots \ {s} : slot'[t] = slot[t]
        BY <1>0, <1>4, <2>5 DEF InsertIdentity, Become, SlotStates
      <3>2. \A t \in Slots \ {s} : Holding(t)' <=> Holding(t) BY <3>1 DEF Holding, HoldsEmail
      <3>3. Holding(s)' => Holding(s)
        <4>1. 0 \notin Ids BY IdsTyped, Constants
        <4>2. QED BY <1>0, <1>4, <3>1, <4>1 DEF InsertIdentity, Carries, Holding, HoldsEmail
      <3>4. \A t \in Slots : slot[t].at = "committing" => slot[t].who # slot[s].who
        BY <1>4 DEF InsertIdentity, HoldsIdentity
      <3>5. \A e : Taken(e)' <=> Taken(e) BY <1>4 DEF InsertIdentity, accounts, Taken
      <3>6. linked' = linked BY <1>4 DEF InsertIdentity, accounts
      <3>7. KeysHeld' BY <2>5, <3>1, <3>2, <3>3, <3>4, <3>5, <3>6 DEF KeysHeld
      <3>8. QED BY <2>1, <2>3, <3>7
    <2>6. QED BY <2>4, <2>5
  <1>5. CASE CommitLink(s)
    <2> DEFINE i == slot[s].who
    <2>1. /\ i \in Identities /\ linked[i] = 0 /\ slot[s].user \in Ids
          /\ linked \in [Identities -> 0..MaxUsers]
      BY <1>0, <1>5 DEF CommitLink, Carries, KeysHeld, Typed, TypeOK
    <2>2. /\ users' = users /\ workspaces' = workspaces
          /\ linked' = [linked EXCEPT ![i] = slot[s].user]
          /\ slot'[s] = Idle /\ \A t \in Slots \ {s} : slot'[t] = slot[t]
      BY <1>0, <1>5 DEF CommitLink, Become
    <2>3. OneEach' BY <2>2 DEF OneEach
    <2>4. Led'
      <3>1. Ids' = Ids /\ 0 \notin workspaces BY <2>2, Constants DEF Ids, Typed, TypeOK
      <3>2. \A j \in Identities : linked'[j] = IF j = i THEN slot[s].user ELSE linked[j]
        BY <2>1, <2>2
      <3>3. \A u \in workspaces : \E j \in Identities : j # i /\ linked[j] = u
        BY <2>1, <3>1 DEF Led
      <3>4. QED BY <2>1, <2>2, <3>1, <3>2, <3>3 DEF Led
    <2>5. Placed' BY <1>0, <1>5, PlacedKept DEF CommitLink
    <2>6. KeysHeld'
      <3>1. \A t \in Slots : slot'[t].at = "committing" => t # s /\ slot'[t].who # i
        BY <1>0, <1>5, <2>2 DEF KeysHeld, CommitLink
      <3>2. \A t \in Slots : slot'[t].at = "committing" => linked'[slot'[t].who] = linked[slot[t].who]
        BY <2>1, <2>2, <3>1
      <3>3. \A t \in Slots : Holding(t)' => t # s /\ Holding(t)
        BY <1>0, <2>2 DEF Holding, HoldsEmail
      <3>4. \A e : Taken(e)' <=> Taken(e) BY <2>2 DEF Taken
      <3>5. QED BY <2>2, <3>1, <3>2, <3>3, <3>4 DEF KeysHeld
    <2>7. QED BY <2>3, <2>4, <2>5, <2>6
  <1>6. CASE CommitFounding(s)
    <2> DEFINE i == slot[s].who
               e == slot[s].email
    <2>1. PICK u \in UserIds :
             /\ IsNext(u)
             /\ users' = users \cup {[id |-> u, email |-> e]}
             /\ workspaces' = workspaces \cup {u}
             /\ role' = [role EXCEPT ![u][u] = "owner"]
             /\ linked' = [linked EXCEPT ![i] = u]
      BY <1>6 DEF CommitFounding
    <2>2. /\ i \in Identities /\ linked[i] = 0 /\ ~Taken(e) /\ Holding(s)
          /\ linked \in [Identities -> 0..MaxUsers]
      BY <1>0, <1>6 DEF CommitFounding, Carries, KeysHeld, Holding, HoldsEmail, Typed, TypeOK
    <2>3. /\ OneEach' /\ Ids' = Ids \cup {u} /\ \A f : Taken(f)' <=> Taken(f) \/ f = e
      BY <2>1, <2>2, OneMore DEF IsNext
    <2>4. slot'[s] = Idle /\ \A t \in Slots \ {s} : slot'[t] = slot[t]
      BY <1>0, <1>6 DEF CommitFounding, Become
    <2>5. Led'
      <3>1. 0 \notin workspaces BY Constants DEF Typed, TypeOK
      <3>2. \A j \in Identities : linked'[j] = IF j = i THEN u ELSE linked[j]
        BY <2>1, <2>2
      <3>3. \A w \in workspaces : \E j \in Identities : j # i /\ linked[j] = w
        BY <2>2, <3>1 DEF Led
      <3>4. QED BY <2>1, <2>2, <2>3, <3>2, <3>3 DEF Led
    <2>6. Placed'
      <3>1. role \in [UserIds -> [Orgs -> Roles \cup {"none"}]] /\ u \in Orgs
        BY Constants DEF Typed, TypeOK
      <3>2. role'[u][u] # "none" BY <2>1, <3>1
      <3>3. \A v \in UserIds \ {u} : role'[v] = role[v] BY <2>1, <3>1
      <3>4. outcasts' = outcasts /\ Ids \subseteq UserIds /\ u \notin Ids
        BY <1>6, <2>1, IdsTyped DEF CommitFounding, IsNext
      <3>5. \A t \in Slots : slot[t].at = "joining" => slot'[t] = slot[t]
        BY <1>6, <2>4 DEF CommitFounding
      <3>6. QED BY <2>3, <3>1, <3>2, <3>3, <3>4, <3>5 DEF Placed
    <2>7. KeysHeld'
      <3>1. \A t \in Slots : slot'[t].at = "committing" => t # s /\ slot'[t].who # i
        BY <1>0, <1>6, <2>4 DEF KeysHeld, CommitFounding
      <3>2. \A t \in Slots : slot'[t].at = "committing" => linked'[slot'[t].who] = linked[slot[t].who]
        BY <2>1, <2>2, <2>4, <3>1
      <3>3. \A t \in Slots : Holding(t)' => t # s /\ Holding(t)
        BY <1>0, <2>4 DEF Holding, HoldsEmail
      <3>4. \A t \in Slots : Holding(t)' => slot'[t].email # e
        BY <2>2, <2>4, <3>3 DEF KeysHeld
      <3>5. QED BY <2>3, <2>4, <3>1, <3>2, <3>3, <3>4 DEF KeysHeld
    <2>8. QED BY <2>3, <2>5, <2>6, <2>7
  <1>7. QED BY <1>1, <1>2, <1>3, <1>4, <1>5, <1>6 DEF Link

LEMMA RegisteredRegister ==
    ASSUME Typed, Registered, NEW s \in Slots, Register(s)
    PROVE  Registered'
  <1> USE DEF Registered
  <1>0. /\ slot \in [Slots -> SlotStates]
        /\ role \in [UserIds -> [Orgs -> Roles \cup {"none"}]]
        /\ Ids \subseteq UserIds
        /\ Carries(s)
        /\ Idle.at = "idle"
    BY IdsTyped DEF Typed, TypeOK, Idle
  <1>1. CASE Signup(s)
    <2>1. PICK e \in Emails, o \in Seeded, u \in UserIds :
             /\ EmailFree(e) /\ ~Taken(e) /\ IsNext(u)
             /\ users' = users \cup {[id |-> u, email |-> e]}
             /\ Become(s, [Idle EXCEPT !.at = "joining", !.user = u, !.org = o])
      BY <1>1 DEF Signup
    <2>2. OneEach' /\ Ids' = Ids \cup {u} /\ \A f : Taken(f)' <=> Taken(f) \/ f = e
      BY <2>1, OneMore DEF IsNext
    <2>3. /\ slot'[s].at = "joining" /\ slot'[s].user = u
          /\ \A t \in Slots \ {s} : slot'[t] = slot[t]
      BY <1>0, <2>1 DEF Become, Idle
    <2>4. UNCHANGED <<linked, workspaces, role, outcasts>> BY <1>1 DEF Signup
    <2>5. Led' BY <2>2, <2>4 DEF Led
    <2>6. Placed' BY <1>1, <2>2, <2>3, <2>4 DEF Placed, Signup
    <2>7. KeysHeld'
      <3>1. \A t \in Slots : Holding(t)' => t # s /\ Holding(t) /\ slot[t].email # e
        BY <2>1, <2>3 DEF Holding, HoldsEmail, EmailFree
      <3>2. QED BY <2>2, <2>3, <2>4, <3>1 DEF KeysHeld
    <2>8. QED BY <2>2, <2>5, <2>6, <2>7
  <1>2. CASE Join(s)
    <2> DEFINE u == slot[s].user
               o == slot[s].org
    <2>1. u \in UserIds /\ o \in Orgs BY <1>0, <1>2, Constants DEF Join, Carries
    <2>2. role' = IF role[u][o] = "none" THEN [role EXCEPT ![u][o] = "member"] ELSE role
      BY <1>2 DEF Join
    <2>3. role'[u][o] # "none" BY <1>0, <2>1, <2>2
    <2>4. \A v \in UserIds, q \in Orgs : role[v][q] # "none" => role'[v][q] # "none"
      BY <1>0, <2>1, <2>2
    <2>5. Ids' = Ids /\ outcasts' = outcasts /\ \A t \in Slots \ {s} : slot'[t] = slot[t]
      BY <1>0, <1>2 DEF Join, Become, Ids, accounts
    <2> HIDE DEF u, o
    <2>6. Placed'
      <3>1. \A t \in Slots : slot[t].at = "joining" => slot'[t] = slot[t] \/ slot[t].user = u
        BY <2>5 DEF u
      <3>2. QED BY <1>0, <2>1, <2>3, <2>4, <2>5, <3>1 DEF Placed
    <2>7. KeysHeld' BY <1>0, <1>2, KeysKept DEF Join, accounts
    <2>8. QED BY <1>2, <2>6, <2>7, UsersKept DEF Join
  <1>3. CASE Appoint(s)
    <2>0. PICK e \in Emails, r \in {"owner", "member"} :
             /\ EmailFree(e) /\ ~Taken(e)
             /\ Become(s, [Idle EXCEPT !.at = "appointing", !.email = e, !.role = r])
      BY <1>3 DEF Appoint
    <2> DEFINE state == [Idle EXCEPT !.at = "appointing", !.email = e, !.role = r]
    <2>9. state.at = "appointing" /\ state.email = e BY DEF Idle
    <2> HIDE DEF state
    <2>1. Become(s, state) /\ state.at = "appointing" /\ state.email = e BY <2>0, <2>9 DEF state
    <2>2. /\ slot'[s].at = "appointing" /\ slot'[s].email = e
          /\ \A t \in Slots \ {s} : slot'[t] = slot[t]
      BY <1>0, <2>1 DEF Become
    <2>10. EmailFree(e) /\ ~Taken(e) BY <2>0
    <2>3. OneEach' /\ Led' /\ Placed'
      BY <1>0, <1>3, <2>1, UsersKept, PlacedKept DEF Appoint, accounts
    <2>4. \A t \in Slots \ {s} : (Holding(t)' <=> Holding(t)) /\ (Holding(t) => slot[t].email # e)
      BY <2>10, <2>2 DEF Holding, HoldsEmail, EmailFree
    <2>5. linked' = linked /\ \A f : Taken(f)' <=> Taken(f)
      BY <1>3 DEF Appoint, accounts, Taken
    <2>6. KeysHeld' BY <2>10, <2>2, <2>4, <2>5 DEF KeysHeld
    <2>7. QED BY <2>3, <2>6
  <1>4. CASE CommitAppointment(s)
    <2> DEFINE e == slot[s].email
    <2>1. PICK u \in UserIds :
             /\ IsNext(u)
             /\ users' = users \cup {[id |-> u, email |-> e]}
             /\ role' = [role EXCEPT ![u][Demo] = slot[s].role]
      BY <1>4 DEF CommitAppointment
    <2>2. Holding(s) /\ ~Taken(e) BY <1>4 DEF CommitAppointment, KeysHeld, Holding, HoldsEmail
    <2>3. OneEach' /\ Ids' = Ids \cup {u} /\ \A f : Taken(f)' <=> Taken(f) \/ f = e
      BY <2>1, <2>2, OneMore DEF IsNext
    <2>4. slot'[s] = Idle /\ \A t \in Slots \ {s} : slot'[t] = slot[t]
      BY <1>0, <1>4 DEF CommitAppointment, Become
    <2>5. UNCHANGED <<linked, workspaces, outcasts>> BY <1>4 DEF CommitAppointment
    <2>6. Led' BY <2>3, <2>5 DEF Led
    <2>7. Placed'
      <3>1. role'[u][Demo] # "none"
        BY <1>0, <1>4, <2>1, Constants DEF CommitAppointment, Carries, Roles
      <3>2. \A v \in UserIds \ {u} : role'[v] = role[v] BY <1>0, <2>1
      <3>3. \A t \in Slots : slot[t].at = "joining" => slot'[t] = slot[t]
        BY <1>4, <2>4 DEF CommitAppointment
      <3>4. QED BY <1>0, <2>3, <2>5, <3>1, <3>2, <3>3, Constants DEF Placed
    <2>8. KeysHeld'
      <3>1. \A t \in Slots : Holding(t)' => t # s /\ Holding(t)
        BY <1>0, <2>4 DEF Holding, HoldsEmail
      <3>2. \A t \in Slots : Holding(t)' => slot'[t].email # e
        BY <2>2, <2>4, <3>1 DEF KeysHeld
      <3>3. QED BY <1>0, <2>3, <2>4, <2>5, <3>1, <3>2 DEF KeysHeld
    <2>9. QED BY <2>3, <2>6, <2>7, <2>8
  <1>5. QED BY <1>1, <1>2, <1>3, <1>4 DEF Register

LEMMA RegisteredManage ==
    ASSUME Typed, Registered, NEW s \in Slots, Manage(s)
    PROVE  Registered'
  <1> USE DEF Registered
  <1>0. /\ slot \in [Slots -> SlotStates]
        /\ role \in [UserIds -> [Orgs -> Roles \cup {"none"}]]
        /\ Ids \subseteq UserIds
        /\ Idle.at = "idle"
    BY IdsTyped DEF Typed, TypeOK, Idle
  <1>1. CASE Authorise(s)
    <2>0. PICK o : Become(s, [Idle EXCEPT !.at = "managing", !.org = o])
      BY <1>1 DEF Authorise
    <2> DEFINE state == [Idle EXCEPT !.at = "managing", !.org = o]
    <2>9. state.at = "managing" BY DEF Idle
    <2> HIDE DEF state
    <2>1. Become(s, state) /\ state.at = "managing" BY <2>0, <2>9 DEF state
    <2>2. QED BY <1>0, <1>1, <2>1, KeysKept, PlacedKept, UsersKept DEF Authorise, accounts
  <1>2. CASE ChangeRole(s)
    <2> DEFINE o == slot[s].org
    <2>1. PICK u \in Ids, r \in Roles : role' = [role EXCEPT ![u][o] = r]
      BY <1>2 DEF ChangeRole, GivenRoles
    <2>2. r # "none" BY DEF Roles
    <2>3. \A v \in UserIds, q \in Orgs : role[v][q] # "none" => role'[v][q] # "none"
      <3> HIDE DEF o
      <3>1. QED BY <1>0, <2>1, <2>2
    <2>4. Placed' BY <1>0, <1>2, <2>3, PlacedKept DEF ChangeRole, accounts
    <2>5. QED BY <1>0, <1>2, <2>4, KeysKept, UsersKept DEF ChangeRole, accounts
  <1>3. CASE RemoveMember(s)
    <2> DEFINE o == slot[s].org
    <2>1. PICK u \in Ids : /\ role' = [role EXCEPT ![u][o] = "none"]
                           /\ outcasts' = outcasts \cup {u}
      BY <1>3 DEF RemoveMember
    <2>2. \A v \in Ids \ outcasts', q \in Orgs : role[v][q] # "none" => role'[v][q] # "none"
      <3> HIDE DEF o
      <3>1. QED BY <1>0, <2>1
    <2>3. Placed' BY <1>0, <1>3, <2>1, <2>2, PlacedKept DEF RemoveMember, accounts
    <2>4. QED BY <1>0, <1>3, <2>3, KeysKept, UsersKept DEF RemoveMember, accounts
  <1>4. CASE Invite(s)
    BY <1>0, <1>4, KeysKept, PlacedKept, UsersKept DEF Invite, accounts
  <1>5. QED BY <1>1, <1>2, <1>3, <1>4 DEF Manage

LEMMA RegisteredAccept ==
    ASSUME Typed, Registered, NEW s \in Slots, Accept(s)
    PROVE  Registered'
  <1> USE DEF Registered
  <1>0. /\ slot \in [Slots -> SlotStates]
        /\ role \in [UserIds -> [Orgs -> Roles \cup {"none"}]]
        /\ Ids \subseteq UserIds
        /\ Carries(s)
        /\ Idle.at = "idle"
    BY IdsTyped DEF Typed, TypeOK, Idle
  <1>1. CASE AcceptLock(s)
    <2>0. PICK invite \in invitations, row \in users :
             Become(s, [Idle EXCEPT !.at = "accepting", !.invite = invite.id, !.user = row.id])
      BY <1>1 DEF AcceptLock
    <2> DEFINE state == [Idle EXCEPT !.at = "accepting", !.invite = invite.id, !.user = row.id]
    <2>9. state.at = "accepting" BY DEF Idle
    <2> HIDE DEF state
    <2>1. Become(s, state) /\ state.at = "accepting" BY <2>0, <2>9 DEF state
    <2>2. QED BY <1>0, <1>1, <2>1, KeysKept, PlacedKept, UsersKept DEF AcceptLock, accounts
  <1>2. CASE AcceptCommit(s)
    <2> DEFINE u == slot[s].user
    <2>1. PICK invite \in invitations : role' = [role EXCEPT ![u][invite.org] = invite.role]
      BY <1>2 DEF AcceptCommit
    <2>2. invite.role \in Roles /\ invite.role # "none" BY IdsTyped DEF Invitations, Roles
    <2>3. \A v \in UserIds, q \in Orgs : role[v][q] # "none" => role'[v][q] # "none"
      <3> HIDE DEF u
      <3>1. QED BY <1>0, <2>1, <2>2
    <2>4. Placed' BY <1>0, <1>2, <2>3, PlacedKept DEF AcceptCommit, accounts
    <2>5. QED BY <1>0, <1>2, <2>4, KeysKept, UsersKept DEF AcceptCommit, accounts
  <1>3. QED BY <1>1, <1>2 DEF Accept

LEMMA RegisteredStep == Typed /\ Registered /\ [Next]_vars => Registered'
  <1> SUFFICES ASSUME Typed, Registered, [Next]_vars PROVE Registered'
    OBVIOUS
  <1> USE DEF Registered
  <1>0. slot \in [Slots -> SlotStates] /\ Idle.at = "idle" BY DEF Typed, TypeOK, Idle
  <1>1. ASSUME NEW s \in Slots, Fails(s) PROVE Registered'
    <2>1. Ids' = Ids /\ role' = role /\ \A t \in Slots \ {s} : slot'[t] = slot[t]
      BY <1>0, <1>1 DEF Fails, accounts, Ids, Become
    <2>2. Placed' BY <1>1, <2>1 DEF Placed, Fails
    <2>3. QED BY <1>0, <1>1, <2>2, KeysKept, UsersKept DEF Fails, accounts
  <1>2. CASE UNCHANGED <<accounts, role, outcasts, slot>>
    <2>1. Ids' = Ids /\ \A e : Taken(e)' <=> Taken(e) BY <1>2 DEF accounts, Ids, Taken
    <2>2. \A s \in Slots : Holding(s)' <=> Holding(s) BY <1>2 DEF Holding, HoldsEmail
    <2>3. Placed' BY <1>2, <2>1 DEF Placed
    <2>4. KeysHeld' BY <1>2, <2>1, <2>2 DEF KeysHeld, accounts
    <2>5. QED BY <1>2, <2>3, <2>4, UsersKept
  <1>3. ASSUME NEW i \in InviteIds, Expire(i) PROVE Registered'
    BY <1>2, <1>3 DEF Expire
  <1>4. CASE UNCHANGED vars BY <1>2, <1>4 DEF vars
  <1>5. QED
    BY <1>1, <1>3, <1>4, RegisteredLink, RegisteredRegister, RegisteredManage, RegisteredAccept
       DEF Next

\* Racing and failing registrations leave users, identities and workspaces whole: because
\* no email or identity that a transaction holds is taken, and no two hold the same one.
THEOREM RegistrationsStayWhole == Spec => []RegistrationIsWhole
  <1>1. Registered => RegistrationIsWhole
    BY DEF Registered, OneEach, Led, Placed, RegistrationIsWhole
  <1>2. QED BY <1>1, TypedInit, TypedStep, RegisteredInit, RegisteredStep, PTL DEF Spec

-----------------------------------------------------------------------------
(* Waiting *)

\* What a lookup has locked and what it has still to lock are different rows of its address.
LocksItsAddress(s) ==
    /\ slot[s].held \cap slot[s].left = {}
    /\ slot[s].held \cup slot[s].left \subseteq SameUsers(slot[s].email)

Locking == \A s \in Slots : LocksItsAddress(s)

LEMMA LockingInit == Init => Locking
  <1>1. Idle.held = {} /\ Idle.left = {} BY DEF Idle
  <1>2. QED BY <1>1 DEF Init, Locking, LocksItsAddress

\* A step after which its request holds nothing or what it held.
LEMMA LocksKept ==
    ASSUME Locking, slot \in [Slots -> SlotStates], NEW s \in Slots, NEW state, Become(s, state),
           users \subseteq users',
           \/ state.held = {} /\ state.left = {}
           \/ UNCHANGED slot
           \/ /\ state.held = slot[s].held /\ state.left = slot[s].left
              /\ state.email = slot[s].email
    PROVE  Locking'
  <1>1. slot'[s] = state /\ \A t \in Slots \ {s} : slot'[t] = slot[t] BY DEF Become
  <1>2. \A e : SameUsers(e) \subseteq SameUsers(e)' BY DEF SameUsers, AreSame
  <1>3. QED BY <1>1, <1>2 DEF Locking, LocksItsAddress

LEMMA LockingLink ==
    ASSUME Typed, Locking, NEW s \in Slots, Link(s)
    PROVE  Locking'
  <1>0. slot \in [Slots -> SlotStates] /\ slot[s] \in SlotStates /\ Carries(s)
    BY IdsTyped DEF Typed, TypeOK
  <1>1. CASE FindIdentity(s)
    <2>1. \A i, e : /\ [Idle EXCEPT !.at = "seeking", !.who = i, !.email = e].held = {}
                    /\ [Idle EXCEPT !.at = "seeking", !.who = i, !.email = e].left = {}
      BY DEF Idle
    <2>2. PICK i, e : Become(s, [Idle EXCEPT !.at = "seeking", !.who = i, !.email = e])
      BY <1>1 DEF FindIdentity
    <2> DEFINE state == [Idle EXCEPT !.at = "seeking", !.who = i, !.email = e]
    <2>4. Become(s, state) /\ state.held = {} /\ state.left = {} BY <2>1, <2>2
    <2> HIDE DEF state
    <2>3. QED BY <1>0, <1>1, <2>4, LocksKept DEF FindIdentity, accounts
  <1>2. CASE SeekUser(s)
    <2> DEFINE same == SameUsers(slot[s].email)
               lock == [slot[s] EXCEPT !.at = "locking", !.left = same]
               found == [slot[s] EXCEPT !.at = "founding"]
    <2>1. users' = users BY <1>2 DEF SeekUser, accounts
    <2>2. CASE Become(s, found)
      <3>1. found.held = slot[s].held /\ found.left = slot[s].left /\ found.email = slot[s].email
        BY <1>0 DEF SlotStates
      <3> HIDE DEF found
      <3>2. QED BY <1>0, <2>1, <2>2, <3>1, LocksKept
    <2>3. CASE Become(s, lock)
      <3>1. lock.held = {} /\ lock.left = same /\ lock.email = slot[s].email
        BY <1>0, <1>2 DEF SlotStates, SeekUser, Carries
      <3>2. slot'[s] = lock /\ \A t \in Slots \ {s} : slot'[t] = slot[t]
        BY <1>0, <2>3 DEF Become
      <3>3. \A e : SameUsers(e)' = SameUsers(e) BY <2>1 DEF SameUsers, AreSame
      <3> HIDE DEF lock
      <3>4. QED BY <3>1, <3>2, <3>3 DEF Locking, LocksItsAddress
    <2>4. QED BY <1>2, <2>2, <2>3 DEF SeekUser
  <1>3. CASE LockUser(s)
    <2>1. PICK u \in slot[s].left :
             Become(s, [slot[s] EXCEPT !.at = IF slot[s].left = {u} THEN "linking" ELSE "locking",
                                       !.user = IF slot[s].held = {} THEN u ELSE @,
                                       !.held = @ \cup {u}, !.left = @ \ {u}])
      BY <1>3 DEF LockUser
    <2> DEFINE state == [slot[s] EXCEPT !.at = IF slot[s].left = {u} THEN "linking" ELSE "locking",
                                       !.user = IF slot[s].held = {} THEN u ELSE @,
                                       !.held = @ \cup {u}, !.left = @ \ {u}]
    <2>2. /\ state.held = slot[s].held \cup {u} /\ state.left = slot[s].left \ {u}
          /\ state.email = slot[s].email
      BY <1>0 DEF SlotStates
    <2> HIDE DEF state
    <2>3. slot'[s] = state /\ \A t \in Slots \ {s} : slot'[t] = slot[t]
      BY <1>0, <2>1 DEF Become, state
    <2>4. \A e : SameUsers(e)' = SameUsers(e)
      BY <1>3 DEF LockUser, accounts, SameUsers, AreSame
    <2>5. QED BY <2>1, <2>2, <2>3, <2>4 DEF Locking, LocksItsAddress
  <1>4. CASE InsertUser(s) \/ InsertIdentity(s)
    <2>1. \A at : LET state == [slot[s] EXCEPT !.at = at]
                  IN  /\ state.held = slot[s].held /\ state.left = slot[s].left
                      /\ state.email = slot[s].email
      BY <1>0 DEF SlotStates
    <2>2. Idle.held = {} /\ Idle.left = {} BY DEF Idle
    <2>3. users' = users BY <1>4 DEF InsertUser, InsertIdentity, accounts
    <2>4. CASE \E at : Become(s, [slot[s] EXCEPT !.at = at])
      <3>1. PICK state : /\ Become(s, state)
                         /\ state.held = slot[s].held /\ state.left = slot[s].left
                         /\ state.email = slot[s].email
        BY <2>1, <2>4
      <3>2. QED BY <1>0, <2>3, <3>1, LocksKept
    <2>5. CASE Become(s, Idle) BY <1>0, <2>2, <2>3, <2>5, LocksKept
    <2>6. QED BY <1>4, <2>4, <2>5 DEF InsertUser, InsertIdentity
  <1>5. CASE CommitLink(s) \/ CommitFounding(s)
    <2>1. Become(s, Idle) /\ users \subseteq users' BY <1>5 DEF CommitLink, CommitFounding
    <2>2. Idle.held = {} /\ Idle.left = {} BY DEF Idle
    <2>3. QED BY <1>0, <2>1, <2>2, LocksKept
  <1>6. QED BY <1>1, <1>2, <1>3, <1>4, <1>5 DEF Link

LEMMA LockingStep == Typed /\ Locking /\ [Next]_vars => Locking'
  <1> SUFFICES ASSUME Typed, Locking, [Next]_vars PROVE Locking'
    OBVIOUS
  <1>0. slot \in [Slots -> SlotStates] BY DEF Typed, TypeOK
  <1>1. ASSUME NEW s \in Slots, Register(s) \/ Manage(s) \/ Accept(s) \/ Fails(s)
        PROVE  Locking'
    <2>1. /\ Idle.held = {} /\ Idle.left = {}
          /\ \A u, o : LET new == [Idle EXCEPT !.at = "joining", !.user = u, !.org = o]
                       IN  new.held = {} /\ new.left = {}
          /\ \A e, q : LET new == [Idle EXCEPT !.at = "appointing", !.email = e, !.role = q]
                       IN  new.held = {} /\ new.left = {}
          /\ \A o : LET new == [Idle EXCEPT !.at = "managing", !.org = o]
                    IN  new.held = {} /\ new.left = {}
          /\ \A i, u : LET new == [Idle EXCEPT !.at = "accepting", !.invite = i, !.user = u]
                       IN  new.held = {} /\ new.left = {}
      BY DEF Idle
    <2>2. PICK state : Become(s, state) /\ state.held = {} /\ state.left = {}
      <3>1. CASE Register(s)
        BY <2>1, <3>1 DEF Register, Signup, Join, Appoint, CommitAppointment
      <3>2. CASE Manage(s) BY <2>1, <3>2 DEF Manage, Authorise, ChangeRole, RemoveMember, Invite
      <3>3. CASE Accept(s)
        <4>1. CASE AcceptLock(s)
          <5>1. PICK i, u : Become(s, [Idle EXCEPT !.at = "accepting", !.invite = i, !.user = u])
            BY <4>1 DEF AcceptLock
          <5>2. QED BY <2>1, <5>1
        <4>2. QED BY <2>1, <3>3, <4>1 DEF Accept, AcceptCommit
      <3>4. QED BY <1>1, <2>1, <3>1, <3>2, <3>3 DEF Fails
    <2>3. users \subseteq users'
      BY <1>1 DEF Register, Signup, Join, Appoint, CommitAppointment, Manage, Authorise, ChangeRole,
                  RemoveMember, Invite, Accept, AcceptLock, AcceptCommit, Fails, accounts
    <2>4. QED BY <1>0, <2>2, <2>3, LocksKept
  <1>2. CASE UNCHANGED <<users, slot>>
    BY <1>2 DEF Locking, LocksItsAddress, SameUsers, AreSame
  <1>3. QED BY <1>1, <1>2, LockingLink DEF Next, Expire, vars, accounts

\* Requests that wait in a circle have two lookups among them that are half way through the
\* rows of one address: who has inserted its last row waits for nobody, who is about to insert
\* an identity only for those, so whoever else is waited for holds a user's row and waits for
\* another of the same address (the statements of the link functions in their order, and the
\* foreign key of a membership).
THEOREM CirclesAreOfLookups == Spec => []NoCircleOfWaits
  <1>1. ASSUME Typed, Registered, Locking PROVE NoCircleOfWaits
    <2> DEFINE last == {"committing", "appointing"}
    <2> SUFFICES ASSUME NEW S \in (SUBSET Slots) \ {{}},
                        \A s \in S : \E t \in S : Blocks(t, s)
                 PROVE  \E s, t \in S : /\ s # t /\ HalfWay(s) /\ HalfWay(t)
                                       /\ AreSame(slot[s].email, slot[t].email)
      BY DEF NoCircleOfWaits
    <2>0. S \subseteq Slots OBVIOUS
    <2>1. \A s \in S : slot[s].at \notin last BY DEF Blocks, Enters
    <2>2. \A s \in S : slot[s].at \notin {"linking", "founded"}
      BY <2>1 DEF Blocks, Enters, HoldsIdentity
    <2>3. ASSUME NEW s \in S, NEW t \in S, Blocks(t, s)
          PROVE  HalfWay(t) /\ (slot[s].at = "locking" => \E u \in slot[s].left : u \in slot[t].held)
      <3>1. slot[t].at \notin last \cup {"linking", "founded"} BY <2>1, <2>2
      <3>2. ~HoldsEmail(t, slot[s].email) /\ ~HoldsIdentity(t, slot[s].who)
        BY <3>1 DEF HoldsEmail, HoldsIdentity
      <3>3. \E u : u \in slot[t].held BY <2>3, <3>2 DEF Blocks, HoldsUser
      <3>4. slot[t].at = "locking" BY <1>1, <2>0, <3>1, <3>3 DEF Typed, Carries
      <3>5. QED BY <2>3, <3>3, <3>4 DEF HalfWay, Blocks, HoldsUser, Enters
    <2>4. PICK s \in S : HalfWay(s)
      <3>1. PICK r \in S : TRUE OBVIOUS
      <3>2. QED BY <2>3, <3>1
    <2>5. PICK t \in S : Blocks(t, s) OBVIOUS
    <2>6. HalfWay(t) /\ \E u \in slot[s].left : u \in slot[t].held
      BY <2>3, <2>4, <2>5 DEF HalfWay
    <2>7. PICK u \in slot[s].left : u \in slot[t].held BY <2>6
    <2>8. LocksItsAddress(s) /\ LocksItsAddress(t) BY <1>1, <2>0 DEF Locking
    <2>9. s # t BY <2>7, <2>8 DEF LocksItsAddress
    <2>10. u \in SameUsers(slot[s].email) /\ u \in SameUsers(slot[t].email)
      BY <2>7, <2>8 DEF LocksItsAddress
    <2>11. PICK v \in users : v.id = u /\ AreSame(v.email, slot[s].email)
      BY <2>10 DEF SameUsers
    <2>12. PICK w \in users : w.id = u /\ AreSame(w.email, slot[t].email)
      BY <2>10 DEF SameUsers
    <2>13. v = w BY <1>1, <2>11, <2>12 DEF Registered, OneEach
    <2>14. AreSame(slot[s].email, slot[t].email) BY <2>11, <2>12, <2>13 DEF AreSame
    <2>15. QED BY <2>4, <2>6, <2>9, <2>14
  <1>2. QED
    BY <1>1, TypedInit, TypedStep, RegisteredInit, RegisteredStep, LockingInit, LockingStep, PTL
       DEF Spec

-----------------------------------------------------------------------------
(* Invitations *)

UniqueInvitations == \A v, w \in invitations : v.id = w.id => v = w

\* An id no invitation has yet was never used.
FreshUnused ==
    \A i \in InviteIds :
        (\A invite \in invitations : invite.id # i) => uses[i] = [times |-> 0, by |-> {}]

\* Whoever accepts has locked an invitation that is still open, and is its addressee.
Reads(s) ==
    \E invite \in invitations, row \in users :
        /\ invite.id = slot[s].invite
        /\ ~invite.accepted
        /\ row.id = slot[s].user
        /\ AreSame(row.email, invite.email)

InvitesHeld ==
    /\ \A s \in Slots : slot[s].at = "accepting" => Reads(s)
    /\ \A s, t \in Slots :
          slot[s].at = "accepting" /\ slot[t].at = "accepting" /\ slot[s].invite = slot[t].invite
             => s = t

Addressed(u, invite) == \E row \in users : row.id = u /\ AreSame(row.email, invite.email)

UsedOnce ==
    \A invite \in invitations :
        /\ uses[invite.id].times = IF invite.accepted THEN 1 ELSE 0
        /\ \A u \in uses[invite.id].by : Addressed(u, invite)

LetIn(u, w) == \E invite \in invitations : invite.org = w /\ u \in uses[invite.id].by

NoStrangers == \A w \in UserIds : \A u \in UserIds \ {w} : role[u][w] # "none" => LetIn(u, w)

Offered == UniqueInvitations /\ FreshUnused /\ InvitesHeld /\ UsedOnce /\ NoStrangers

LEMMA OfferedInit == Init => Offered
  <1>1. Init => UniqueInvitations /\ FreshUnused /\ UsedOnce
    BY DEF Init, UniqueInvitations, FreshUnused, UsedOnce
  <1>2. Init => InvitesHeld
    <2>1. Idle.at # "accepting" BY DEF Idle
    <2>2. QED BY <2>1 DEF Init, InvitesHeld
  <1>3. Init => NoStrangers
    <2>1. Init => \A u \in UserIds, w \in Orgs : role[u][w] = "none" BY DEF Init
    <2>2. QED BY <2>1, Constants DEF NoStrangers
  <1>4. QED BY <1>1, <1>2, <1>3 DEF Offered

\* A role in a workspace that was none before is its founder's.
NobodyEnters ==
    \A w \in UserIds : \A u \in UserIds \ {w} : role'[u][w] # "none" => role[u][w] # "none"

\* A step that makes no invitation and accepts none.
LEMMA OffersKept ==
    ASSUME Typed, Offered, NEW s \in Slots, NEW state, Become(s, state),
           UNCHANGED <<invitations, uses>>, users \subseteq users', NobodyEnters,
           state.at = "accepting" =>
              /\ \E invite \in invitations, row \in users :
                    /\ invite.id = state.invite /\ ~invite.accepted
                    /\ row.id = state.user /\ AreSame(row.email, invite.email)
              /\ \A t \in Slots : slot[t].at = "accepting" => slot[t].invite # state.invite
    PROVE  Offered'
  <1>1. slot'[s] = state /\ \A t \in Slots \ {s} : slot'[t] = slot[t]
    BY DEF Become, Typed, TypeOK
  <1>2. UniqueInvitations' /\ FreshUnused'
    BY DEF Offered, UniqueInvitations, FreshUnused
  <1>3. UsedOnce' BY DEF Offered, UsedOnce, Addressed, AreSame
  <1>4. NoStrangers' BY DEF Offered, NoStrangers, NobodyEnters, LetIn
  <1>5. InvitesHeld'
    <2>1. ASSUME NEW t \in Slots, slot'[t].at = "accepting" PROVE Reads(t)'
      <3>1. CASE t = s BY <1>1, <2>1, <3>1 DEF Reads, AreSame
      <3>2. CASE t # s BY <1>1, <2>1, <3>2 DEF Offered, InvitesHeld, Reads, AreSame
      <3>3. QED BY <3>1, <3>2
    <2>2. QED BY <1>1, <2>1 DEF Offered, InvitesHeld
  <1>6. QED BY <1>2, <1>3, <1>4, <1>5 DEF Offered

LEMMA OfferedLink ==
    ASSUME Typed, Offered, NEW s \in Slots, Link(s)
    PROVE  Offered'
  <1>0. Idle.at = "idle" /\ slot[s] \in SlotStates BY DEF Idle, Typed, TypeOK
  <1>1. PICK state : Become(s, state) /\ state.at # "accepting"
    <2>1. CASE FindIdentity(s)
      <3>1. \A i, e : [Idle EXCEPT !.at = "seeking", !.who = i, !.email = e].at = "seeking"
        BY DEF Idle
      <3>2. QED BY <2>1, <3>1 DEF FindIdentity
    <2>2. CASE SeekUser(s) \/ LockUser(s) BY <1>0, <2>2, LookupStages
    <2>3. CASE InsertUser(s) \/ InsertIdentity(s)
      <3>1. /\ [slot[s] EXCEPT !.at = "founded"].at = "founded"
            /\ [slot[s] EXCEPT !.at = "committing"].at = "committing"
        BY <1>0 DEF SlotStates
      <3>2. QED BY <1>0, <2>3, <3>1 DEF InsertUser, InsertIdentity
    <2>4. CASE CommitLink(s) \/ CommitFounding(s)
      BY <1>0, <2>4 DEF CommitLink, CommitFounding
    <2>5. QED BY <2>1, <2>2, <2>3, <2>4 DEF Link
  <1>2. UNCHANGED <<invitations, uses>> /\ users \subseteq users'
    BY DEF Link, FindIdentity, SeekUser, LockUser, InsertUser, InsertIdentity, CommitLink,
           CommitFounding, accounts, offers
  <1>3. NobodyEnters
    <2>1. CASE CommitFounding(s)
      BY <2>1, Constants DEF CommitFounding, NobodyEnters, Typed, TypeOK
    <2>2. CASE ~CommitFounding(s)
      <3>1. role' = role
        BY <2>2 DEF Link, FindIdentity, SeekUser, LockUser, InsertUser, InsertIdentity, CommitLink
      <3>2. QED BY <3>1 DEF NobodyEnters
    <2>3. QED BY <2>1, <2>2
  <1>4. QED BY <1>1, <1>2, <1>3, OffersKept

LEMMA OfferedRegister ==
    ASSUME Typed, Offered, NEW s \in Slots, Register(s)
    PROVE  Offered'
  <1>0. /\ Idle.at = "idle" /\ Carries(s)
        /\ role \in [UserIds -> [Orgs -> Roles \cup {"none"}]]
    BY DEF Idle, Typed, TypeOK
  <1>1. PICK state : Become(s, state) /\ state.at # "accepting"
    <2>1. /\ \A u, o : [Idle EXCEPT !.at = "joining", !.user = u, !.org = o].at = "joining"
          /\ \A e, r : [Idle EXCEPT !.at = "appointing", !.email = e, !.role = r].at = "appointing"
      BY DEF Idle
    <2>2. CASE Signup(s) BY <2>1, <2>2 DEF Signup
    <2>3. CASE Appoint(s) BY <2>1, <2>3 DEF Appoint
    <2>4. CASE Join(s) \/ CommitAppointment(s) BY <1>0, <2>4 DEF Join, CommitAppointment
    <2>5. QED BY <2>2, <2>3, <2>4 DEF Register
  <1>2. UNCHANGED <<invitations, uses>> /\ users \subseteq users'
    BY DEF Register, Signup, Join, Appoint, CommitAppointment, accounts, offers
  <1>3. NobodyEnters
    <2>1. CASE Signup(s) \/ Appoint(s)
      BY <2>1 DEF Signup, Appoint, NobodyEnters
    <2>2. CASE Join(s)
      <3> DEFINE u == slot[s].user
                 o == slot[s].org
      <3>1. o \in Seeded BY <1>0, <2>2 DEF Join, Carries
      <3>2. role' = IF role[u][o] = "none" THEN [role EXCEPT ![u][o] = "member"] ELSE role
        BY <2>2 DEF Join
      <3> HIDE DEF u, o
      <3>3. \A w \in UserIds : w # o /\ w \in Orgs BY <3>1, Constants
      <3>4. QED BY <1>0, <3>2, <3>3 DEF NobodyEnters
    <2>3. CASE CommitAppointment(s)
      <3>1. PICK u \in UserIds : role' = [role EXCEPT ![u][Demo] = slot[s].role]
        BY <2>3 DEF CommitAppointment
      <3>2. \A w \in UserIds : w # Demo /\ w \in Orgs BY Constants, TenantsAssumption
      <3>3. QED BY <1>0, <3>1, <3>2 DEF NobodyEnters
    <2>4. QED BY <2>1, <2>2, <2>3 DEF Register
  <1>4. QED BY <1>1, <1>2, <1>3, OffersKept

LEMMA OfferedManage ==
    ASSUME Typed, Offered, NEW s \in Slots, Manage(s)
    PROVE  Offered'
  <1>0. /\ Idle.at = "idle" /\ Carries(s)
        /\ role \in [UserIds -> [Orgs -> Roles \cup {"none"}]]
        /\ Ids \subseteq UserIds
    BY IdsTyped DEF Idle, Typed, TypeOK
  <1>1. CASE Authorise(s)
    <2>1. \A o : [Idle EXCEPT !.at = "managing", !.org = o].at = "managing" BY DEF Idle
    <2>2. NobodyEnters /\ UNCHANGED <<invitations, uses>> /\ users \subseteq users'
      BY <1>1 DEF Authorise, NobodyEnters, offers, accounts
    <2>3. PICK state : Become(s, state) /\ state.at # "accepting" BY <1>1, <2>1 DEF Authorise
    <2>4. QED BY <2>2, <2>3, OffersKept
  <1>2. CASE ChangeRole(s)
    <2> DEFINE o == slot[s].org
    <2>1. PICK u \in Ids, r \in Roles :
             role[u][o] # "none" /\ role' = [role EXCEPT ![u][o] = r]
      BY <1>2 DEF ChangeRole, GivenRoles
    <2>2. NobodyEnters
      <3> HIDE DEF o
      <3>1. QED BY <1>0, <2>1, Constants DEF NobodyEnters
    <2>3. QED BY <1>0, <1>2, <2>2, OffersKept DEF ChangeRole, accounts, offers
  <1>3. CASE RemoveMember(s)
    <2> DEFINE o == slot[s].org
    <2>1. PICK u \in Ids : role' = [role EXCEPT ![u][o] = "none"]
      BY <1>3 DEF RemoveMember
    <2>2. NobodyEnters
      <3> HIDE DEF o
      <3>1. QED BY <1>0, <2>1, Constants DEF NobodyEnters
    <2>3. QED BY <1>0, <1>3, <2>2, OffersKept DEF RemoveMember, accounts, offers
  <1>4. CASE Invite(s)
    <2>1. PICK i \in InviteIds, e \in Emails, r \in Roles :
             /\ \A invite \in invitations : invite.id < i
             /\ invitations' = invitations \cup
                {[id |-> i, org |-> slot[s].org, email |-> e, role |-> r, accepted |-> FALSE]}
      BY <1>4 DEF Invite, GivenRoles
    <2> DEFINE new == [id |-> i, org |-> slot[s].org, email |-> e, role |-> r, accepted |-> FALSE]
    <2>2. new.id = i /\ ~new.accepted OBVIOUS
    <2>3. invitations' = invitations \cup {new} BY <2>1
    <2> HIDE DEF new
    <2>4. \A invite \in invitations : invite.id # i
      <3>1. \A invite \in invitations : invite.id \in InviteIds BY IdsTyped
      <3>2. InviteIds \subseteq Nat BY TenantsAssumption DEF InviteIds
      <3>3. QED BY <2>1, <3>1, <3>2
    <2>5. UNCHANGED <<users, role, uses>> /\ slot'[s] = Idle
          /\ \A t \in Slots \ {s} : slot'[t] = slot[t]
      BY <1>4 DEF Invite, accounts, Become, Typed, TypeOK
    <2>6. uses[i] = [times |-> 0, by |-> {}] BY <2>4 DEF Offered, FreshUnused
    <2>7. UniqueInvitations' BY <2>2, <2>3, <2>4 DEF Offered, UniqueInvitations
    <2>8. FreshUnused' BY <2>3, <2>5 DEF Offered, FreshUnused
    <2>9. InvitesHeld'
      <3>1. ASSUME NEW t \in Slots, slot'[t].at = "accepting" PROVE t # s /\ Reads(t)'
        BY <1>0, <2>3, <2>5, <3>1 DEF Offered, InvitesHeld, Reads, AreSame
      <3>2. QED BY <2>5, <3>1 DEF Offered, InvitesHeld
    <2>10. UsedOnce'
      BY <2>2, <2>3, <2>5, <2>6 DEF Offered, UsedOnce, Addressed, AreSame
    <2>11. NoStrangers' BY <2>3, <2>5 DEF Offered, NoStrangers, LetIn
    <2>12. QED BY <2>7, <2>8, <2>9, <2>10, <2>11 DEF Offered
  <1>5. QED BY <1>1, <1>2, <1>3, <1>4 DEF Manage

LEMMA OfferedAccept ==
    ASSUME Typed, Offered, NEW s \in Slots, Accept(s)
    PROVE  Offered'
  <1>0. /\ Idle.at = "idle" /\ Carries(s)
        /\ role \in [UserIds -> [Orgs -> Roles \cup {"none"}]]
    BY DEF Idle, Typed, TypeOK
  <1>1. CASE AcceptLock(s)
    <2>1. PICK invite \in invitations, row \in users :
             /\ \A t \in Slots : ~HoldsInvite(t, invite.id)
             /\ ~invite.accepted /\ AreSame(row.email, invite.email)
             /\ Become(s, [Idle EXCEPT !.at = "accepting", !.invite = invite.id, !.user = row.id])
      BY <1>1 DEF AcceptLock, IsOpen
    <2> DEFINE state == [Idle EXCEPT !.at = "accepting", !.invite = invite.id, !.user = row.id]
    <2>2. state.invite = invite.id /\ state.user = row.id BY DEF Idle
    <2>3. Become(s, state) BY <2>1
    <2> HIDE DEF state
    <2>4. NobodyEnters /\ UNCHANGED <<invitations, uses>> /\ users \subseteq users'
      BY <1>1 DEF AcceptLock, NobodyEnters, accounts, offers
    <2>5. \A t \in Slots : slot[t].at = "accepting" => slot[t].invite # state.invite
      BY <2>1, <2>2 DEF HoldsInvite
    <2>6. QED BY <2>1, <2>2, <2>3, <2>4, <2>5, OffersKept
  <1>2. CASE AcceptCommit(s)
    <2> DEFINE i == slot[s].invite
               u == slot[s].user
    <2>1. PICK invite \in invitations :
             /\ invite.id = i
             /\ role' = [role EXCEPT ![u][invite.org] = invite.role]
             /\ invitations' = (invitations \ {invite}) \cup {[invite EXCEPT !.accepted = TRUE]}
      BY <1>2 DEF AcceptCommit
    <2>2. /\ uses' = [uses EXCEPT ![i].times = @ + 1, ![i].by = @ \cup {u}]
          /\ users' = users /\ slot'[s] = Idle /\ \A t \in Slots \ {s} : slot'[t] = slot[t]
          /\ i \in InviteIds /\ u \in UserIds
      BY <1>0, <1>2, IdsTyped DEF AcceptCommit, accounts, Become, Carries, Typed, TypeOK
    <2>3. \A other \in invitations : other.id = i => other = invite
      BY <2>1 DEF Offered, UniqueInvitations
    <2>4. ~invite.accepted /\ Addressed(u, invite)
      BY <1>2, <2>3 DEF AcceptCommit, Offered, InvitesHeld, Reads, Addressed
    <2> DEFINE old == invitations \ {invite}
               now == [invite EXCEPT !.accepted = TRUE]
    <2>5. /\ now.id = i /\ now.org = invite.org /\ now.email = invite.email /\ now.accepted
          /\ invite \in Invitations
      BY <2>1, IdsTyped DEF Invitations
    <2>6. \A x : x \in invitations' <=> x \in old \/ x = now BY <2>1
    <2>7. \A x \in old : x.id # i /\ x \in invitations /\ x.id \in InviteIds BY <2>3, IdsTyped
    <2> DEFINE before == uses[i]
    <2>8. /\ uses'[i].times = before.times + 1 /\ uses'[i].by = before.by \cup {u}
          /\ \A j \in InviteIds \ {i} : uses'[j] = uses[j]
      BY <2>2 DEF Typed, TypeOK
    <2>9. before.times = 0 /\ \A v \in before.by : Addressed(v, invite)
      BY <2>1, <2>4 DEF Offered, UsedOnce
    <2> HIDE DEF old, now, before
    <2>10. UniqueInvitations' BY <2>5, <2>6, <2>7 DEF Offered, UniqueInvitations
    <2>11. FreshUnused'
      <3>1. ASSUME NEW j \in InviteIds, \A x \in invitations' : x.id # j
            PROVE  uses'[j] = [times |-> 0, by |-> {}]
        <4>1. j # i BY <2>5, <2>6, <3>1
        <4>2. \A x \in invitations : x.id # j BY <2>1, <2>6, <3>1, <4>1 DEF old
        <4>3. QED BY <2>8, <4>1, <4>2 DEF Offered, FreshUnused
      <3>2. QED BY <3>1 DEF FreshUnused
    <2>12. InvitesHeld'
      <3>1. ASSUME NEW t \in Slots, slot'[t].at = "accepting" PROVE t # s /\ Reads(t)'
        <4>1. t # s /\ slot'[t] = slot[t] BY <1>0, <2>2, <3>1
        <4>2. slot[t].invite # i
          BY <1>2, <3>1, <4>1 DEF AcceptCommit, Offered, InvitesHeld
        <4>3. PICK x \in invitations, row \in users :
                 /\ x.id = slot[t].invite /\ ~x.accepted
                 /\ row.id = slot[t].user /\ AreSame(row.email, x.email)
          BY <3>1, <4>1 DEF Offered, InvitesHeld, Reads
        <4>4. x \in invitations' BY <2>1, <2>6, <4>2, <4>3 DEF old
        <4>5. QED BY <2>2, <4>1, <4>3, <4>4 DEF Reads, AreSame
      <3>2. QED BY <2>2, <3>1 DEF Offered, InvitesHeld
    <2>13. UsedOnce'
      <3>1. ASSUME NEW x \in old
            PROVE  /\ uses'[x.id].times = IF x.accepted THEN 1 ELSE 0
                   /\ \A v \in uses'[x.id].by : Addressed(v, x)'
        <4>1. uses'[x.id] = uses[x.id] BY <2>7, <2>8
        <4>2. \A v : Addressed(v, x)' <=> Addressed(v, x) BY <2>2 DEF Addressed, AreSame
        <4>3. QED BY <2>7, <4>1, <4>2 DEF Offered, UsedOnce
      <3>2. /\ uses'[now.id].times = IF now.accepted THEN 1 ELSE 0
            /\ \A v \in uses'[now.id].by : Addressed(v, now)'
        <4>1. \A v : Addressed(v, now)' <=> Addressed(v, invite)
          BY <2>2, <2>5 DEF Addressed, AreSame
        <4>2. QED BY <2>4, <2>5, <2>8, <2>9, <4>1
      <3>3. QED BY <2>6, <3>1, <3>2 DEF UsedOnce
    <2>14. NoStrangers'
      <3>1. ASSUME NEW w \in UserIds, NEW v \in UserIds \ {w}, LetIn(v, w) PROVE LetIn(v, w)'
        <4>1. PICK x \in invitations : x.org = w /\ v \in uses[x.id].by BY <3>1 DEF LetIn
        <4>2. CASE x = invite
          BY <2>1, <2>5, <2>6, <2>8, <4>1, <4>2 DEF LetIn, before
        <4>3. CASE x # invite
          <5>1. x \in old BY <4>3 DEF old
          <5>2. QED BY <2>6, <2>7, <2>8, <4>1, <5>1 DEF LetIn
        <4>4. QED BY <4>2, <4>3
      <3>2. ASSUME NEW w \in UserIds, NEW v \in UserIds \ {w}, role'[v][w] # "none",
                   ~(v = u /\ w = invite.org)
            PROVE  role[v][w] # "none"
        <4>1. w \in Orgs BY Constants
        <4> HIDE DEF u
        <4>2. QED BY <1>0, <2>1, <3>2, <4>1
      <3>3. ASSUME NEW v, v = u PROVE LetIn(v, invite.org)'
        <4>1. now \in invitations' /\ v \in uses'[now.id].by BY <2>5, <2>6, <2>8, <3>3
        <4>2. QED BY <2>5, <4>1 DEF LetIn
      <3>4. ASSUME NEW w \in UserIds, NEW v \in UserIds \ {w}, role'[v][w] # "none"
            PROVE  LetIn(v, w)'
        <4>1. CASE v = u /\ w = invite.org BY <3>3, <4>1
        <4>2. CASE ~(v = u /\ w = invite.org)
          <5>1. LetIn(v, w) BY <3>2, <3>4, <4>2 DEF Offered, NoStrangers
          <5>2. QED BY <3>1, <5>1
        <4>3. QED BY <4>1, <4>2
      <3>5. QED BY <3>4 DEF NoStrangers
    <2>15. QED BY <2>10, <2>11, <2>12, <2>13, <2>14 DEF Offered
  <1>3. QED BY <1>1, <1>2 DEF Accept

LEMMA OfferedStep == Typed /\ Offered /\ [Next]_vars => Offered'
  <1> SUFFICES ASSUME Typed, Offered, [Next]_vars PROVE Offered'
    OBVIOUS
  <1>1. ASSUME NEW s \in Slots, Fails(s) PROVE Offered'
    <2>1. Idle.at # "accepting" BY DEF Idle
    <2>2. NobodyEnters /\ UNCHANGED <<invitations, uses>> /\ users \subseteq users'
      BY <1>1 DEF Fails, NobodyEnters, accounts, offers
    <2>3. QED BY <1>1, <2>1, <2>2, OffersKept DEF Fails
  <1>2. CASE UNCHANGED <<users, role, invitations, uses, slot>>
    BY <1>2 DEF Offered, UniqueInvitations, FreshUnused, InvitesHeld, Reads, UsedOnce, Addressed,
                AreSame, NoStrangers, LetIn
  <1>3. ASSUME NEW i \in InviteIds, Expire(i) PROVE Offered'
    BY <1>2, <1>3 DEF Expire, accounts
  <1>4. CASE UNCHANGED vars BY <1>2, <1>4 DEF vars, accounts, offers
  <1>5. QED
    BY <1>1, <1>3, <1>4, OfferedLink, OfferedRegister, OfferedManage, OfferedAccept DEF Next

\* An invitation lets its addressee in, once, and a workspace has no other members than
\* its founder and those: because whoever accepts has locked an invitation that is open,
\* and ids are not used twice.
THEOREM InvitationsAreUsedOnce == Spec => []InvitationsAdmitOnce
  <1>1. Offered => InvitationsAdmitOnce
    <2> SUFFICES ASSUME Offered PROVE InvitationsAdmitOnce
      OBVIOUS
    <2>1. UsedOnce /\ NoStrangers BY DEF Offered
    <2>2. QED BY <2>1 DEF UsedOnce, Addressed, NoStrangers, LetIn, InvitationsAdmitOnce
  <1>2. QED BY <1>1, TypedInit, TypedStep, OfferedInit, OfferedStep, PTL DEF Spec
=============================================================================
