----------------------------- MODULE PageProofs -----------------------------
(***************************************************************************)
(* Proofs about what the pages keep: the roles of the staff (StaffRoles),  *)
(* the codes of their authenticators (StaffSignIn), the accounts of        *)
(* customers (CustomerAccounts) and the variants of a product              *)
(* (VariantBuilder), for any number of them.                               *)
(***************************************************************************)
EXTENDS StaffRoles, StaffSignIn, CustomerAccounts, VariantBuilder, TotalsProofs,
        SequenceTheorems, TLAPS

-----------------------------------------------------------------------------
(* Roles *)

Role == [name : SystemNames \cup OtherNames, grants : SUBSET Permissions]

SaveRow == [next : {"remove", "add"}, user : Staff, role : RoleGroups, found : SUBSET Groups]

\* A save under way: the role it gives is one; a save nothing has overlapped has found
\* the roles there are, is the only one of its user, and has taken them off when it
\* comes to add.
SaveInv(f) ==
    /\ form[f] = NoSave => f \notin alone
    /\ form[f] # NoSave =>
        /\ form[f] \in SaveRow
        /\ f \in alone =>
              /\ \A x \in Saving(form[f].user) : x = f
              /\ form[f].next = "remove" => groups[form[f].user] \subseteq form[f].found
              /\ form[f].next = "add" => groups[form[f].user] = {}
        /\ form[f].user \in sound => f \in alone

\* A user whose last save was undisturbed.
UserInv(u) ==
    /\ groups[u] \subseteq RoleGroups
    /\ u \in sound => \A g, h \in groups[u] : g = h
    /\ u \in sound /\ Saving(u) = {} => groups[u] # {}

RowsInv ==
    /\ role \in [Groups -> Role \cup {NoRole}]
    /\ \A g, h \in Groups : role[g] # NoRole /\ role[g].name = role[h].name => g = h
    /\ \A g \in Groups : role[g].name = "Admin" => role[g].grants = Permissions

PagesType == groups \in [Staff -> SUBSET Groups] /\ DOMAIN form = Forms /\ alone \subseteq Forms
             /\ sound \subseteq Staff

\* Inductive: a role never stops being one, whoever has it.
RoleInv ==
    /\ RowsInv
    /\ PagesType
    /\ \A f \in Forms : SaveInv(f)
    /\ \A u \in Staff : UserInv(u)

\* A group of the name "none" is no role, and a role is a row.
LEMMA RolesAreRows ==
    ASSUME RoleInv, NEW g \in Groups
    PROVE  /\ role[g].name \in SystemNames \cup OtherNames \/ role[g] = NoRole
           /\ g \in RoleGroups => role[g] \in Role /\ role[g] # NoRole
BY RolesAssumption DEF RoleInv, RowsInv, RoleGroups, IsSystem, NoRole, Role

\* What the page of one group does to the roles: the group gets a row with a name no
\* other group has, and a role stays a role.
Replaces(g, row) ==
    /\ role' = [role EXCEPT ![g] = row]
    /\ row \in Role
    /\ \A h \in Groups : role[h].name = row.name => h = g
    /\ row.name = "Admin" => row.grants = Permissions
    /\ g \in RoleGroups => row.name \in SystemNames \/ row.grants # {}

LEMMA ReplacesKeepsInv ==
    ASSUME RoleInv, NEW g \in Groups, NEW row, Replaces(g, row), UNCHANGED <<groups, form, alone, sound>>
    PROVE  RoleInv'
<1>1. /\ role \in [Groups -> Role \cup {NoRole}] /\ row \in Role
      /\ role'[g] = row /\ \A h \in Groups : h # g => role'[h] = role[h]
  BY DEF RoleInv, RowsInv, Replaces
<1>2. RowsInv'
  <2>1. role' \in [Groups -> Role \cup {NoRole}]
    BY <1>1 DEF Replaces
  <2>2. ASSUME NEW a \in Groups, NEW b \in Groups, role'[a] # NoRole, role'[a].name = role'[b].name
        PROVE  a = b
    BY <1>1, <2>2 DEF RoleInv, RowsInv, Replaces
  <2>3. \A a \in Groups : role'[a].name = "Admin" => role'[a].grants = Permissions
    BY <1>1 DEF RoleInv, RowsInv, Replaces
  <2> QED
    BY <2>1, <2>2, <2>3 DEF RowsInv
<1>3. RoleGroups \subseteq RoleGroups'
  BY <1>1 DEF RoleGroups, IsSystem, Replaces
<1>4. ASSUME NEW f \in Forms PROVE SaveInv(f)'
  <2>1. SaveInv(f)
    BY DEF RoleInv
  <2> QED
    BY <1>3, <2>1 DEF SaveInv, SaveRow, Saving
<1>5. ASSUME NEW u \in Staff PROVE UserInv(u)'
  <2>1. UserInv(u)
    BY DEF RoleInv
  <2> QED
    BY <1>3, <2>1 DEF UserInv, Saving
<1> QED
  BY <1>2, <1>4, <1>5 DEF RoleInv, PagesType

\* Saves that leave the roles alone keep them roles.
LEMMA SamePages ==
    ASSUME RoleInv, role' = role
    PROVE  RowsInv' /\ RoleGroups' = RoleGroups
BY DEF RoleInv, RowsInv, RoleGroups, IsSystem

LEMMA OpenKeepsInv ==
    ASSUME RoleInv, NEW f \in Forms, NEW u \in Staff, NEW g \in Groups, OpenSave(f, u, g)
    PROVE  RoleInv'
<1>1. /\ form[f] = NoSave /\ g \in RoleGroups /\ role' = role /\ groups' = groups
      /\ alone' = IF Saving(u) = {} THEN alone \cup {f} ELSE alone \ Saving(u)
      /\ sound' = IF Saving(u) = {} THEN sound ELSE sound \ {u}
  BY DEF OpenSave
<1> DEFINE row == [next |-> "remove", user |-> u, role |-> g, found |-> groups[u] \cap RoleGroups]
<1>2. DOMAIN form' = Forms /\ form'[f] = row /\ \A x \in Forms \ {f} : form'[x] = form[x]
  BY DEF OpenSave, RoleInv, PagesType
<1>row. /\ row # NoSave /\ row.next = "remove" /\ row.user = u /\ row.found = groups[u] \cap RoleGroups
      /\ row \in SaveRow
  BY <1>1 DEF NoSave, RoleGroups, SaveRow
<1> HIDE DEF row
<1>3. RowsInv' /\ RoleGroups' = RoleGroups
  BY <1>1, SamePages
<1>4. PagesType'
  BY <1>1, <1>2 DEF RoleInv, PagesType
<1>8. f \notin Saving(u) /\ \A v : Saving(v)' = IF v = u THEN Saving(v) \cup {f} ELSE Saving(v)
  BY <1>row, <1>1, <1>2 DEF Saving
<1>5. ASSUME NEW x \in Forms PROVE SaveInv(x)'
  <2>1. SaveInv(x) /\ UserInv(u) /\ (x \in Saving(u) <=> form[x] # NoSave /\ form[x].user = u)
    BY DEF RoleInv, Saving
  <2>2. CASE x = f
    <3>1. groups[u] \subseteq row.found
      BY <1>row, <2>1 DEF UserInv
    <3>2. f \in alone' <=> Saving(u) = {}
      BY <1>1, <2>1, <2>2 DEF SaveInv, SaveRow
    <3> QED
      BY <1>row, <1>1, <1>2, <1>3, <1>8, <2>2, <3>1, <3>2 DEF SaveInv, SaveRow
  <2>3. CASE x \in Saving(u)
    <3>1. x # f /\ x \notin alone' /\ u \notin sound'
      BY <1>1, <1>8, <2>3
    <3>2. form'[x] = form[x] /\ form[x] # NoSave /\ form[x].user = u
      BY <1>2, <2>1, <2>3, <3>1
    <3>3. form'[x] \in SaveRow'
      BY <1>3, <2>1, <3>2 DEF SaveInv, SaveRow
    <3>4. form'[x] # NoSave /\ form'[x].user \notin sound'
      BY <3>1, <3>2
    <3> QED
      <4>1. form'[x] = NoSave => x \notin alone'
        BY <3>4
      <4>2. x \in alone' => FALSE
        BY <3>1
      <4>3. form'[x].user \in sound' => x \in alone'
        BY <3>4
      <4> QED
        BY <3>3, <4>1, <4>2, <4>3 DEF SaveInv
  <2>4. CASE x # f /\ x \notin Saving(u)
    <3>1. x \in alone' <=> x \in alone
      BY <1>1, <2>4
    <3>2. \A v : v # u => Saving(v)' = Saving(v)
      BY <1>8
    <3>4. form[x] # NoSave => form[x].user # u
      BY <2>1, <2>4
    <3>3. \A v \in Staff : v # u => (v \in sound' <=> v \in sound)
      BY <1>1
    <3> QED
      BY <1>1, <1>2, <1>3, <2>1, <2>4, <3>1, <3>2, <3>3, <3>4 DEF SaveInv, SaveRow
  <2> QED
    BY <2>2, <2>3, <2>4
<1>6. ASSUME NEW v \in Staff PROVE UserInv(v)'
  <2>1. UserInv(v)
    BY DEF RoleInv
  <2>2. v \in sound' => v \in sound
    BY <1>1
  <2>3. v \in sound' /\ Saving(v)' = {} => Saving(v) = {}
    BY <1>8
  <2> QED
    BY <1>1, <1>3, <2>1, <2>2, <2>3 DEF UserInv
<1> QED
  BY <1>3, <1>4, <1>5, <1>6 DEF RoleInv

LEMMA RemoveKeepsInv ==
    ASSUME RoleInv, NEW f \in Forms, RemoveRoles(f)
    PROVE  RoleInv'
<1>1. form[f] # NoSave /\ form[f].next = "remove" /\ role' = role /\ sound' = sound
      /\ alone' = alone
  BY DEF RemoveRoles, NoSave
<1> DEFINE u == form[f].user
<1>2. u \in Staff /\ SaveInv(f)
  BY <1>1 DEF RoleInv, SaveInv, SaveRow
<1>3. groups' = [groups EXCEPT ![u] = @ \ form[f].found]
  BY DEF RemoveRoles
<1>4. form' = [form EXCEPT ![f].next = "add"]
  BY DEF RemoveRoles
<1>5. groups' \in [Staff -> SUBSET Groups] /\ groups'[u] = groups[u] \ form[f].found
      /\ \A v \in Staff \ {u} : groups'[v] = groups[v]
  BY <1>2, <1>3 DEF RoleInv, PagesType
<1>row. DOMAIN form' = Forms /\ form'[f] = [form[f] EXCEPT !.next = "add"]
      /\ \A x \in Forms \ {f} : form'[x] = form[x]
  BY <1>4 DEF RoleInv, PagesType
<1>6. /\ form'[f] \in SaveRow
      /\ form'[f] # NoSave /\ form'[f].next = "add" /\ form'[f].user = form[f].user
  <2>1. form[f] \in SaveRow
    BY <1>1, <1>2 DEF SaveInv, SaveRow
  <2> QED
    BY <1>row, <2>1 DEF NoSave, SaveRow
<1>7. RowsInv' /\ RoleGroups' = RoleGroups
  BY <1>1, SamePages
<1>8. \A v : Saving(v)' = Saving(v)
  BY <1>row, <1>1, <1>6 DEF Saving
<1> HIDE DEF u
<1>9. ASSUME NEW x \in Forms PROVE SaveInv(x)'
  <2>1. SaveInv(x)
    BY DEF RoleInv
  <2>2. CASE x = f
    BY <1>1, <1>2, <1>5, <1>6, <1>7, <1>8, <2>2 DEF SaveInv, SaveRow, u
  <2>3. CASE x # f
    <3>1. form[x] # NoSave /\ x \in alone => form[x].user # u
      BY <1>1, <2>1, <2>3 DEF SaveInv, SaveRow, Saving, u
    <3> QED
      BY <1>row, <1>1, <1>5, <1>7, <1>8, <2>1, <2>3, <3>1 DEF SaveInv, SaveRow
  <2> QED
    BY <2>2, <2>3
<1>10. ASSUME NEW v \in Staff PROVE UserInv(v)'
  <2>1. UserInv(v)
    BY DEF RoleInv
  <2>2. f \in Saving(u)
    BY <1>1 DEF Saving, u
  <2> QED
    BY <1>1, <1>5, <1>7, <1>8, <2>1, <2>2 DEF UserInv
<1> QED
  BY <1>row, <1>1, <1>5, <1>7, <1>9, <1>10 DEF RoleInv, PagesType

LEMMA AssignKeepsInv ==
    ASSUME RoleInv, NEW f \in Forms, AssignRole(f)
    PROVE  RoleInv'
<1>1. form[f] # NoSave /\ form[f].next = "add" /\ role' = role
  BY DEF AssignRole, NoSave
<1> DEFINE u == form[f].user
           g == form[f].role
<1>2. u \in Staff /\ SaveInv(f) /\ g \in RoleGroups /\ g \in Groups
  BY <1>1 DEF RoleInv, SaveInv, SaveRow, RoleGroups
<1>3. /\ groups' = [groups EXCEPT ![u] = @ \cup {g}]
      /\ form' = [form EXCEPT ![f] = NoSave]
      /\ sound' = (IF f \in alone THEN sound \cup {u} ELSE sound) /\ alone' = alone \ {f}
  BY DEF AssignRole
<1>5. groups' \in [Staff -> SUBSET Groups] /\ groups'[u] = groups[u] \cup {g}
      /\ \A v \in Staff \ {u} : groups'[v] = groups[v]
  BY <1>2, <1>3 DEF RoleInv, PagesType
<1>6. DOMAIN form' = Forms /\ form'[f] = NoSave /\ \A x \in Forms \ {f} : form'[x] = form[x]
  BY <1>3 DEF RoleInv, PagesType
<1>7. RowsInv' /\ RoleGroups' = RoleGroups
  BY <1>1, SamePages
<1>8. \A v : Saving(v)' = Saving(v) \ {f}
  BY <1>6 DEF Saving
<1>9. f \in alone => groups'[u] = {g}
  BY <1>1, <1>2, <1>5 DEF SaveInv, SaveRow
<1>10. f \notin alone => u \notin sound
  BY <1>1, <1>2 DEF SaveInv, SaveRow
<1>11. sound' \subseteq Staff
  BY <1>2, <1>3 DEF RoleInv, PagesType
<1> HIDE DEF u, g
<1>12. ASSUME NEW x \in Forms PROVE SaveInv(x)'
  <2>1. SaveInv(x)
    BY DEF RoleInv
  <2>2. CASE x = f
    BY <1>3, <1>6, <2>2 DEF SaveInv, SaveRow
  <2>3. CASE x # f
    <3>1. form[x] # NoSave /\ form[x].user = u => x \notin alone /\ f \notin alone
      BY <1>1, <1>2, <2>1, <2>3 DEF SaveInv, SaveRow, Saving, u
    <3>2. form[x] # NoSave => (form[x].user \in sound' => x \in alone)
      BY <1>3, <1>10, <2>1, <3>1 DEF SaveInv, SaveRow
    <3> QED
      BY <1>3, <1>5, <1>6, <1>7, <1>8, <2>1, <2>3, <3>1, <3>2 DEF SaveInv, SaveRow
  <2> QED
    BY <2>2, <2>3
<1>13. ASSUME NEW v \in Staff PROVE UserInv(v)'
  <2>1. UserInv(v)
    BY DEF RoleInv
  <2>2. CASE v = u
    BY <1>2, <1>3, <1>5, <1>7, <1>9, <1>10, <2>1, <2>2 DEF UserInv
  <2>3. CASE v # u
    <3>1. Saving(v)' = Saving(v)
      BY <1>8, <2>3 DEF Saving, u
    <3> QED
      BY <1>3, <1>5, <1>7, <2>1, <2>3, <3>1 DEF UserInv
  <2> QED
    BY <2>2, <2>3
<1> QED
  BY <1>3, <1>5, <1>6, <1>7, <1>11, <1>12, <1>13 DEF RoleInv, PagesType

LEMMA BreakKeepsInv ==
    ASSUME RoleInv, NEW f \in Forms, BreakOff(f)
    PROVE  RoleInv'
<1>1. /\ form[f] # NoSave /\ role' = role /\ groups' = groups
      /\ form' = [form EXCEPT ![f] = NoSave] /\ sound' = sound \ {form[f].user}
      /\ alone' = alone \ {f}
  BY DEF BreakOff
<1>2. DOMAIN form' = Forms /\ form'[f] = NoSave /\ \A x \in Forms \ {f} : form'[x] = form[x]
  BY <1>1 DEF RoleInv, PagesType
<1>3. RowsInv' /\ RoleGroups' = RoleGroups
  BY <1>1, SamePages
<1>4. \A v : Saving(v)' = Saving(v) \ {f}
  BY <1>2 DEF Saving
<1>5. ASSUME NEW x \in Forms PROVE SaveInv(x)'
  <2>1. SaveInv(x)
    BY DEF RoleInv
  <2>2. CASE x = f
    BY <1>1, <1>2, <2>2 DEF SaveInv, SaveRow
  <2>3. CASE x # f
    BY <1>1, <1>2, <1>3, <1>4, <2>1, <2>3 DEF SaveInv, SaveRow
  <2> QED
    BY <2>2, <2>3
<1>6. ASSUME NEW v \in Staff PROVE UserInv(v)'
  <2>1. UserInv(v)
    BY DEF RoleInv
  <2>2. v \in sound' => Saving(v)' = Saving(v)
    BY <1>1, <1>4 DEF Saving
  <2> QED
    BY <1>1, <1>3, <2>1, <2>2 DEF UserInv
<1> QED
  BY <1>1, <1>2, <1>3, <1>5, <1>6 DEF RoleInv, PagesType

LEMMA RoleNextInv == RoleInv /\ [RoleNext]_roleVars => RoleInv'
<1> SUFFICES ASSUME RoleInv, [RoleNext]_roleVars PROVE RoleInv'
  OBVIOUS
<1> USE RolesAssumption
<1>1. ASSUME NEW n \in SystemNames, NEW g \in Groups, SyncRole(n, g) PROVE RoleInv'
  <2> DEFINE row == [name |-> n, grants |-> RoleDefault[n]]
  <2>1. row \in Role /\ (row.name = "Admin" => row.grants = Permissions)
    BY DEF Role
  <2>2. \A h \in Groups : role[h].name = row.name => h = g
    <3>1. CASE Named(n) = {}
      BY <3>1 DEF Named
    <3>2. CASE Named(n) # {}
      <4>1. g \in Named(n)
        BY <1>1, <3>2 DEF SyncRole
      <4> QED
        BY <4>1 DEF Named, RoleInv, RowsInv, NoRole
    <3> QED
      BY <3>1, <3>2
  <2>3. Replaces(g, row) /\ UNCHANGED <<groups, form, alone, sound>>
    BY <1>1, <2>1, <2>2 DEF SyncRole, Replaces
  <2> HIDE DEF row
  <2> QED
    BY <2>3, ReplacesKeepsInv
<1>2. ASSUME NEW g \in Groups, NEW n \in SystemNames \cup OtherNames, NEW grants \in SUBSET Permissions,
             Migrated, AddRole(g, n, grants)
      PROVE  RoleInv'
  <2> DEFINE row == [name |-> n, grants |-> grants]
  <2>1. row \in Role /\ row.name # "Admin" /\ row.grants # {}
    BY <1>2 DEF Role, AddRole, Migrated
  <2>2. \A h \in Groups : role[h].name = row.name => h = g
    BY <1>2 DEF AddRole, Named
  <2>3. Replaces(g, row) /\ UNCHANGED <<groups, form, alone, sound>>
    BY <1>2, <2>1, <2>2 DEF AddRole, Replaces
  <2> HIDE DEF row
  <2> QED
    BY <2>3, ReplacesKeepsInv
<1>3. ASSUME NEW g \in Groups, NEW n \in SystemNames \cup OtherNames, NEW grants \in SUBSET Permissions,
             Migrated, EditRole(g, n, grants)
      PROVE  RoleInv'
  <2> DEFINE row == [name |-> n, grants |-> grants]
  <2>0. role[g] # NoRole /\ role[g].name # "Admin"
    BY <1>3, RolesAreRows DEF EditRole
  <2>1. \A h \in Groups : role[h].name = row.name => h = g
    <3>1. CASE IsSystem(g)
      BY <1>3, <2>0, <3>1 DEF EditRole, MayRename, RoleInv, RowsInv
    <3>2. CASE ~IsSystem(g)
      BY <1>3, <3>2 DEF EditRole, MayRename, Named
    <3> QED
      BY <3>1, <3>2
  <2>2. row \in Role
    BY DEF Role
  <2>3. row.name # "Admin"
    <3>1. PICK h \in Groups : role[h].name = "Admin"
      BY <1>3 DEF Migrated, Named
    <3> QED
      BY <2>0, <2>1, <3>1
  <2>4. row.name \in SystemNames \/ row.grants # {}
    BY <1>3 DEF EditRole, MayGrant, MayRename, IsSystem
  <2>5. Replaces(g, row) /\ UNCHANGED <<groups, form, alone, sound>>
    BY <1>3, <2>1, <2>2, <2>3, <2>4 DEF EditRole, Replaces
  <2> HIDE DEF row
  <2> QED
    BY <2>5, ReplacesKeepsInv
<1>4. ASSUME NEW f \in Forms, NEW u \in Staff, NEW g \in Groups, OpenSave(f, u, g) PROVE RoleInv'
  BY <1>4, OpenKeepsInv
<1>5. ASSUME NEW f \in Forms, RemoveRoles(f) \/ AssignRole(f) \/ BreakOff(f) PROVE RoleInv'
  BY <1>5, RemoveKeepsInv, AssignKeepsInv, BreakKeepsInv
<1>6. CASE UNCHANGED roleVars
  <2>1. role' = role /\ groups' = groups /\ form' = form /\ alone' = alone
        /\ sound' = sound
    BY <1>6 DEF roleVars
  <2>2. RowsInv' /\ RoleGroups' = RoleGroups
    BY <2>1, SamePages
  <2>3. PagesType' /\ (\A f \in Forms : SaveInv(f)') /\ \A u \in Staff : UserInv(u)'
    BY <2>1, <2>2 DEF RoleInv, PagesType, SaveInv, SaveRow, UserInv, Saving
  <2> QED
    BY <2>2, <2>3 DEF RoleInv
<1> QED
  BY <1>1, <1>2, <1>3, <1>4, <1>5, <1>6 DEF RoleNext, RolePages, UserPages

\* "Assign exactly one TechBari staff role" (staff_access/services.py:49), for any
\* roles, users and requests: a save that runs alone to its end leaves one role,
\* whatever it found, and the user keeps to one until saves overlap or break off.
THEOREM EveryoneHasOneRole == RoleSpec => []OneRoleEach
<1>1. RoleInit => RoleInv
  <2> SUFFICES ASSUME RoleInit PROVE RoleInv
    OBVIOUS
  <2>1. RowsInv
    BY RolesAssumption DEF RoleInit, RowsInv, NoRole
  <2>2. PagesType
    BY DEF RoleInit, PagesType
  <2>3. (\A f \in Forms : SaveInv(f)) /\ \A u \in Staff : UserInv(u)
    BY DEF RoleInit, SaveInv, UserInv
  <2> QED
    BY <2>1, <2>2, <2>3 DEF RoleInv
<1>2. RoleInv => OneRoleEach
  BY DEF OneRoleEach, RoleInv, RowsInv, UserInv, Named
<1> QED
  BY <1>1, <1>2, RoleNextInv, PTL DEF RoleSpec

-----------------------------------------------------------------------------
(* Authenticator codes *)

Device ==
    {NoDevice, Pending} \cup [status : {"enabled"}, last : Periods, recovery : SUBSET RecoveryCodes]

Codes == Periods \cup RecoveryCodes

\* What an enabled device no longer takes: codes up to its last period and the recovery
\* codes it has struck off.
Taken(d) == {n \in Periods : n <= d.last} \cup (RecoveryCodes \ d.recovery)

\* How often codes were accepted since the secret of d was made.
Counts(d, times) ==
    /\ times \in [Codes -> {0, 1}]
    /\ d = Pending => \A x \in Codes : times[x] = 0
    /\ d.status = "enabled" => \A x \in Codes \ Taken(d) : times[x] = 0

Session == [user : People \cup {Nobody}, preauth : People \cup {Nobody},
            verified : BOOLEAN, reauth : BOOLEAN]

\* Inductive: a code that was accepted is one the device does not take any more.
SignInInv ==
    /\ device \in [People -> Device]
    /\ session \in [Browsers -> Session]
    /\ DOMAIN accepted = People
    /\ \A u \in People : Counts(device[u], accepted[u])

\* A code that an enabled device takes is struck off by taking it.
LEMMA TakingStrikesOff ==
    ASSUME NEW d \in Device, d.status = "enabled", NEW times, Counts(d, times),
           NEW x \in Codes \ Taken(d)
    PROVE  Struck(d, x) \in Device /\ Counts(Struck(d, x), [times EXCEPT ![x] = @ + 1])
<1> DEFINE e == Struck(d, x)
<1>1. d \in [status : {"enabled"}, last : Periods, recovery : SUBSET RecoveryCodes]
  BY DEF Device, NoDevice, Pending
<1>2. e \in [status : {"enabled"}, last : Periods, recovery : SUBSET RecoveryCodes]
  BY <1>1 DEF Struck
<1>3. Taken(d) \cup {x} \subseteq Taken(e)
  <2>1. CASE x \in Periods
    <3>1. x > d.last /\ e.last = x /\ e.recovery = d.recovery /\ d.last \in Int
      BY <1>1, <2>1, SignInAssumption DEF Taken, Periods, Struck
    <3> QED
      BY <2>1, <3>1 DEF Taken, Periods
  <2>2. CASE x \notin Periods
    <3>1. x \in RecoveryCodes /\ e.recovery = d.recovery \ {x} /\ e.last = d.last
      BY <1>1, <2>2 DEF Codes, Struck
    <3> QED
      BY <3>1 DEF Taken
  <2> QED
    BY <2>1, <2>2
<1> HIDE DEF e
<1>4. times \in [Codes -> {0, 1}] /\ \A y \in Codes \ Taken(d) : times[y] = 0
  BY DEF Counts
<1>5. [times EXCEPT ![x] = @ + 1] \in [Codes -> {0, 1}]
  BY <1>4
<1>6. \A y \in Codes \ Taken(e) : [times EXCEPT ![x] = @ + 1][y] = 0
  BY <1>3, <1>4
<1> QED
  BY <1>2, <1>5, <1>6 DEF Counts, Device, Pending, NoDevice, e

\* The steps that accept no code.
LEMMA OthersKeepCounts ==
    ASSUME SignInInv, session' \in [Browsers -> Session], UNCHANGED <<device, accepted>>
    PROVE  SignInInv'
BY DEF SignInInv

LEMMA SignInNextInv == SignInInv /\ [SignInNext]_signInVars => SignInInv'
<1> SUFFICES ASSUME SignInInv, [SignInNext]_signInVars PROVE SignInInv'
  OBVIOUS
<1>0. /\ device \in [People -> Device] /\ session \in [Browsers -> Session]
      /\ DOMAIN accepted = People
      /\ \A u \in People : Counts(device[u], accepted[u])
  BY DEF SignInInv
<1>a. Anonymous \in Session
  BY DEF Anonymous, Session
<1>b. \A b \in Browsers : /\ session[b] \in Session
                          /\ On(b) \in People \cup {Nobody}
                          /\ session[b].preauth \in People \cup {Nobody}
  BY <1>0 DEF On, Session
<1>1. ASSUME NEW b \in Browsers, NEW u \in People, SignIn(b, u) PROVE SignInInv'
  <2>1. [session[b] EXCEPT !.preauth = u] \in Session /\ [Renewed(b) EXCEPT !.user = u] \in Session
    BY <1>a, <1>b DEF Session, Renewed, Anonymous
  <2>2. session' \in [Browsers -> Session]
    BY <1>0, <1>1, <2>1 DEF SignIn
  <2> QED
    BY <1>1, <2>2, OthersKeepCounts DEF SignIn
<1>2. ASSUME NEW b \in Browsers, NEW x \in Periods \cup RecoveryCodes, Challenge(b, x) PROVE SignInInv'
  <2> DEFINE u == session[b].preauth
  <2>1. u \in People /\ Enabled(u) /\ x \in Acceptable(u) /\ Spent(u, x) /\ Counted(u, x)
    BY <1>2, <1>b DEF Challenge
  <2>2. session' \in [Browsers -> Session]
    <3>1. [Anonymous EXCEPT !.user = u, !.verified = TRUE] \in Session
      BY <2>1 DEF Session, Anonymous
    <3> QED
      BY <1>0, <1>2, <3>1 DEF Challenge
  <2> HIDE DEF u
  <2>3. device[u] \in Device /\ device[u].status = "enabled" /\ Counts(device[u], accepted[u])
    BY <1>0, <2>1 DEF Enabled
  <2>4. x \in Codes \ Taken(device[u])
    <3>1. device[u] \in [status : {"enabled"}, last : Periods, recovery : SUBSET RecoveryCodes]
      BY <2>3 DEF Device, NoDevice, Pending
    <3>2. CASE x \in Periods
      <4>1. x \notin RecoveryCodes /\ x > device[u].last /\ device[u].last \in Int /\ x \in Int
        BY <2>1, <3>1, <3>2, SignInAssumption DEF Acceptable, Periods
      <4> QED
        BY <3>2, <4>1 DEF Taken, Codes
    <3>3. CASE x \notin Periods
      BY <2>1, <3>3 DEF Acceptable, Matching, Taken, Codes
    <3> QED
      BY <3>2, <3>3
  <2>5. /\ DOMAIN accepted' = People
        /\ \A v \in People : v # u => device'[v] = device[v] /\ accepted'[v] = accepted[v]
    <3>1. DOMAIN accepted' = People /\ \A v \in People : v # u => accepted'[v] = accepted[v]
      BY <1>0, <2>1 DEF Counted
    <3>2. \A v \in People : v # u => device'[v] = device[v]
      BY <1>0, <2>1 DEF Spent
    <3> QED
      BY <3>1, <3>2
  <2>6. /\ device'[u] = Struck(device[u], x)
        /\ accepted'[u] = [accepted[u] EXCEPT ![x] = @ + 1]
    <3>1. accepted'[u] = [accepted[u] EXCEPT ![x] = @ + 1]
      BY <1>0, <2>1 DEF Counted
    <3>2. device'[u] = Struck(device[u], x)
      BY <1>0, <2>1 DEF Spent
    <3> QED
      BY <3>1, <3>2
  <2>7. device'[u] \in Device /\ Counts(device'[u], accepted'[u])
    BY <2>3, <2>4, <2>6, TakingStrikesOff
  <2>8. device' \in [People -> Device]
    BY <1>0, <2>1, <2>6, <2>7 DEF Spent
  <2> QED
    BY <1>0, <2>1, <2>2, <2>5, <2>7, <2>8 DEF SignInInv
<1>3. ASSUME NEW b \in Browsers, ForgetPreauth(b) \/ ForgetReauth(b) \/ SignOut(b) PROVE SignInInv'
  <2>1. /\ [session[b] EXCEPT !.preauth = Nobody] \in Session
        /\ [session[b] EXCEPT !.reauth = FALSE] \in Session
    BY <1>b DEF Session
  <2>2. session' \in [Browsers -> Session]
    BY <1>0, <1>a, <1>3, <2>1 DEF ForgetPreauth, ForgetReauth, SignOut
  <2> QED
    BY <1>3, <2>2, OthersKeepCounts DEF ForgetPreauth, ForgetReauth, SignOut
<1>4. ASSUME NEW b \in Browsers, Reauthenticate(b) PROVE SignInInv'
  <2> DEFINE u == On(b)
  <2>1. u \in People /\ ~Enabled(u)
    BY <1>4, <1>b DEF Reauthenticate, Admitted, Verified, SignedOn
  <2>2. session' \in [Browsers -> Session]
    <3>1. [session[b] EXCEPT !.reauth = TRUE] \in Session
      BY <1>b DEF Session
    <3> QED
      BY <1>0, <1>4, <3>1 DEF Reauthenticate
  <2>3. /\ device' = [device EXCEPT ![u] = Pending]
        /\ accepted' = [accepted EXCEPT ![u] = IF device[u] = NoDevice THEN Unused ELSE @]
    BY <1>4 DEF Reauthenticate
  <2> HIDE DEF u
  <2>4. device[u] = NoDevice \/ device[u] = Pending
    BY <1>0, <2>1 DEF Enabled, Device
  <2>5. Counts(Pending, accepted'[u])
    <3>1. CASE device[u] = NoDevice
      BY <1>0, <2>1, <2>3, <3>1 DEF Counts, Unused, Codes, Pending, NoDevice
    <3>2. CASE device[u] # NoDevice
      BY <1>0, <2>1, <2>3, <2>4, <3>2
    <3> QED
      BY <3>1, <3>2
  <2>6. device' \in [People -> Device] /\ DOMAIN accepted' = People
    BY <1>0, <2>3 DEF Device
  <2>7. \A v \in People : Counts(device'[v], accepted'[v])
    BY <1>0, <2>1, <2>3, <2>5
  <2> QED
    BY <2>2, <2>6, <2>7 DEF SignInInv
<1>5. ASSUME NEW b \in Browsers, NEW n \in Periods, Enable(b, n) PROVE SignInInv'
  <2> DEFINE u == On(b)
  <2>1. u \in People /\ device[u] = Pending
    BY <1>5, <1>b DEF Enable, Admitted, Verified, SignedOn
  <2>2. session' \in [Browsers -> Session]
    <3>1. [session[b] EXCEPT !.reauth = FALSE, !.verified = TRUE] \in Session
      BY <1>b DEF Session
    <3> QED
      BY <1>0, <1>5, <3>1 DEF Enable
  <2>3. /\ device' = [device EXCEPT ![u] = EnabledAt(n)]
        /\ accepted' = [accepted EXCEPT ![u][n] = @ + 1]
    BY <1>5 DEF Enable, Counted
  <2> HIDE DEF u
  <2>4. EnabledAt(n) \in Device
    BY DEF EnabledAt, Device
  <2>5. accepted[u] \in [Codes -> {0, 1}] /\ \A x \in Codes : accepted[u][x] = 0
    BY <1>0, <2>1 DEF Counts
  <2>6. n \in Taken(EnabledAt(n)) /\ n \in Codes
    BY SignInAssumption DEF Taken, EnabledAt, Codes, Periods
  <2>7. Counts(EnabledAt(n), [accepted[u] EXCEPT ![n] = @ + 1])
    BY <2>5, <2>6 DEF Counts, EnabledAt, Pending, NoDevice
  <2>8. /\ accepted'[u] = [accepted[u] EXCEPT ![n] = @ + 1]
        /\ \A v \in People \ {u} : accepted'[v] = accepted[v]
    BY <1>0, <2>1, <2>3
  <2>9. device' \in [People -> Device] /\ DOMAIN accepted' = People
    BY <1>0, <2>3, <2>4
  <2>10. \A v \in People : Counts(device'[v], accepted'[v])
    BY <1>0, <2>1, <2>3, <2>7, <2>8
  <2> QED
    BY <2>2, <2>9, <2>10 DEF SignInInv
<1>6. ASSUME NEW b \in Browsers, ChangePassword(b) PROVE SignInInv'
  <2>1. session' \in [Browsers -> Session]
    BY <1>a, <1>b, <1>6 DEF ChangePassword
  <2> QED
    BY <1>6, <2>1, OthersKeepCounts DEF ChangePassword
<1>7. ASSUME NEW u \in People, NEW force \in BOOLEAN, SetPassword(u, force) PROVE SignInInv'
  <2>1. session' \in [Browsers -> Session]
    BY <1>a, <1>b, <1>7 DEF SetPassword
  <2> QED
    BY <1>7, <2>1, OthersKeepCounts DEF SetPassword
<1>8. ASSUME NEW u \in People, Toggle(u) PROVE SignInInv'
  BY <1>0, <1>8, OthersKeepCounts DEF Toggle
<1>9. ASSUME NEW u \in People, ResetMFA(u) PROVE SignInInv'
  <2>1. /\ device' = [device EXCEPT ![u] = NoDevice] /\ UNCHANGED <<session, accepted>>
    BY <1>9 DEF ResetMFA
  <2>2. Counts(NoDevice, accepted[u])
    BY <1>0 DEF Counts, NoDevice, Pending
  <2>3. device' \in [People -> Device]
    BY <1>0, <2>1 DEF Device
  <2>4. \A v \in People : Counts(device'[v], accepted'[v])
    BY <1>0, <2>1, <2>2
  <2> QED
    BY <1>0, <2>1, <2>3, <2>4 DEF SignInInv
<1>10. CASE Tick \/ UNCHANGED signInVars
  BY <1>0, <1>10, OthersKeepCounts DEF Tick, signInVars
<1>11. CASE SignInPages
  BY <1>1, <1>2, <1>3, <1>4, <1>5, <1>6, <1>11 DEF SignInPages
<1>12. CASE StaffPages
  BY <1>7, <1>8, <1>9, <1>12 DEF StaffPages
<1> QED
  BY <1>10, <1>11, <1>12 DEF SignInNext

\* "TOTP replay is blocked, recovery codes are one-time"
\* (SECURITY_GO_LIVE_REVIEW.md:22), for any people, browsers, codes and periods.
THEOREM NoCodeTwice == SignInSpec => []CodesTakenOnce
<1>1. SignInInit => SignInInv
  <2> SUFFICES ASSUME SignInInit PROVE SignInInv
    OBVIOUS
  <2>1. device \in [People -> Device] /\ DOMAIN accepted = People
    BY DEF SignInInit, Device
  <2>2. session \in [Browsers -> Session]
    BY DEF SignInInit, Session, Anonymous
  <2>3. Counts(NoDevice, Unused)
    BY DEF Counts, NoDevice, Pending, Unused, Codes
  <2> QED
    BY <2>1, <2>2, <2>3 DEF SignInInit, SignInInv
<1>2. SignInInv => CodesTakenOnce
  BY DEF SignInInv, Counts, CodesTakenOnce
<1> QED
  BY <1>1, <1>2, SignInNextInv, PTL DEF SignInSpec

-----------------------------------------------------------------------------
(* Customers and their identities *)

Row == [phone : Phones, email : Addresses, active : BOOLEAN]

\* Inductive: a login has a customer, and a checkout that read an account has a login.
IdentityInv ==
    /\ crm \in [Customers -> Row \cup {NoCustomer}]
    /\ DOMAIN login = Customers
    /\ \A c, d \in Customers : crm[c] # NoCustomer /\ crm[c].phone = crm[d].phone => c = d
    /\ \A c, d \in Customers : crm[c].email # NoEmail /\ crm[c].email = crm[d].email => c = d
    /\ \A c \in Customers : HasLogin(c) => crm[c] # NoCustomer
    /\ \A c \in opened : c \in Customers => HasLogin(c)

\* A row is no missing customer, whose number is none.
LEMMA RowsAreCustomers ==
    ASSUME IdentityInv, NEW c \in Customers
    PROVE  /\ crm[c] # NoCustomer => crm[c] \in Row
           /\ crm[c].email \in Addresses
           /\ \A row \in Row : row # NoCustomer
BY AccountsAssumption DEF IdentityInv, Row, NoCustomer, Addresses

\* What every service that writes a customer has made sure of.
Writes(c, row) ==
    /\ crm' = [crm EXCEPT ![c] = row]
    /\ row \in Row
    /\ \A d \in Customers : crm[d] # NoCustomer /\ crm[d].phone = row.phone => d = c
    /\ row.email # NoEmail => \A d \in Customers : crm[d] # NoCustomer /\ crm[d].email = row.email => d = c

\* Logins only for customers that exist, and none disappears.
KeepsLogins ==
    /\ DOMAIN login' = Customers
    /\ \A d \in Customers : HasLogin(d) => HasLogin(d)'
    /\ \A d \in Customers : HasLogin(d)' => HasLogin(d) \/ crm'[d] # NoCustomer

LEMMA WritesKeepsInv ==
    ASSUME IdentityInv, NEW c \in Customers, NEW row, Writes(c, row), KeepsLogins, opened' \subseteq opened
    PROVE  IdentityInv'
<1>1. /\ crm \in [Customers -> Row \cup {NoCustomer}] /\ row \in Row
      /\ crm'[c] = row /\ \A d \in Customers : d # c => crm'[d] = crm[d]
  BY DEF IdentityInv, Writes
<1>2. crm' \in [Customers -> Row \cup {NoCustomer}]
  BY <1>1 DEF Writes
<1>3. row # NoCustomer /\ row.phone \in Phones /\ NoCustomer.phone \notin Phones /\ NoCustomer.email = NoEmail
  BY <1>1, AccountsAssumption DEF Row, NoCustomer
<1>4. ASSUME NEW a \in Customers, NEW b \in Customers, crm'[a] # NoCustomer, crm'[a].phone = crm'[b].phone
      PROVE  a = b
  BY <1>1, <1>3, <1>4 DEF IdentityInv, Writes, Row
<1>5. ASSUME NEW a \in Customers, NEW b \in Customers, crm'[a].email # NoEmail, crm'[a].email = crm'[b].email
      PROVE  a = b
  BY <1>1, <1>3, <1>5 DEF IdentityInv, Writes
<1>6. \A d \in Customers : HasLogin(d)' => crm'[d] # NoCustomer
  BY <1>1, <1>3 DEF IdentityInv, KeepsLogins
<1>7. \A d \in opened' : d \in Customers => HasLogin(d)'
  BY DEF IdentityInv, KeepsLogins
<1> QED
  BY <1>2, <1>4, <1>5, <1>6, <1>7 DEF IdentityInv, KeepsLogins
\* The steps that write no customer.
LEMMA SparesKeepInv ==
    ASSUME IdentityInv, UNCHANGED <<crm, login>>, \A c \in opened' : c \in opened \/ HasLogin(c)
    PROVE  IdentityInv'
BY DEF IdentityInv, HasLogin

\* The tests of a free number and a free address, on the rows.
LEMMA FreeIdentities ==
    ASSUME NEW c \in Customers, NEW row \in Row, crm' = [crm EXCEPT ![c] = row],
           PhoneOwners(row.phone) \subseteq {c}, EmailFree(row.email, c)
    PROVE  Writes(c, row)
BY DEF Writes, PhoneOwners, EmailFree, EmailOwners

LEMMA IdentityNextInv == IdentityInv /\ [AccountNext]_accountVars => IdentityInv'
<1> SUFFICES ASSUME IdentityInv, [AccountNext]_accountVars PROVE IdentityInv'
  OBVIOUS
<1> USE RowsAreCustomers
<1>0. /\ DOMAIN login = Customers
      /\ \A c \in Customers : crm[c] # NoCustomer <=> crm[c] \in Row
  BY DEF IdentityInv
<1>a. \A c \in Customers : SignedIn(c) => crm[c] \in Row
  BY <1>0 DEF SignedIn, IdentityInv
<1>b. \A c \in Customers : crm[c].active => crm[c] \in Row
  BY <1>0 DEF NoCustomer
<1>c. \A c \in Customers : crm[c] \in Row => PhoneOwners(crm[c].phone) \subseteq {c}
  BY <1>0 DEF IdentityInv, PhoneOwners
<1>d. \A c \in Customers : EmailFree(crm[c].email, c)
  BY DEF IdentityInv, EmailFree, EmailOwners
<1>e. UNCHANGED login => KeepsLogins \/ \E c \in Customers : HasLogin(c) /\ crm'[c] = NoCustomer
  BY <1>0 DEF KeepsLogins, HasLogin
<1>1. ASSUME NEW c \in Customers, NEW p \in Phones, NEW e \in Addresses, NewCustomer(c, p, e)
      PROVE  \E row \in Row : Writes(c, row)
  <2> DEFINE row == [phone |-> p, email |-> e, active |-> TRUE]
  <2>1. row \in Row
    BY DEF Row
  <2>2. crm' = [crm EXCEPT ![c] = row] /\ PhoneOwners(row.phone) \subseteq {c} /\ EmailFree(row.email, c)
    BY <1>1 DEF NewCustomer
  <2> HIDE DEF row
  <2> QED
    BY <2>1, <2>2, FreeIdentities
<1>2. ASSUME NEW c \in Customers, NEW e \in Addresses, NEW o \in Purchases, RegisterKnown(c, e, o)
      PROVE  IdentityInv'
  <2> DEFINE row == [crm[c] EXCEPT !.email = e]
  <2>1. crm[c] \in Row
    BY <1>2, <1>b DEF RegisterKnown
  <2>2. row \in Row /\ row.phone = crm[c].phone /\ row.email = e
    BY <2>1 DEF Row
  <2>3. crm' = [crm EXCEPT ![c] = row]
    BY <1>2 DEF RegisterKnown
  <2>4. EmailFree(e, c)
    BY <1>2, <1>d DEF RegisterKnown
  <2> HIDE DEF row
  <2>5. Writes(c, row)
    BY <2>1, <2>2, <2>3, <2>4, <1>c, FreeIdentities
  <2>6. crm[c].phone # NoLogin /\ crm'[c] # NoCustomer
    BY <2>1, <2>2, <2>3, AccountsAssumption DEF Row, NoLogin, IdentityInv
  <2>7. KeepsLogins
    BY <1>0, <1>2, <2>6 DEF RegisterKnown, KeepsLogins, HasLogin
  <2> QED
    BY <1>2, <2>5, <2>7, WritesKeepsInv DEF RegisterKnown
<1>3. ASSUME NEW c \in Customers, NEW p \in Phones, NEW e \in Addresses, RegisterNew(c, p, e)
      PROVE  IdentityInv'
  <2>1. PICK row \in Row : Writes(c, row)
    BY <1>1, <1>3 DEF RegisterNew
  <2>2. p # NoLogin /\ crm'[c] # NoCustomer
    BY <2>1, AccountsAssumption DEF NoLogin, Writes, IdentityInv
  <2>3. KeepsLogins
    BY <1>0, <1>3, <2>2 DEF RegisterNew, KeepsLogins, HasLogin
  <2> QED
    BY <1>3, <2>1, <2>3, WritesKeepsInv DEF RegisterNew
<1>4. ASSUME NEW c \in Customers, NEW row \in Row, Writes(c, row), UNCHANGED login, opened' \subseteq opened
      PROVE  IdentityInv'
  <2>1. \A d \in Customers : HasLogin(d) => crm'[d] # NoCustomer
    BY <1>4 DEF Writes, IdentityInv
  <2> QED
    BY <1>e, <1>4, <2>1, WritesKeepsInv
<1>5. ASSUME NEW c \in Customers, NEW e \in Addresses, UpdateProfile(c, e) PROVE IdentityInv'
  <2> DEFINE row == [crm[c] EXCEPT !.email = e]
  <2>1. crm[c] \in Row
    BY <1>5, <1>a DEF UpdateProfile
  <2>2. row \in Row /\ row.phone = crm[c].phone /\ row.email = e
    BY <2>1 DEF Row
  <2>3. crm' = [crm EXCEPT ![c] = row]
    BY <1>5 DEF UpdateProfile
  <2>4. EmailFree(e, c) /\ UNCHANGED <<login, opened>>
    BY <1>5 DEF UpdateProfile
  <2> HIDE DEF row
  <2> QED
    BY <2>1, <2>2, <2>3, <2>4, <1>c, <1>4, FreeIdentities
<1>6. ASSUME NEW c \in Customers, NEW e \in Addresses, NEW o \in Purchases, SignedCheckout(c, e, o)
      PROVE  IdentityInv'
  <2> DEFINE email == IF e = NoEmail THEN crm[c].email ELSE e
             row == [crm[c] EXCEPT !.email = email, !.active = TRUE]
  <2>1. crm[c] \in Row
    BY <1>0, <1>6 DEF SignedCheckout, IdentityInv
  <2>2. email \in Addresses /\ EmailFree(email, c)
    BY <1>6, <1>d DEF SignedCheckout
  <2> HIDE DEF email
  <2>3. row \in Row /\ row.phone = crm[c].phone /\ row.email = email
    BY <2>1, <2>2 DEF Row
  <2>4. crm' = [crm EXCEPT ![c] = row]
    BY <1>6 DEF SignedCheckout, email
  <2>5. UNCHANGED login /\ opened' \subseteq opened
    BY <1>6 DEF SignedCheckout
  <2> HIDE DEF row
  <2> QED
    BY <2>1, <2>2, <2>3, <2>4, <2>5, <1>c, <1>4, FreeIdentities
<1>7. ASSUME NEW c \in Customers, NEW p \in Phones, NEW e \in Addresses, NEW o \in Purchases,
             GuestCheckout(c, p, e, o)
      PROVE  IdentityInv'
  <2>1. CASE NewCustomer(c, p, e)
    BY <1>1, <1>4, <1>7, <2>1 DEF GuestCheckout
  <2>2. CASE UNCHANGED crm
    BY <1>7, <2>2, SparesKeepInv DEF GuestCheckout
  <2> QED
    BY <1>7, <2>1, <2>2 DEF GuestCheckout
<1>8. ASSUME NEW c \in Customers, NEW p \in Phones, NEW e \in Addresses, NEW active \in BOOLEAN,
             SaveCustomer(c, p, e, active)
      PROVE  IdentityInv'
  <2> DEFINE row == [phone |-> p, email |-> e, active |-> active]
  <2>1. row \in Row
    BY DEF Row
  <2>2. crm' = [crm EXCEPT ![c] = row] /\ PhoneOwners(row.phone) \subseteq {c} /\ EmailFree(row.email, c)
        /\ UNCHANGED <<login, opened>>
    BY <1>8 DEF SaveCustomer
  <2> HIDE DEF row
  <2> QED
    BY <2>1, <2>2, <1>4, FreeIdentities
<1>9. ASSUME NEW c \in Customers, DeleteCustomer(c) PROVE IdentityInv'
  <2>1. /\ crm' = [crm EXCEPT ![c] = NoCustomer] /\ ~HasLogin(c) /\ UNCHANGED <<login, opened>>
    BY <1>9 DEF DeleteCustomer
  <2>2. crm' \in [Customers -> Row \cup {NoCustomer}]
    BY <2>1 DEF IdentityInv
  <2>3. ASSUME NEW a \in Customers, NEW b \in Customers, crm'[a] # NoCustomer, crm'[a].phone = crm'[b].phone
        PROVE  a = b
    <3>1. a # c /\ crm'[a] = crm[a] /\ crm[a] \in Row
      BY <2>1, <2>3, <1>0 DEF IdentityInv
    <3>2. b # c
      BY <2>1, <2>3, <3>1, AccountsAssumption DEF Row, NoCustomer, IdentityInv
    <3> QED
      BY <2>1, <2>3, <3>1, <3>2 DEF IdentityInv
  <2>4. ASSUME NEW a \in Customers, NEW b \in Customers, crm'[a].email # NoEmail, crm'[a].email = crm'[b].email
        PROVE  a = b
    BY <2>1, <2>4 DEF IdentityInv, NoCustomer
  <2>5. \A d \in Customers : HasLogin(d)' => crm'[d] # NoCustomer
    BY <2>1 DEF IdentityInv, HasLogin
  <2> QED
    BY <2>1, <2>2, <2>3, <2>4, <2>5 DEF IdentityInv, HasLogin
<1>10. ASSUME NEW c \in Customers,
              \/ OpenCheckout(c) \/ RefuseCheckout(c)
              \/ \E e \in Addresses, o \in Purchases : DeskOrder(c, e, o)
       PROVE  IdentityInv'
  BY <1>10, SparesKeepInv DEF OpenCheckout, RefuseCheckout, DeskOrder, SignedIn
<1>11. ASSUME NEW o \in Purchases, CancelPurchase(o) PROVE IdentityInv'
  BY <1>11, SparesKeepInv DEF CancelPurchase
<1>12. CASE UNCHANGED identityVars
  BY <1>12, SparesKeepInv DEF identityVars
<1>13. Numbers \subseteq Phones
  BY DEF Numbers
<1>14. UNCHANGED accountVars => UNCHANGED identityVars
  BY DEF accountVars, identityVars
<1>15. CASE AccountPages
  BY <1>2, <1>3, <1>5, <1>13, <1>15 DEF AccountPages
<1>16. CASE Shopping
  BY <1>6, <1>7, <1>10, <1>13, <1>16 DEF Shopping
<1>17. CASE CRMPages
  BY <1>8, <1>9, <1>11, <1>17 DEF CRMPages
<1> QED
  BY <1>12, <1>14, <1>15, <1>16, <1>17 DEF AccountNext
\* An identity is stored for one customer at most.
LEMMA OneOwner ==
    ASSUME IdentityInv, NEW i \in Phones \cup Emails, NEW c \in Owners(i), NEW d \in Owners(i)
    PROVE  c = d
<1>1. CASE NumberIn[i] = "none"
  <2>1. i # NoEmail \/ i \in Phones
    BY AccountsAssumption
  <2>2. \A a \in Customers : crm[a].email # i \/ i # NoEmail
    BY <2>1, AccountsAssumption, RowsAreCustomers DEF Addresses
  <2> QED
    BY <1>1, <2>2 DEF Owners, EmailOwners, IdentityInv
<1>2. CASE NumberIn[i] # "none"
  BY <1>2 DEF Owners, PhoneOwners, IdentityInv
<1> QED
  BY <1>1, <1>2

\* An identity, a number or an address, finds the one account it belongs to.
LEMMA OwnersAreFound ==
    ASSUME IdentityInv, NEW c \in Customers, SignedIn(c), NEW i \in Identities(c)
    PROVE  Found(i) = {c}
<1>1. crm[c] \in Row /\ crm[c] # NoCustomer /\ crm[c].phone \in Phones
  BY RowsAreCustomers DEF SignedIn, IdentityInv, Row
<1>2. "none" \notin Phones /\ NoEmail \notin Emails
  BY AccountsAssumption
<1>3. CASE NumberIn[i] = crm[c].phone
  <2>1. NumberIn[i] # "none" /\ PhoneOwners(NumberIn[i]) = {c}
    BY <1>1, <1>2, <1>3 DEF PhoneOwners, IdentityInv
  <2> QED
    BY <2>1 DEF Found, Owners, SignedIn
<1>4. CASE i = crm[c].email /\ i \in Emails /\ NumberIn[i] = "none"
  <2>1. EmailOwners(i) = {c}
    BY <1>1, <1>2, <1>4 DEF EmailOwners, IdentityInv
  <2> QED
    BY <1>4, <2>1 DEF Found, Owners, SignedIn
<1> QED
  BY <1>3, <1>4 DEF Identities

\* "Customer login accepts the linked phone number or email"
\* (CUSTOMER_ACCOUNT_PHASE.md:13), for any customers, numbers, addresses and orders.
THEOREM IdentitiesAreOwned == AccountSpec => []IdentityFindsOwner
<1>1. AccountInit => IdentityInv
  <2> SUFFICES ASSUME AccountInit PROVE IdentityInv
    OBVIOUS
  <2>1. \A c \in Customers : crm[c] = NoCustomer /\ login[c] = NoLogin
    BY DEF AccountInit
  <2>2. crm \in [Customers -> Row \cup {NoCustomer}] /\ DOMAIN login = Customers
    BY DEF AccountInit
  <2> QED
    BY <2>1, <2>2 DEF AccountInit, IdentityInv, HasLogin, NoCustomer
<1>2. ASSUME IdentityInv PROVE IdentityFindsOwner
  <2>1. \A c \in Customers : HasLogin(c) => crm[c] # NoCustomer
    BY <1>2 DEF IdentityInv
  <2>2. \A c \in Customers : crm[c] # NoCustomer => PhoneOwners(crm[c].phone) = {c}
    BY <1>2 DEF IdentityInv, PhoneOwners
  <2>3. \A c \in Customers : EmailFree(crm[c].email, c)
    BY <1>2 DEF IdentityInv, EmailFree, EmailOwners
  <2>4. \A i \in Phones \cup Emails : \A c, d \in Found(i) : c = d
    BY <1>2, OneOwner DEF Found
  <2> QED
    BY <1>2, <2>1, <2>2, <2>3, <2>4, OwnersAreFound DEF IdentityFindsOwner
<1> QED
  BY <1>1, <1>2, IdentityNextInv, PTL DEF AccountSpec

-----------------------------------------------------------------------------
(* Saved addresses *)

Marks == {"none", "ordinary", "default"}

Job == [of : Customers, kind : {"save", "delete"}, row : Slots \cup {"new"}, mark : Marks,
        clears : SUBSET Slots]

\* A request that overlaps no other of its account finds the book as it read it.
Current(t) ==
    LET job == saving[t] IN
    /\ \A u \in Tabs : saving[u] # NoJob /\ saving[u].of = job.of => u = t
    /\ job.kind = "save" => /\ job.mark \in {"default", "ordinary"}
                            /\ job.clears = Cleared(job.of, job.row, job.mark)
                            /\ job.mark = "ordinary" => InBook(job.of) # {}
                            /\ job.row # "new" => job.row \in InBook(job.of)
    /\ job.kind = "delete" => /\ job.row \in InBook(job.of)
                              /\ job.mark = book[job.of][job.row]

BookInv ==
    /\ book \in [Customers -> [Slots -> Marks]]
    /\ saving \in [Tabs -> Job \cup {NoJob}]
    /\ kept \in [Customers -> {"kept", "given up", "overlapped"}]
    /\ \A t \in Tabs : saving[t] # NoJob /\ t \notin mixed => Current(t)
    /\ DefaultAddressKept

\* What DefaultAddressKept says of one account.
KeptIn(c) ==
    /\ kept[c] = "kept" /\ InBook(c) # {} => \E a \in InBook(c) : DefaultsIn(c) = {a}
    /\ kept[c] = "given up" => DefaultsIn(c) = {}

\* The request t of account c writes page, and leaves the account in state.
PageOf(t, c, page, state) ==
    /\ book' = [book EXCEPT ![c] = page]
    /\ kept' = [kept EXCEPT ![c] = state]
    /\ saving' = [saving EXCEPT ![t] = NoJob]
    /\ UNCHANGED mixed

\* The other accounts are left alone, and no other request of this one is alone.
LEMMA PageWritten ==
    ASSUME BookInv, NEW t \in Tabs, NEW c \in Customers, saving[t] # NoJob, saving[t].of = c,
           NEW page \in [Slots -> Marks], NEW state \in {"kept", "given up", "overlapped"},
           PageOf(t, c, page, state), KeptIn(c)'
    PROVE  BookInv'
<1>1. /\ book' \in [Customers -> [Slots -> Marks]]
      /\ kept' \in [Customers -> {"kept", "given up", "overlapped"}]
      /\ saving' \in [Tabs -> Job \cup {NoJob}]
  BY DEF BookInv, PageOf
<1>2. ASSUME NEW u \in Tabs, saving'[u] # NoJob, u \notin mixed
      PROVE  Current(u)'
  <2>1. u # t /\ saving'[u] = saving[u] /\ Current(u)
    BY <1>2 DEF PageOf, BookInv
  <2>2. saving[u].of # c
    BY <1>2, <2>1 DEF Current
  <2>3. book'[saving[u].of] = book[saving[u].of]
    BY <1>2, <2>1, <2>2 DEF PageOf, BookInv, Job
  <2>4. \A v \in Tabs : saving'[v] # NoJob => saving'[v] = saving[v]
    BY DEF PageOf, BookInv
  <2>5. InBook(saving[u].of)' = InBook(saving[u].of)
    BY <2>1, <2>3 DEF InBook
  <2> QED
    BY <2>1, <2>3, <2>4, <2>5 DEF Current, Cleared
<1>3. ASSUME NEW d \in Customers PROVE KeptIn(d)'
  <2>1. CASE d = c
    BY <2>1
  <2>2. CASE d # c
    <3>1. book'[d] = book[d] /\ kept'[d] = kept[d]
      BY <2>2 DEF PageOf, BookInv
    <3>2. KeptIn(d)
      BY DEF BookInv, DefaultAddressKept, KeptIn
    <3> QED
      BY <3>1, <3>2 DEF KeptIn, InBook, DefaultsIn
  <2> QED
    BY <2>1, <2>2
<1>4. DefaultAddressKept'
  BY <1>3 DEF DefaultAddressKept, KeptIn
<1> QED
  BY <1>1, <1>2, <1>4 DEF BookInv, PageOf

\* A request that begins reads the book, and tells the others that it is there.
LEMMA RequestBegins ==
    ASSUME BookInv, NEW t \in Tabs, NEW job \in Job, Begin(t, job),
           job.kind = "save" => /\ job.mark \in {"default", "ordinary"}
                                /\ job.clears = Cleared(job.of, job.row, job.mark)
                                /\ job.mark = "ordinary" => InBook(job.of) # {}
                                /\ job.row # "new" => job.row \in InBook(job.of),
           job.kind = "delete" => /\ job.row \in InBook(job.of)
                                  /\ job.mark = book[job.of][job.row]
    PROVE  BookInv'
<1>1. /\ saving' = [saving EXCEPT ![t] = job] /\ UNCHANGED <<book, kept>>
      /\ saving \in [Tabs -> Job \cup {NoJob}] /\ saving[t] = NoJob
  BY DEF Begin, BookInv
<1>2. saving' \in [Tabs -> Job \cup {NoJob}]
  BY <1>1
<1>3. ASSUME NEW u \in Tabs, saving'[u] # NoJob, u \notin mixed' PROVE Current(u)'
  <2>1. CASE u = t
    <3>1. Others(t, job.of) = {} /\ saving'[t] = job
      BY <1>1, <1>3, <2>1 DEF Begin
    <3>2. \A v \in Tabs : saving'[v].of = job.of => v = t
      BY <1>1, <3>1 DEF Others
    <3> QED
      BY <1>1, <2>1, <3>1, <3>2 DEF Current, Cleared, InBook
  <2>2. CASE u # t
    <3>1. saving'[u] = saving[u] /\ u \notin mixed /\ u \notin Others(t, job.of)
      BY <1>1, <1>3, <2>2 DEF Begin
    <3>2. Current(u) /\ saving[u].of # job.of
      BY <1>3, <2>2, <3>1 DEF BookInv, Others
    <3> QED
      BY <1>1, <2>2, <3>1, <3>2 DEF Current, Cleared, InBook
  <2> QED
    BY <2>1, <2>2
<1>4. DefaultAddressKept'
  <2>1. book' = book /\ kept' = kept /\ DefaultAddressKept
    BY <1>1 DEF BookInv
  <2> QED
    BY <2>1 DEF DefaultAddressKept, InBook, DefaultsIn
<1> QED
  BY <1>1, <1>2, <1>3, <1>4 DEF BookInv

LEMMA SavesBegin ==
    ASSUME BookInv, NEW t \in Tabs, NEW c \in Customers, NEW row \in Slots \cup {"new"},
           row # "new" => row \in InBook(c), NEW wanted \in BOOLEAN, BeginSave(t, c, row, wanted)
    PROVE  BookInv'
<1> DEFINE mark == IF wanted \/ InBook(c) = {} THEN "default" ELSE "ordinary"
           job == [of |-> c, kind |-> "save", row |-> row, mark |-> mark,
                   clears |-> Cleared(c, row, mark)]
<1>1. mark \in {"default", "ordinary"} /\ (mark = "ordinary" => InBook(c) # {})
  OBVIOUS
<1>2. Begin(t, job)
  BY DEF BeginSave
<1> HIDE DEF mark
<1>3. Cleared(c, row, mark) \in SUBSET Slots
  BY DEF Cleared, InBook
<1>4. job \in Job
  BY <1>1, <1>3 DEF Job, Marks
<1>5. /\ job.of = c /\ job.row = row /\ job.mark = mark /\ job.kind = "save"
      /\ job.clears = Cleared(c, row, mark)
  OBVIOUS
<1> HIDE DEF job
<1> QED
  BY <1>1, <1>2, <1>4, <1>5, RequestBegins

LEMMA DeletionsBegin ==
    ASSUME BookInv, NEW t \in Tabs, NEW c \in Customers, NEW a \in Slots, DeleteAddress(t, c, a)
    PROVE  BookInv'
<1> DEFINE job == [of |-> c, kind |-> "delete", row |-> a, mark |-> book[c][a], clears |-> {}]
<1>1. Begin(t, job) /\ a \in InBook(c)
  BY DEF DeleteAddress
<1>2. job \in Job
  BY DEF Job, BookInv
<1>3. job.of = c /\ job.row = a /\ job.mark = book[c][a] /\ job.kind = "delete"
  OBVIOUS
<1> HIDE DEF job
<1> QED
  BY <1>1, <1>2, <1>3, RequestBegins

\* What a save leaves: its own mark, and the others without theirs if it is the default.
LEMMA SavesEnd == ASSUME BookInv, NEW t \in Tabs, EndSave(t) PROVE BookInv'
<1> PICK job, c : job = saving[t] /\ c = job.of
  OBVIOUS
<1> DEFINE state == IF t \in mixed THEN "overlapped"
                    ELSE IF job.mark = "default" THEN "kept"
                    ELSE IF job.row \in DefaultsIn(c) /\ kept[c] = "kept" THEN "given up"
                    ELSE kept[c]
           page(a) == [x \in Slots |->
                         IF x = a THEN job.mark
                         ELSE IF x \in job.clears /\ book[c][x] # "none" THEN "ordinary"
                         ELSE book[c][x]]
<1>1. job \in Job /\ job # NoJob /\ job.kind = "save" /\ c \in Customers
  <2>1. job \in Job \cup {NoJob} /\ job.kind = "save"
    BY DEF EndSave, BookInv
  <2>2. job # NoJob
    BY <2>1 DEF NoJob
  <2> QED
    BY <2>1, <2>2 DEF Job
<1>2. PICK a \in Slots : /\ IF job.row = "new" THEN a \notin InBook(c) ELSE a = job.row
                         /\ PageOf(t, c, page(a), state)
  BY DEF EndSave, PageOf
<1>3. /\ book \in [Customers -> [Slots -> Marks]] /\ kept[c] \in {"kept", "given up", "overlapped"}
      /\ job.mark \in Marks /\ kept \in [Customers -> {"kept", "given up", "overlapped"}]
  BY <1>1 DEF BookInv, Job
<1>4. page(a) \in [Slots -> Marks] /\ state \in {"kept", "given up", "overlapped"}
  BY <1>1, <1>3 DEF Marks
<1>5. book'[c] = page(a) /\ kept'[c] = state
  BY <1>1, <1>2, <1>3 DEF PageOf
<1>6. KeptIn(c)'
  <2>1. CASE t \in mixed
    BY <1>5, <2>1 DEF KeptIn
  <2>2. CASE t \notin mixed /\ job.mark = "default"
    <3>1. job.clears = InBook(c) \ {job.row}
      BY <1>1, <2>2 DEF BookInv, Current, Cleared
    <3>2. \A x \in Slots : page(a)[x] = "default" <=> x = a
      BY <1>1, <1>2, <1>3, <2>2, <3>1, AccountsAssumption DEF InBook
    <3>3. DefaultsIn(c)' = {a} /\ a \in InBook(c)' /\ kept'[c] = "kept"
      BY <1>5, <2>2, <3>2 DEF DefaultsIn, InBook
    <3> QED
      BY <3>3 DEF KeptIn
  <2>3. CASE t \notin mixed /\ job.mark # "default"
    <3>1. job.mark = "ordinary" /\ job.clears = {} /\ InBook(c) # {}
          /\ (job.row # "new" => job.row \in InBook(c))
      BY <1>1, <2>3 DEF BookInv, Current, Cleared
    <3>2. \A x \in Slots : page(a)[x] = IF x = a THEN "ordinary" ELSE book[c][x]
      BY <3>1
    <3>3. DefaultsIn(c)' = DefaultsIn(c) \ {a} /\ InBook(c)' = InBook(c) \cup {a}
      <4>1. \A x \in Slots : book'[c][x] = IF x = a THEN "ordinary" ELSE book[c][x]
        BY <1>5, <3>2
      <4> QED
        BY <4>1 DEF DefaultsIn, InBook
    <3>4. KeptIn(c)
      BY <1>1 DEF BookInv, DefaultAddressKept, KeptIn
    <3>5. a \in DefaultsIn(c) => job.row = a
      BY <1>2 DEF DefaultsIn, InBook
    <3>6. CASE job.row \in DefaultsIn(c) /\ kept[c] = "kept"
      <4>1. job.row = a
        BY <1>2, <3>5, <3>6, <3>1, AccountsAssumption DEF DefaultsIn
      <4> QED
        BY <1>5, <2>3, <3>1, <3>3, <3>4, <3>6, <4>1 DEF KeptIn
    <3>7. CASE ~(job.row \in DefaultsIn(c) /\ kept[c] = "kept")
      <4>1. kept'[c] = kept[c]
        BY <1>5, <2>3, <3>7
      <4>2. kept[c] = "kept" => a \notin DefaultsIn(c)
        BY <3>5, <3>7
      <4> QED
        BY <3>1, <3>3, <3>4, <4>1, <4>2 DEF KeptIn
    <3> QED
      BY <3>6, <3>7
  <2> QED
    BY <2>1, <2>2, <2>3
<1> HIDE DEF page, state
<1> QED
  BY <1>1, <1>2, <1>4, <1>6, PageWritten

\* What a deletion leaves: a default, if the one deleted was it and others are left.
LEMMA DeletionsEnd == ASSUME BookInv, NEW t \in Tabs, EndDelete(t) PROVE BookInv'
<1> PICK d : d = saving[t].of
  OBVIOUS
<1> DEFINE job == saving[t]
           c == job.of
           rest == InBook(c) \ {job.row}
           state == IF t \in mixed THEN "overlapped" ELSE kept[c]
           page(heirs) == [x \in Slots |->
                             IF x = job.row THEN "none"
                             ELSE IF x \in heirs THEN "default" ELSE book[c][x]]
<1>1. job \in Job /\ job # NoJob /\ job.kind = "delete" /\ c \in Customers
  <2>1. job \in Job \cup {NoJob} /\ job.kind = "delete"
    BY DEF EndDelete, BookInv
  <2>2. job # NoJob
    BY <2>1 DEF NoJob
  <2> QED
    BY <2>1, <2>2 DEF Job
<1>2. PICK heirs \in SUBSET rest :
          /\ IF job.mark = "default" /\ rest # {} THEN \E a \in rest : heirs = {a} ELSE heirs = {}
          /\ PageOf(t, c, page(heirs), state)
  BY DEF EndDelete, PageOf
<1>3. /\ book \in [Customers -> [Slots -> Marks]] /\ kept[c] \in {"kept", "given up", "overlapped"}
      /\ kept \in [Customers -> {"kept", "given up", "overlapped"}]
  BY <1>1 DEF BookInv
<1>4. page(heirs) \in [Slots -> Marks] /\ state \in {"kept", "given up", "overlapped"}
  BY <1>1, <1>3 DEF Marks
<1>5. book'[c] = page(heirs) /\ kept'[c] = state
  BY <1>1, <1>2, <1>3 DEF PageOf
<1>6. KeptIn(d)'
  <2>1. CASE t \in mixed
    BY <1>5, <2>1 DEF KeptIn
  <2>2. CASE t \notin mixed
    <3>1. KeptIn(c) /\ kept'[c] = kept[c]
      BY <1>1, <1>5, <2>2 DEF BookInv, DefaultAddressKept, KeptIn
    <3>2. job.row \in InBook(c) /\ job.mark = book[c][job.row]
      BY <1>1, <2>2 DEF BookInv, Current
    <3>3. InBook(d)' = rest
      BY <1>2, <1>5 DEF InBook
    <3>4. DefaultsIn(d)' = (DefaultsIn(c) \ {job.row}) \cup heirs
      BY <1>2, <1>5 DEF DefaultsIn, InBook
    <3>5. job.mark = "default" <=> job.row \in DefaultsIn(c)
      BY <3>2 DEF DefaultsIn, InBook
    <3>6. DefaultsIn(c) \subseteq InBook(c)
      BY DEF DefaultsIn, InBook
    <3> HIDE DEF rest, page, state
    <3>7. rest = InBook(c) \ {job.row}
      BY DEF rest
    <3>8. CASE kept[c] = "kept"
      <4>1. PICK b \in InBook(c) : DefaultsIn(c) = {b}
        BY <3>1, <3>2, <3>8 DEF KeptIn
      <4>2. CASE b = job.row
        BY <1>2, <3>1, <3>3, <3>4, <3>5, <3>8, <4>1, <4>2 DEF KeptIn
      <4>3. CASE b # job.row
        BY <1>2, <3>1, <3>3, <3>4, <3>5, <3>7, <3>8, <4>1, <4>3 DEF KeptIn
      <4> QED
        BY <4>2, <4>3
    <3>9. CASE kept[c] # "kept"
      BY <1>2, <3>1, <3>4, <3>5, <3>9 DEF KeptIn
    <3> QED
      BY <3>8, <3>9
  <2> QED
    BY <2>1, <2>2
<1> HIDE DEF page, state, rest
<1> QED
  BY <1>1, <1>2, <1>4, <1>6, PageWritten

LEMMA BookNextInv == BookInv /\ [AccountNext]_accountVars => BookInv'
<1> SUFFICES ASSUME BookInv, [AccountNext]_accountVars PROVE BookInv'
  OBVIOUS
<1>1. CASE AddressPages
  <2>1. PICK t \in Tabs :
           \/ EndSave(t) \/ EndDelete(t)
           \/ \E c \in Customers, a \in Slots, wanted \in BOOLEAN :
                 \/ AddAddress(t, c, wanted) \/ EditAddress(t, c, a, wanted)
                 \/ DeleteAddress(t, c, a)
    BY <1>1 DEF AddressPages
  <2>2. ASSUME NEW c \in Customers, NEW wanted \in BOOLEAN, AddAddress(t, c, wanted) PROVE BookInv'
    BY <2>2, SavesBegin DEF AddAddress
  <2>3. ASSUME NEW c \in Customers, NEW a \in Slots, NEW wanted \in BOOLEAN,
               EditAddress(t, c, a, wanted)
        PROVE  BookInv'
    BY <2>3, SavesBegin DEF EditAddress
  <2> QED
    BY <2>1, <2>2, <2>3, SavesEnd, DeletionsEnd, DeletionsBegin
<1>2. CASE UNCHANGED bookVars
  <2>1. UNCHANGED <<book, saving, mixed, kept>>
    BY <1>2 DEF bookVars
  <2>2. \A t \in Tabs : Current(t) => Current(t)'
    BY <2>1 DEF Current, Cleared, InBook
  <2>3. DefaultAddressKept'
    BY <2>1 DEF BookInv, DefaultAddressKept, InBook, DefaultsIn
  <2> QED
    BY <2>1, <2>2, <2>3 DEF BookInv
<1>3. UNCHANGED accountVars => UNCHANGED bookVars
  BY DEF accountVars, bookVars
<1> QED
  BY <1>1, <1>2, <1>3 DEF AccountNext

\* "Exactly one default saved address when addresses exist" (CUSTOMER_ACCOUNT_PHASE.md:37),
\* but in the two cases DefaultAddressKept names, for any accounts, addresses and requests.
THEOREM OneDefaultAddress == AccountSpec => []DefaultAddressKept
<1>1. AccountInit => BookInv
  <2> SUFFICES ASSUME AccountInit PROVE BookInv
    OBVIOUS
  <2>1. /\ book \in [Customers -> [Slots -> Marks]]
        /\ \A c \in Customers : \A a \in Slots : book[c][a] = "none"
    BY DEF AccountInit, Marks
  <2>2. saving \in [Tabs -> Job \cup {NoJob}] /\ \A t \in Tabs : saving[t] = NoJob
    BY DEF AccountInit
  <2>3. kept \in [Customers -> {"kept", "given up", "overlapped"}]
        /\ \A c \in Customers : kept[c] = "kept"
    BY DEF AccountInit
  <2>4. DefaultAddressKept
    BY <2>1, <2>3 DEF DefaultAddressKept, InBook, DefaultsIn
  <2> QED
    BY <2>1, <2>2, <2>3, <2>4 DEF BookInv
<1>2. BookInv => DefaultAddressKept
  BY DEF BookInv
<1> QED
  BY <1>1, <1>2, BookNextInv, PTL DEF AccountSpec

-----------------------------------------------------------------------------
(* Variants *)

IsRow(r) ==
    /\ r = [state |-> r.state, name |-> r.name, values |-> r.values,
            default |-> r.default, active |-> r.active]
    /\ r.values \in SUBSET Values
    /\ r.default \in BOOLEAN /\ r.active \in BOOLEAN

Table(t) == t = [v \in Rows |-> t[v]] /\ \A v \in Rows : IsRow(t[v])

\* What SoundDefault and CombinationsDistinct say of the rows of any table.
OneDefaultIn(t) == \E v \in ActiveIn(t) : \A w \in ExistingIn(t) : t[w].default <=> w = v

DistinctIn(t) ==
    \A v, w \in ExistingIn(t) :
        /\ OneEach(t[v].values)
        /\ v # w => /\ t[v].name # t[w].name
                    /\ t[v].values = t[w].values => t[v].values = {}

\* Only the flags of the rows differ.
SameVariants(t, u) ==
    \A v \in Rows : /\ u[v].state = t[v].state
                    /\ u[v].name = t[v].name
                    /\ u[v].values = t[v].values

\* Used rows keep their combination.
UsedKeptIn(t) ==
    \A v \in Existing : UsageReasons(v) => t[v].state = "row" /\ t[v].values = rows[v].values

\* One default is left if there was one.
DefaultKeptIn(t) == OneDefaultIn(rows) => OneDefaultIn(t)

FitTable(t) == Table(t) /\ DistinctIn(t) /\ UsedKeptIn(t)
GoodTable(t) == FitTable(t) /\ DefaultKeptIn(t)

\* Inductive: nothing is left of a product that is gone.
BuilderInv ==
    /\ Table(rows)
    /\ product = "gone" => Existing = {}
    /\ DistinctIn(rows)
    /\ DOMAIN asked = Rows

\* A row whose default flag is set or cleared.
LEMMA FlaggedRow ==
    ASSUME NEW r, IsRow(r), NEW b \in BOOLEAN
    PROVE  /\ [r EXCEPT !.default = b] =
                 [state |-> r.state, name |-> r.name, values |-> r.values,
                  default |-> b, active |-> r.active]
           /\ IsRow([r EXCEPT !.default = b])
<1>1. r = [state |-> r.state, name |-> r.name, values |-> r.values,
           default |-> r.default, active |-> r.active]
  BY DEF IsRow
<1>2. [r EXCEPT !.default = b] = [state |-> r.state, name |-> r.name, values |-> r.values,
                                  default |-> b, active |-> r.active]
  BY <1>1
<1> QED
  BY <1>2 DEF IsRow

LEMMA LeastRow ==
    ASSUME NEW S \in SUBSET Rows, S # {}
    PROVE  Min(S) \in S
<1>1. S \in SUBSET Nat
  BY BuilderAssumption
<1>2. \E m \in S : \A n \in S : m <= n
  BY <1>1, LeastNumber
<1> QED
  BY <1>2 DEF Min

LEMMA FlagsAlone ==
    ASSUME NEW t, NEW u, SameVariants(t, u)
    PROVE  /\ ExistingIn(u) = ExistingIn(t)
           /\ DistinctIn(t) => DistinctIn(u)
           /\ UsedKeptIn(t) => UsedKeptIn(u)
<1>1. ExistingIn(u) = ExistingIn(t)
  BY DEF SameVariants, ExistingIn
<1>2. \A v \in ExistingIn(t) : v \in Rows
  BY DEF ExistingIn
<1> QED
  BY <1>1, <1>2 DEF SameVariants, DistinctIn, UsedKeptIn, Existing, ExistingIn

\* At most one row claims to be the default beside an active one.
OneClaims(t) ==
    \A v \in ActiveIn(t), w \in ExistingIn(t) : t[v].default /\ t[w].default => w = v

\* _ensure_default_variant leaves one active default, if an active row is left and no
\* row beside an active default claims to be one.
LEMMA EnsureLeavesOne ==
    ASSUME NEW t, Table(t)
    PROVE  /\ Table(EnsureDefault(t))
           /\ SameVariants(t, EnsureDefault(t))
           /\ ActiveIn(t) # {} /\ OneClaims(t) => OneDefaultIn(EnsureDefault(t))
<1>0. CASE ActiveIn(t) = {}
  <2>1. EnsureDefault(t) = t
    BY <1>0 DEF EnsureDefault
  <2> QED
    BY <1>0, <2>1 DEF SameVariants
<1>1. CASE ActiveIn(t) # {} /\ \E v \in ActiveIn(t) : t[v].default
  <2>1. EnsureDefault(t) = t
    BY <1>1 DEF EnsureDefault
  <2>2. PICK v \in ActiveIn(t) : t[v].default
    BY <1>1
  <2>3. OneClaims(t) => \A w \in ExistingIn(t) : t[w].default <=> w = v
    BY <2>2 DEF ActiveIn, OneClaims
  <2> QED
    BY <2>1, <2>2, <2>3 DEF SameVariants, OneDefaultIn
<1>2. CASE ActiveIn(t) # {} /\ ~\E v \in ActiveIn(t) : t[v].default
  <2> DEFINE d == Min(ActiveIn(t))
             u == [v \in Rows |-> [t[v] EXCEPT !.default = (v = d)]]
  <2>1. EnsureDefault(t) = u
    BY <1>2 DEF EnsureDefault
  <2>2. d \in ActiveIn(t)
    <3>1. ActiveIn(t) \in SUBSET Rows
      BY DEF ActiveIn, ExistingIn
    <3> QED
      BY <1>2, <3>1, LeastRow
  <2> HIDE DEF d
  <2> DEFINE flag == [v \in Rows |-> v = d]
  <2>3. /\ \A v \in Rows : flag[v] \in BOOLEAN
        /\ \A v \in Rows : flag[v] <=> v = d
    OBVIOUS
  <2>4. \A v \in Rows : u[v] = [t[v] EXCEPT !.default = flag[v]]
    OBVIOUS
  <2>5. u = [v \in Rows |-> u[v]]
    OBVIOUS
  <2> HIDE DEF u, flag
  <2>6. ASSUME NEW v \in Rows
        PROVE  /\ u[v] = [state |-> t[v].state, name |-> t[v].name, values |-> t[v].values,
                          default |-> flag[v], active |-> t[v].active]
               /\ IsRow(u[v])
    <3>1. IsRow(t[v])
      BY DEF Table
    <3>2. flag[v] \in BOOLEAN
      BY <2>3
    <3>3. /\ [t[v] EXCEPT !.default = flag[v]] =
                [state |-> t[v].state, name |-> t[v].name, values |-> t[v].values,
                 default |-> flag[v], active |-> t[v].active]
          /\ IsRow([t[v] EXCEPT !.default = flag[v]])
      BY <3>1, <3>2, FlaggedRow
    <3>4. u[v] = [t[v] EXCEPT !.default = flag[v]]
      BY <2>4
    <3> QED
      BY <3>3, <3>4
  <2>9. Table(u) /\ SameVariants(t, u)
    BY <2>5, <2>6 DEF Table, SameVariants
  <2>7. \A v \in Rows : /\ u[v].state = t[v].state /\ u[v].active = t[v].active
                        /\ u[v].default = flag[v]
    <3> SUFFICES ASSUME NEW v \in Rows
                 PROVE  u[v].state = t[v].state /\ u[v].active = t[v].active
                        /\ u[v].default = flag[v]
      OBVIOUS
    <3>1. u[v] = [state |-> t[v].state, name |-> t[v].name, values |-> t[v].values,
                  default |-> flag[v], active |-> t[v].active]
      BY <2>6
    <3> QED
      BY <3>1
  <2>8. d \in ActiveIn(u) /\ \A w \in ExistingIn(u) : u[w].default <=> w = d
    BY <2>2, <2>3, <2>7 DEF ActiveIn, ExistingIn
  <2>10. OneDefaultIn(u)
    BY <2>8 DEF OneDefaultIn
  <2> QED
    BY <2>1, <2>9, <2>10
<1> QED
  BY <1>0, <1>1, <1>2

-----------------------------------------------------------------------------
(* The generator *)

\* The candidate that is reused is one of them.
LEMMA ReusePicks ==
    ASSUME NEW t, Table(t), NEW candidates \in SUBSET Rows, candidates # {}
    PROVE  Reuse(t, candidates) \in candidates
<1> DEFINE card(v) == Cardinality(t[v].values)
           mark(v) == IF t[v].default THEN 1 ELSE 0
           Widest == {v \in candidates : \A w \in candidates : card(w) <= card(v)}
           Marked == {v \in Widest : \A w \in Widest : mark(w) <= mark(v)}
<1>1. Cardinality(Values) \in Nat
  BY BuilderAssumption, FS_CardinalityType
<1>2. ASSUME NEW v \in candidates
      PROVE  card(v) \in Nat /\ card(v) <= Cardinality(Values)
  <2>1. t[v].values \in SUBSET Values
    BY DEF Table, IsRow
  <2> QED
    BY <2>1, BuilderAssumption, FS_Subset, FS_CardinalityType
<1>3. \A v \in candidates : mark(v) \in {0, 1}
  OBVIOUS
<1>4. candidates \in SUBSET Nat
  BY BuilderAssumption
<1> HIDE DEF card, mark
<1>5. Widest # {}
  <2> DEFINE slack == {Cardinality(Values) - card(v) : v \in candidates}
  <2>1. slack \in SUBSET Nat /\ slack # {}
    BY <1>1, <1>2
  <2>2. PICK m \in slack : \A n \in slack : m <= n
    BY <2>1, LeastNumber
  <2>3. PICK v \in candidates : m = Cardinality(Values) - card(v)
    BY <2>2
  <2>4. \A w \in candidates : Cardinality(Values) - card(v) <= Cardinality(Values) - card(w)
    BY <2>2, <2>3
  <2>5. \A w \in candidates : card(w) <= card(v)
    BY <1>1, <1>2, <2>4
  <2> QED
    BY <2>5
<1>6. Marked # {}
  <2>1. PICK v \in Widest : TRUE
    BY <1>5
  <2>2. CASE \E w \in Widest : mark(w) = 1
    <3>1. PICK w \in Widest : mark(w) = 1
      BY <2>2
    <3>2. \A x \in Widest : mark(x) <= mark(w)
      BY <1>3, <3>1
    <3> QED
      BY <3>2
  <2>3. CASE ~\E w \in Widest : mark(w) = 1
    <3>1. \A x \in Widest : mark(x) = 0
      BY <1>3, <2>3
    <3>2. \A x \in Widest : mark(x) <= mark(v)
      BY <2>1, <3>1
    <3> QED
      BY <2>1, <3>2
  <2> QED
    BY <2>2, <2>3
<1>7. Marked \in SUBSET Nat
  BY <1>4
<1>8. PICK v \in Marked : \A w \in Marked : v <= w
  BY <1>6, <1>7, LeastNumber
<1>9. ASSUME NEW w \in candidates \ {v}
      PROVE  \/ card(v) > card(w)
             \/ card(v) = card(w) /\ mark(v) > mark(w)
             \/ card(v) = card(w) /\ mark(v) = mark(w) /\ v < w
  <2>1. v \in candidates /\ card(w) <= card(v) /\ card(v) \in Nat /\ card(w) \in Nat
    BY <1>2, <1>8
  <2>2. CASE card(w) < card(v)
    BY <2>1, <2>2
  <2>3. CASE card(w) = card(v)
    <3>1. w \in Widest
      BY <1>8, <2>3
    <3>2. mark(w) <= mark(v) /\ mark(v) \in {0, 1} /\ mark(w) \in {0, 1}
      BY <1>3, <1>8, <3>1, <2>1
    <3>3. CASE mark(w) = mark(v)
      <4>1. w \in Marked
        BY <1>8, <3>1, <3>3
      <4>2. v <= w /\ v # w /\ v \in Nat /\ w \in Nat
        BY <1>4, <1>8, <4>1, <2>1
      <4> QED
        BY <2>3, <3>3, <4>2
    <3> QED
      BY <2>3, <3>2, <3>3
  <2> QED
    BY <2>1, <2>2, <2>3
<1>10. \E x \in candidates : \A w \in candidates \ {x} :
            \/ card(x) > card(w)
            \/ card(x) = card(w) /\ mark(x) > mark(w)
            \/ card(x) = card(w) /\ mark(x) = mark(w) /\ x < w
  BY <1>8, <1>9
<1> QED
  BY <1>10 DEF Reuse, card, mark

\* One row written: the others keep what they are.
LEMMA RowWritten ==
    ASSUME NEW t, GoodTable(t), NEW v \in Rows, NEW r, IsRow(r),
           r.state = "row", r.active, OneEach(r.values),
           \A w \in ExistingIn(t) \ {v} : t[w].name # r.name /\ t[w].values # r.values,
           v \in ExistingIn(t) => ~UsageReasons(v) /\ (r.default <=> t[v].default),
           v \notin ExistingIn(t) /\ OneDefaultIn(t) => ~r.default
    PROVE  GoodTable([t EXCEPT ![v] = r])
<1> DEFINE u == [t EXCEPT ![v] = r]
<1>1. /\ u = [w \in Rows |-> u[w]]
      /\ u[v] = r
      /\ \A w \in Rows : w # v => u[w] = t[w]
  BY DEF GoodTable, FitTable, Table
<1> HIDE DEF u
<1>2. Table(u)
  BY <1>1 DEF GoodTable, FitTable, Table
<1>3. ExistingIn(u) = ExistingIn(t) \cup {v}
  BY <1>1 DEF ExistingIn
<1>4. ASSUME OneDefaultIn(rows) PROVE OneDefaultIn(u)
  <2>0. OneDefaultIn(t)
    BY <1>4 DEF GoodTable, DefaultKeptIn
  <2>1. PICK d \in ActiveIn(t) : \A w \in ExistingIn(t) : t[w].default <=> w = d
    BY <2>0 DEF OneDefaultIn
  <2>2. d \in ActiveIn(u)
    <3>1. d \in Rows /\ d \in ExistingIn(t) /\ t[d].active
      BY <2>1 DEF ActiveIn, ExistingIn
    <3>2. u[d].active
      <4>1. CASE d = v
        BY <1>1, <4>1
      <4>2. CASE d # v
        BY <1>1, <3>1, <4>2
      <4> QED
        BY <4>1, <4>2
    <3> QED
      BY <1>3, <3>1, <3>2 DEF ActiveIn
  <2>3. \A w \in ExistingIn(u) : u[w].default <=> w = d
    <3> SUFFICES ASSUME NEW w \in ExistingIn(u)
                 PROVE  u[w].default <=> w = d
      OBVIOUS
    <3>1. CASE w # v
      BY <1>1, <1>3, <2>1, <3>1 DEF ExistingIn
    <3>2. CASE w = v /\ v \in ExistingIn(t)
      BY <1>1, <2>1, <3>2
    <3>3. CASE w = v /\ v \notin ExistingIn(t)
      <4>1. w # d
        BY <2>1, <3>3 DEF ActiveIn
      <4> QED
        BY <1>1, <2>0, <3>3, <4>1
    <3> QED
      BY <3>1, <3>2, <3>3
  <2> QED
    BY <2>2, <2>3 DEF OneDefaultIn
<1>5. DistinctIn(u)
  <2>1. \A w \in ExistingIn(u) : w # v => w \in ExistingIn(t) /\ u[w] = t[w]
    BY <1>1, <1>3 DEF ExistingIn
  <2>2. \A w \in ExistingIn(u) : OneEach(u[w].values)
    BY <1>1, <2>1 DEF GoodTable, FitTable, DistinctIn
  <2>3. \A w \in ExistingIn(u) : w # v => u[w].name # r.name /\ u[w].values # r.values
    BY <2>1
  <2>4. ASSUME NEW x \in ExistingIn(u), NEW w \in ExistingIn(u), x # w
        PROVE  u[x].name # u[w].name /\ (u[x].values = u[w].values => u[x].values = {})
    <3>1. CASE x = v
      BY <1>1, <2>3, <2>4, <3>1
    <3>2. CASE w = v
      BY <1>1, <2>3, <2>4, <3>2
    <3>3. CASE x # v /\ w # v
      BY <2>1, <2>4, <3>3 DEF GoodTable, FitTable, DistinctIn
    <3> QED
      BY <3>1, <3>2, <3>3
  <2> QED
    BY <2>2, <2>4 DEF DistinctIn
<1>6. UsedKeptIn(u)
  <2> SUFFICES ASSUME NEW w \in Existing, UsageReasons(w)
               PROVE  u[w].state = "row" /\ u[w].values = rows[w].values
    BY DEF UsedKeptIn
  <2>1. w \in Rows /\ t[w].state = "row" /\ t[w].values = rows[w].values
    BY DEF GoodTable, FitTable, UsedKeptIn, Existing, ExistingIn
  <2>2. w # v
    BY <2>1 DEF ExistingIn
  <2> QED
    BY <1>1, <2>1, <2>2
<1> QED
  BY <1>2, <1>4, <1>5, <1>6 DEF GoodTable, FitTable, DefaultKeptIn, u

\* What a request has made of the table before it wrote the next combination.
Progress(done) ==
    /\ done = [rows |-> done.rows, taken |-> done.taken, failed |-> done.failed, first |-> done.first]
    /\ done.failed \in BOOLEAN
    /\ GoodTable(done.rows)

LEMMA CombineKeeps ==
    ASSUME NEW done, Progress(done), NEW target \in SUBSET Values, OneEach(target)
    PROVE  Progress(Combine(done, target))
<1> DEFINE t == done.rows
           candidates == Reusable(t, done.taken, target)
           fresh == {v \in Rows : t[v].state = "unborn"}
           isNew == candidates = {}
           v == IF isNew THEN Min(fresh) ELSE Reuse(t, candidates)
           default == IF isNew THEN ~\E w \in ActiveIn(t) : t[w].default ELSE t[v].default
           row == [state |-> "row", name |-> NameOf(target), values |-> target, active |-> TRUE,
                   default |-> default]
           skips == done.failed \/ \E w \in ExistingIn(t) : t[w].values = target
           fails == \/ isNew /\ fresh = {}
                    \/ \E w \in ExistingIn(t) : t[w].name = NameOf(target) /\ (isNew \/ w # v)
<1>1. CASE skips
  <2>1. Combine(done, target) = done
    BY <1>1 DEF Combine
  <2> QED
    BY <2>1
<1>2. CASE ~skips /\ fails
  <2>1. Combine(done, target) = [done EXCEPT !.failed = TRUE]
    BY <1>2 DEF Combine
  <2>2. [done EXCEPT !.failed = TRUE] =
            [rows |-> done.rows, taken |-> done.taken, failed |-> TRUE, first |-> done.first]
    <3>1. done = [rows |-> done.rows, taken |-> done.taken, failed |-> done.failed,
                  first |-> done.first]
      BY DEF Progress
    <3>2. ASSUME NEW b \in BOOLEAN
          PROVE  [done EXCEPT !.failed = b] =
                     [rows |-> done.rows, taken |-> done.taken, failed |-> b, first |-> done.first]
      BY <3>1
    <3> QED
      BY <3>2
  <2> QED
    BY <2>1, <2>2 DEF Progress
<1>3. CASE ~skips /\ ~fails
  <2>1. Combine(done, target) =
            [rows |-> [t EXCEPT ![v] = row], taken |-> done.taken \cup {v}, failed |-> FALSE,
             first |-> IF done.first = {} THEN {v} ELSE done.first]
    BY <1>3 DEF Combine
  <2>2. GoodTable(t)
    BY DEF Progress
  <2>3. candidates \in SUBSET ExistingIn(t) /\ \A w \in candidates : ~UsageReasons(w)
    BY DEF Reusable
  <2>4. isNew => v \in Rows /\ v \notin ExistingIn(t)
    <3>1. isNew => fresh # {} /\ v = Min(fresh)
      BY <1>3
    <3>2. fresh \in SUBSET Rows /\ \A w \in fresh : w \notin ExistingIn(t)
      BY DEF ExistingIn
    <3> QED
      BY <3>1, <3>2, LeastRow
  <2>5. ~isNew => v \in Rows /\ v \in ExistingIn(t) /\ ~UsageReasons(v)
    <3>1. candidates \in SUBSET Rows
      BY <2>3 DEF ExistingIn
    <3>2. ~isNew => v \in candidates
      BY <2>2, <3>1, ReusePicks DEF GoodTable, FitTable
    <3> QED
      BY <2>3, <3>1, <3>2
  <2>6. isNew /\ OneDefaultIn(t) => ~default
    <3>1. OneDefaultIn(t) => \E w \in ActiveIn(t) : t[w].default
      BY DEF OneDefaultIn, ActiveIn
    <3> QED
      BY <3>1
  <2>7. ~isNew => default = t[v].default
    OBVIOUS
  <2>8. \A w \in ExistingIn(t) \ {v} : t[w].name # NameOf(target) /\ t[w].values # target
    BY <1>3
  <2>9. default \in BOOLEAN
    BY <2>2, <2>5 DEF GoodTable, FitTable, Table, IsRow
  <2> HIDE DEF t, candidates, default, v, isNew, skips, fails
  <2>10. IsRow(row)
    BY <2>9 DEF IsRow
  <2>11. /\ row.state = "row" /\ row.active /\ row.values = target /\ row.name = NameOf(target)
         /\ row.default = default
    BY <2>9
  <2> HIDE DEF row
  <2>12. GoodTable([t EXCEPT ![v] = row])
    BY <2>2, <2>4, <2>5, <2>6, <2>7, <2>8, <2>10, <2>11, RowWritten
  <2> QED
    BY <2>1, <2>12 DEF Progress
<1> QED
  BY <1>1, <1>2, <1>3

\* The rows of a request are the result of as many steps as it has combinations.
LEMMA CombinedSteps ==
    ASSUME NEW N \in Nat, NEW c, c \in [1 .. N -> SUBSET Values]
    PROVE  \E done : /\ DOMAIN done = 0 .. N
                     /\ done[0] = [rows |-> rows, taken |-> {}, failed |-> FALSE, first |-> {}]
                     /\ \A k \in 1 .. N : done[k] = Combine(done[k - 1], c[k])
                     /\ Combined(c) = done[N]
<1> DEFINE base == [rows |-> rows, taken |-> {}, failed |-> FALSE, first |-> {}]
           Run(done, n) == done = [k \in 0 .. n |-> IF k = 0 THEN base ELSE Combine(done[k - 1], c[k])]
           T == {n \in Nat : \E done : Run(done, n)}
<1>1. 0 \in T
  <2>1. Run([k \in 0 .. 0 |-> base], 0)
    OBVIOUS
  <2> QED
    BY <2>1
<1>2. ASSUME NEW n \in Nat, n \in T PROVE n + 1 \in T
  <2>1. PICK done : Run(done, n)
    BY <1>2
  <2>4. \A k \in 0 .. n : done[k] = IF k = 0 THEN base ELSE Combine(done[k - 1], c[k])
    <3> HIDE DEF base
    <3> QED
      BY <2>1
  <2> DEFINE next == [k \in 0 .. n + 1 |-> IF k = 0 THEN base
                                           ELSE IF k <= n THEN done[k] ELSE Combine(done[n], c[n + 1])]
  <2>2. ASSUME NEW k \in 0 .. n + 1
        PROVE  next[k] = IF k = 0 THEN base ELSE Combine(next[k - 1], c[k])
    <3>1. CASE k = 0
      BY <3>1
    <3>2. CASE k \in 1 .. n
      <4>1. next[k] = done[k] /\ k \in 0 .. n
        BY <3>2
      <4>2. done[k] = Combine(done[k - 1], c[k])
        <5>1. k # 0 /\ k \in 0 .. n
          BY <3>2
        <5> QED
          BY <2>4, <5>1
      <4>3. next[k - 1] = done[k - 1]
        <5>1. CASE k = 1
          <6>1. done[0] = base
            BY <2>1
          <6> QED
            BY <5>1, <6>1
        <5>2. CASE k # 1
          BY <3>2, <5>2
        <5> QED
          BY <5>1, <5>2
      <4> QED
        BY <3>2, <4>1, <4>2, <4>3
    <3>3. CASE k = n + 1
      <4>1. next[k] = Combine(done[n], c[k])
        BY <3>3
      <4>2. next[k - 1] = done[n]
        <5>1. CASE n = 0
          <6>1. done[0] = base
            BY <2>1
          <6> QED
            BY <3>3, <5>1, <6>1
        <5>2. CASE n # 0
          BY <3>3, <5>2
        <5> QED
          BY <5>1, <5>2
      <4> QED
        BY <3>3, <4>1, <4>2
    <3> QED
      BY <3>1, <3>2, <3>3
  <2>3. Run(next, n + 1)
    <3>1. next = [k \in 0 .. n + 1 |-> next[k]]
      OBVIOUS
    <3> HIDE DEF next
    <3> QED
      BY <2>2, <3>1
  <2> HIDE DEF next, Run
  <2> QED
    BY <2>3
<1>3. \E f : Run(f, N)
  <2> HIDE DEF Run
  <2>1. Nat \subseteq T
    BY <1>1, <1>2, Counting
  <2> QED
    BY <2>1
<1>4. Len(c) = N
  <2>1. c \in Seq(SUBSET Values)
    OBVIOUS
  <2>2. Len(c) \in Nat /\ 1 .. Len(c) = 1 .. N
    BY <2>1, LenProperties
  <2> QED
    BY <2>2
<1> DEFINE chosen == CHOOSE f : Run(f, N)
<1>5. Combined(c) = chosen[N]
  BY <1>4 DEF Combined
<1>6. Run(chosen, N)
  <2> HIDE DEF Run
  <2> QED
    BY <1>3
<1>7. /\ DOMAIN chosen = 0 .. N
      /\ \A k \in 0 .. N : chosen[k] = IF k = 0 THEN base ELSE Combine(chosen[k - 1], c[k])
  <2> HIDE DEF chosen, base
  <2> QED
    BY <1>6
<1> HIDE DEF chosen
<1>8. chosen[0] = base /\ \A k \in 1 .. N : chosen[k] = Combine(chosen[k - 1], c[k])
  <2> HIDE DEF base
  <2>1. \A k \in 1 .. N : k \in 0 .. N /\ k # 0
    OBVIOUS
  <2> QED
    BY <1>7, <2>1
<1> QED
  BY <1>5, <1>7, <1>8

\* A request that does not fail leaves a good table, whatever combinations it wrote.
LEMMA GeneratedIsGood ==
    ASSUME NEW N \in Nat, NEW c, c \in [1 .. N -> SUBSET Values],
           \A k \in 1 .. N : OneEach(c[k]),
           GoodTable(rows)
    PROVE  GoodTable(Generated(c).rows)
<1>1. PICK done : /\ done[0] = [rows |-> rows, taken |-> {}, failed |-> FALSE, first |-> {}]
                  /\ \A k \in 1 .. N : done[k] = Combine(done[k - 1], c[k])
                  /\ Combined(c) = done[N]
  BY CombinedSteps
<1> DEFINE T == {n \in Nat : n <= N => Progress(done[n])}
<1>2. 0 \in T
  <2>1. /\ done[0].rows = rows /\ done[0].taken = {} /\ done[0].first = {}
        /\ done[0].failed = FALSE
    BY <1>1
  <2>2. Progress(done[0])
    BY <1>1, <2>1 DEF Progress
  <2> QED
    BY <2>2
<1>3. ASSUME NEW n \in Nat, n \in T PROVE n + 1 \in T
  <2> SUFFICES ASSUME n + 1 <= N PROVE Progress(done[n + 1])
    OBVIOUS
  <2>1. n + 1 \in 1 .. N /\ (n + 1) - 1 = n
    OBVIOUS
  <2>2. done[n + 1] = Combine(done[n], c[n + 1])
    BY <1>1, <2>1
  <2>3. Progress(done[n]) /\ c[n + 1] \in SUBSET Values /\ OneEach(c[n + 1])
    BY <1>3, <2>1
  <2> QED
    BY <2>2, <2>3, CombineKeeps
<1>4. Progress(Combined(c))
  <2>1. N \in T
    BY <1>2, <1>3, Counting
  <2> QED
    BY <1>1, <2>1
<1> DEFINE t == Combined(c).rows
           lacking == ~\E v \in ActiveIn(t) : t[v].default
           flag == [v \in Rows |-> (lacking /\ v \in Combined(c).first) \/ t[v].default]
           u == Generated(c).rows
<1>5. GoodTable(t)
  BY <1>4 DEF Progress
<1>6. u = [v \in Rows |-> IF lacking /\ v \in Combined(c).first
                           THEN [t[v] EXCEPT !.default = TRUE] ELSE t[v]]
  BY DEF Generated
<1>7. CASE ~lacking
  <2>1. t = [v \in Rows |-> t[v]]
    BY <1>5 DEF GoodTable, FitTable, Table
  <2>2. u = t
    BY <1>6, <1>7, <2>1
  <2> QED
    BY <1>5, <2>2
<1>8. CASE lacking
  <2>1. PICK yes \in BOOLEAN : yes = TRUE
    OBVIOUS
  <2> HIDE DEF t, lacking
  <2>2. ASSUME NEW v \in Rows
        PROVE  /\ IsRow(u[v])
               /\ u[v].state = t[v].state /\ u[v].name = t[v].name /\ u[v].values = t[v].values
    <3>1. IsRow(t[v])
      BY <1>5 DEF GoodTable, FitTable, Table
    <3>2. /\ [t[v] EXCEPT !.default = yes] =
                [state |-> t[v].state, name |-> t[v].name, values |-> t[v].values,
                 default |-> yes, active |-> t[v].active]
          /\ IsRow([t[v] EXCEPT !.default = yes])
      BY <3>1, FlaggedRow
    <3>3. u[v] = [t[v] EXCEPT !.default = yes] \/ u[v] = t[v]
      <4> HIDE DEF u
      <4> QED
        BY <1>6, <2>1
    <3> HIDE DEF u
    <3>4. CASE u[v] = t[v]
      BY <3>1, <3>4
    <3>5. CASE u[v] = [t[v] EXCEPT !.default = yes]
      BY <3>2, <3>5
    <3> QED
      BY <3>3, <3>4, <3>5
  <2> HIDE DEF u
  <2>3. Table(u) /\ SameVariants(t, u)
    BY <1>6, <2>2 DEF Table, SameVariants
  <2>4. ~OneDefaultIn(t)
    BY <1>8 DEF OneDefaultIn, ActiveIn, lacking
  <2> QED
    BY <1>5, <2>3, <2>4, FlagsAlone DEF GoodTable, FitTable, DefaultKeptIn, u
<1> QED
  BY <1>7, <1>8

-----------------------------------------------------------------------------
(* The pages *)

\* What UsedKeepIdentity and OneActiveDefault say of a step.
Kept ==
    \A v \in Existing : UsageReasons(v) =>
        IF rows'[v].state = "row" THEN rows'[v].values = rows[v].values
        ELSE /\ uses[v] # "traded"
             /\ product' = "gone" \/ ("unused" \in asked[v] /\ asked'[v] = {})

Excused ==
    \/ \E v \in Rows : ActiveIn(rows) = {v} /\ EditVariant(v)
    \/ \E v \in Rows : LateDeletion(v)

\* What a step has to establish: BuilderInv and both.
Lands ==
    /\ Table(rows')
    /\ DistinctIn(rows')
    /\ product' = "gone" => ExistingIn(rows') = {}
    /\ OneDefaultIn(rows) /\ product' # "gone" => OneDefaultIn(rows') \/ Excused
    /\ Kept
    /\ DOMAIN asked' = Rows

LEMMA LandsEnough ==
    ASSUME Lands
    PROVE  BuilderInv' /\ Kept
BY DEF Lands, BuilderInv, Existing

\* A product that exists has a good table.
LEMMA GoodRows ==
    ASSUME BuilderInv
    PROVE  /\ GoodTable(rows)
           /\ Existing # {} => product # "gone"
BY DEF BuilderInv, GoodTable, FitTable, DefaultKeptIn, UsedKeptIn, Existing, ExistingIn

\* A good table that a request writes to a product that stays, or a fit one, for which
\* there is an excuse.
LEMMA GoodLands ==
    ASSUME BuilderInv, product' # "gone", asked' = asked,
           FitTable(rows'), DefaultKeptIn(rows') \/ Excused
    PROVE  Lands
BY DEF BuilderInv, Lands, FitTable, DefaultKeptIn, UsedKeptIn, Kept

\* The table stays.
LEMMA RestLands ==
    ASSUME BuilderInv, product' = product, rows' = rows, DOMAIN asked' = Rows
    PROVE  Lands
BY DEF BuilderInv, Lands, Kept, Existing, ExistingIn

LEMMA GenerateLands ==
    ASSUME BuilderInv, Generate
    PROVE  Lands
<1> DEFINE Wrote(picked, combinations) ==
               /\ combinations \in [1 .. Cardinality(picked) -> picked]
               /\ product # "gone" /\ product' = product /\ asked' = asked
               /\ rows' = Generated(combinations).rows
<1>1. PICK chosen \in SUBSET Offered :
          \E picked \in SUBSET CombinationsOf(chosen) : \E combinations : Wrote(picked, combinations)
  BY DEF Generate
<1>2. PICK picked \in SUBSET CombinationsOf(chosen) : \E combinations : Wrote(picked, combinations)
  BY <1>1
<1>8. PICK combinations : Wrote(picked, combinations)
  BY <1>2
<1>3. \A s \in picked : s \in SUBSET Values /\ OneEach(s)
  BY DEF CombinationsOf, Offered
<1>4. Cardinality(picked) \in Nat
  <2>1. IsFiniteSet(SUBSET Values)
    BY BuilderAssumption, FS_SUBSET
  <2>2. picked \in SUBSET SUBSET Values
    BY <1>3
  <2> QED
    BY <2>1, <2>2, FS_Subset, FS_CardinalityType
<1>5. /\ combinations \in [1 .. Cardinality(picked) -> SUBSET Values]
      /\ \A k \in 1 .. Cardinality(picked) : OneEach(combinations[k])
  BY <1>8, <1>3
<1>6. GoodTable(rows)
  BY GoodRows
<1>7. GoodTable(Generated(combinations).rows)
  BY <1>4, <1>5, <1>6, GeneratedIsGood
<1> QED
  BY <1>8, <1>7, GoodLands DEF GoodTable

\* A row both flags of which are written.
LEMMA ReflaggedRow ==
    ASSUME NEW r, IsRow(r), NEW a \in BOOLEAN, NEW b \in BOOLEAN
    PROVE  /\ [r EXCEPT !.active = a, !.default = b] =
                 [state |-> r.state, name |-> r.name, values |-> r.values,
                  default |-> b, active |-> a]
           /\ IsRow([r EXCEPT !.active = a, !.default = b])
<1>1. r = [state |-> r.state, name |-> r.name, values |-> r.values,
           default |-> r.default, active |-> r.active]
  BY DEF IsRow
<1>2. PICK q : q = [r EXCEPT !.active = a]
  OBVIOUS
<1>3. q = [state |-> r.state, name |-> r.name, values |-> r.values,
           default |-> r.default, active |-> a]
  BY <1>1, <1>2
<1>4. [q EXCEPT !.default = b] =
          [state |-> r.state, name |-> r.name, values |-> r.values, default |-> b, active |-> a]
  BY <1>3
<1>5. [r EXCEPT !.active = a, !.default = b] = [q EXCEPT !.default = b]
  BY <1>2
<1> QED
  BY <1>4, <1>5 DEF IsRow

\* The table the default is ensured in need only have as many claims as before.
LEMMA EnsuredIsGood ==
    ASSUME NEW t, FitTable(t)
    PROVE  /\ FitTable(EnsureDefault(t))
           /\ (OneDefaultIn(rows) => ActiveIn(t) # {} /\ OneClaims(t)) => GoodTable(EnsureDefault(t))
<1>1. /\ Table(EnsureDefault(t)) /\ SameVariants(t, EnsureDefault(t))
      /\ ActiveIn(t) # {} /\ OneClaims(t) => OneDefaultIn(EnsureDefault(t))
  BY EnsureLeavesOne DEF FitTable
<1>2. DistinctIn(EnsureDefault(t)) /\ UsedKeptIn(EnsureDefault(t))
  BY <1>1, FlagsAlone DEF FitTable
<1> QED
  BY <1>1, <1>2 DEF GoodTable, FitTable, DefaultKeptIn

\* The variant form: a row is stored, and when it is the default no other is.
LEMMA StoredIsGood ==
    ASSUME GoodTable(rows), NEW v \in Rows, NEW row, IsRow(row), row.state = "row",
           OneEach(row.values), Distinct(v, row.values, row.name),
           v \in Existing /\ UsageReasons(v) => row.values = rows[v].values,
           row.default => row.active
    PROVE  /\ FitTable(Stored(v, row))
           /\ row.active \/ ActiveIn(rows) \ {v} # {} => GoodTable(Stored(v, row))
<1> DEFINE flag == [w \in Rows |-> rows[w].default /\ ~row.default]
           t == [w \in Rows |-> IF w = v THEN row ELSE [rows[w] EXCEPT !.default = flag[w]]]
<1>1. /\ \A w \in Rows : flag[w] \in BOOLEAN
      /\ \A w \in Rows : flag[w] <=> rows[w].default /\ ~row.default
  OBVIOUS
<1>2. Stored(v, row) = EnsureDefault(t)
  BY DEF Stored
<1>3. /\ t = [w \in Rows |-> t[w]]
      /\ t[v] = row
      /\ \A w \in Rows : w # v => t[w] = [rows[w] EXCEPT !.default = flag[w]]
  OBVIOUS
<1> HIDE DEF t, flag
<1>4. ASSUME NEW w \in Rows, w # v
      PROVE  /\ IsRow(t[w])
             /\ t[w].state = rows[w].state /\ t[w].name = rows[w].name
             /\ t[w].values = rows[w].values
             /\ t[w].active = rows[w].active
             /\ t[w].default = flag[w]
  <2>1. IsRow(rows[w]) /\ flag[w] \in BOOLEAN
    BY <1>1 DEF GoodTable, FitTable, Table
  <2>2. /\ [rows[w] EXCEPT !.default = flag[w]] =
              [state |-> rows[w].state, name |-> rows[w].name, values |-> rows[w].values,
               default |-> flag[w], active |-> rows[w].active]
        /\ IsRow([rows[w] EXCEPT !.default = flag[w]])
    BY <2>1, FlaggedRow
  <2>3. t[w] = [rows[w] EXCEPT !.default = flag[w]]
    BY <1>3, <1>4
  <2> QED
    BY <2>2, <2>3
<1>5. Table(t)
  BY <1>3, <1>4 DEF Table
<1>6. /\ v \in ExistingIn(t)
      /\ \A w \in Rows : w # v => (w \in ExistingIn(t) <=> w \in ExistingIn(rows))
      /\ ExistingIn(t) \subseteq Rows /\ ExistingIn(rows) \subseteq Rows
  BY <1>3, <1>4 DEF ExistingIn
<1>7. ASSUME row.active \/ ActiveIn(rows) \ {v} # {} PROVE ActiveIn(t) # {}
  <2>1. CASE row.active
    BY <1>3, <1>6, <2>1 DEF ActiveIn
  <2>2. CASE ActiveIn(rows) \ {v} # {}
    <3>1. PICK w \in ActiveIn(rows) : w # v
      BY <2>2
    <3>2. w \in Rows /\ w \in ExistingIn(rows) /\ rows[w].active
      BY <3>1, <1>6 DEF ActiveIn
    <3>3. w \in ExistingIn(t) /\ t[w].active
      BY <1>4, <1>6, <3>1, <3>2
    <3> QED
      BY <3>3 DEF ActiveIn
  <2> QED
    BY <1>7, <2>1, <2>2
<1>8. ASSUME OneDefaultIn(rows) PROVE OneClaims(t)
  <2> SUFFICES ASSUME NEW x \in ExistingIn(t), NEW y \in ExistingIn(t), t[x].default, t[y].default
               PROVE  y = x
    BY DEF OneClaims, ActiveIn
  <2>1. \A w \in ExistingIn(t) : w # v /\ t[w].default => ~row.default /\ w \in ExistingIn(rows) /\ rows[w].default
    BY <1>1, <1>4, <1>6
  <2>2. PICK d \in Rows : \A w \in ExistingIn(rows) : rows[w].default <=> w = d
    BY <1>6, <1>8 DEF OneDefaultIn, ActiveIn
  <2>3. CASE row.default
    BY <2>1, <2>3
  <2>4. CASE ~row.default
    BY <1>3, <2>1, <2>2, <2>4
  <2> QED
    BY <2>3, <2>4
<1>9. DistinctIn(t)
  <2>1. \A w \in ExistingIn(t) : w # v =>
            /\ w \in ExistingIn(rows)
            /\ t[w].name = rows[w].name /\ t[w].values = rows[w].values
    BY <1>4, <1>6
  <2>2. \A w \in ExistingIn(rows) : w # v =>
            rows[w].name # row.name /\ (row.values # {} => rows[w].values # row.values)
    BY DEF Distinct, Existing
  <2>3. ASSUME NEW x \in ExistingIn(t), NEW y \in ExistingIn(t)
        PROVE  /\ OneEach(t[x].values)
               /\ x # y => /\ t[x].name # t[y].name
                           /\ t[x].values = t[y].values => t[x].values = {}
    <3>1. CASE x = v
      BY <1>3, <2>1, <2>2, <3>1
    <3>2. CASE x # v /\ y = v
      BY <1>3, <2>1, <2>2, <3>2 DEF GoodTable, FitTable, DistinctIn
    <3>3. CASE x # v /\ y # v
      BY <2>1, <3>3 DEF GoodTable, FitTable, DistinctIn
    <3> QED
      BY <3>1, <3>2, <3>3
  <2> QED
    BY <2>3 DEF DistinctIn
<1>10. UsedKeptIn(t)
  <2> SUFFICES ASSUME NEW w \in Existing, UsageReasons(w)
               PROVE  t[w].state = "row" /\ t[w].values = rows[w].values
    BY DEF UsedKeptIn
  <2>1. w \in Rows /\ rows[w].state = "row"
    BY DEF Existing, ExistingIn
  <2>2. CASE w = v
    BY <1>3, <2>2
  <2>3. CASE w # v
    BY <1>4, <2>1, <2>3
  <2> QED
    BY <2>2, <2>3
<1>11. FitTable(t)
  BY <1>5, <1>9, <1>10 DEF FitTable
<1> QED
  BY <1>2, <1>7, <1>8, <1>11, EnsuredIsGood

\* Of two active rows one is left when the other goes.
LEMMA AnotherActive ==
    ASSUME OneDefaultIn(rows), NEW v, ActiveIn(rows) # {v}
    PROVE  ActiveIn(rows) \ {v} # {}
<1>1. PICK d \in ActiveIn(rows) : TRUE
  BY DEF OneDefaultIn
<1>2. CASE d # v
  BY <1>1, <1>2
<1>3. CASE d = v
  BY <1>1, <1>3 DEF ActiveIn
<1> QED
  BY <1>2, <1>3

LEMMA EditLands ==
    ASSUME BuilderInv, NEW v \in Rows, EditVariant(v)
    PROVE  Lands
<1> DEFINE Saved(chosen, default, active, name) ==
      /\ v \in Existing /\ product' = product /\ asked' = asked
      /\ FormAccepts(v, chosen, name, default, active)
      /\ KeepsIdentity(v, chosen)
      /\ rows' = Stored(v, [state |-> "row", name |-> name, values |-> chosen,
                            default |-> default, active |-> active])
<1>1. PICK chosen \in SUBSET Offered, default \in BOOLEAN, active \in BOOLEAN :
        \E name : Saved(chosen, default, active, name)
  BY DEF EditVariant
<1>2. PICK name : Saved(chosen, default, active, name)
  BY <1>1
<1> DEFINE row == [state |-> "row", name |-> name, values |-> chosen,
                   default |-> default, active |-> active]
<1>3. /\ IsRow(row) /\ row.state = "row" /\ row.name = name /\ row.values = chosen
      /\ row.default = default /\ row.active = active
  BY DEF IsRow, Offered
<1> HIDE DEF row
<1>4. product # "gone" /\ GoodTable(rows)
  BY <1>2, GoodRows
<1>5. /\ OneEach(chosen) /\ Distinct(v, chosen, name) /\ (default => active)
      /\ UsageReasons(v) => chosen = rows[v].values
  BY <1>2 DEF FormAccepts, KeepsIdentity
<1>6. rows' = Stored(v, row)
  BY <1>2 DEF row
<1>7. FitTable(rows') /\ (ActiveIn(rows) \ {v} # {} => GoodTable(rows'))
  BY <1>3, <1>4, <1>5, <1>6, StoredIsGood
<1>8. DefaultKeptIn(rows') \/ Excused
  <2>1. CASE OneDefaultIn(rows) /\ ActiveIn(rows) # {v}
    BY <1>7, <2>1, AnotherActive DEF GoodTable
  <2>2. CASE ~OneDefaultIn(rows)
    BY <2>2 DEF DefaultKeptIn
  <2>3. CASE ActiveIn(rows) = {v}
    BY <2>3 DEF Excused
  <2> QED
    BY <2>1, <2>2, <2>3
<1> QED
  BY <1>2, <1>4, <1>7, <1>8, GoodLands

LEMMA AddLands ==
    ASSUME BuilderInv, AddVariant
    PROVE  Lands
<1> DEFINE fresh == {v \in Rows : rows[v].state = "unborn"}
           v == Min(fresh)
           Saved(chosen, default, active, name) ==
             /\ product # "gone" /\ product' = product /\ asked' = asked /\ fresh # {}
             /\ FormAccepts(v, chosen, name, default, active)
             /\ rows' = Stored(v, [state |-> "row", name |-> name, values |-> chosen,
                                   default |-> default, active |-> active])
<1>1. PICK chosen \in SUBSET Offered, default \in BOOLEAN, active \in BOOLEAN :
        \E name : Saved(chosen, default, active, name)
  BY DEF AddVariant
<1>2. PICK name : Saved(chosen, default, active, name)
  BY <1>1
<1> DEFINE row == [state |-> "row", name |-> name, values |-> chosen,
                   default |-> default, active |-> active]
<1>3. /\ IsRow(row) /\ row.state = "row" /\ row.name = name /\ row.values = chosen
      /\ row.default = default /\ row.active = active
  BY DEF IsRow, Offered
<1> HIDE DEF row
<1>4. product # "gone" /\ GoodTable(rows)
  BY <1>2, GoodRows
<1>5. v \in Rows /\ v \notin Existing
  <2>1. fresh \in SUBSET Rows /\ fresh # {}
    BY <1>2
  <2>2. v \in fresh
    BY <2>1, LeastRow
  <2> QED
    BY <2>2 DEF Existing, ExistingIn
<1>6. OneEach(chosen) /\ Distinct(v, chosen, name) /\ (default => active)
  BY <1>2 DEF FormAccepts
<1>7. rows' = Stored(v, row)
  BY <1>2 DEF row
<1> HIDE DEF v
<1>8. FitTable(rows') /\ (ActiveIn(rows) \ {v} # {} => GoodTable(rows'))
  BY <1>3, <1>4, <1>5, <1>6, <1>7, StoredIsGood
<1>9. DefaultKeptIn(rows')
  <2>1. CASE OneDefaultIn(rows)
    <3>1. ActiveIn(rows) # {v}
      BY <1>5 DEF ActiveIn, Existing
    <3> QED
      BY <1>8, <2>1, <3>1, AnotherActive DEF GoodTable
  <2>2. CASE ~OneDefaultIn(rows)
    BY <2>2 DEF DefaultKeptIn
  <2> QED
    BY <2>1, <2>2
<1> QED
  BY <1>2, <1>4, <1>8, <1>9, GoodLands

\* A row that goes, in whichever way: the rest are distinct and used ones keep what they
\* are, and while an active row is left there is one default.
LEMMA RowGoes ==
    ASSUME BuilderInv, NEW v \in Rows,
           NEW t, Table(t), \A w \in Rows : w # v => t[w] = rows[w],
           \/ t[v].state # "row"
           \/ /\ v \in Existing /\ t[v].state = "row" /\ ~t[v].active /\ ~t[v].default
              /\ t[v].name = rows[v].name /\ t[v].values = rows[v].values
    PROVE  /\ DistinctIn(t) /\ ExistingIn(t) \subseteq Existing
           /\ \A w \in Existing : w # v => t[w].state = "row" /\ t[w].values = rows[w].values
           /\ OneDefaultIn(rows) /\ ActiveIn(rows) # {v} =>
                 /\ ActiveIn(t) # {} /\ OneClaims(t)
                 /\ ~rows[v].default => OneDefaultIn(t)
<1>1. /\ \A w \in Rows : w # v => (w \in ExistingIn(t) <=> w \in ExistingIn(rows))
      /\ ExistingIn(t) \subseteq ExistingIn(rows) /\ ExistingIn(rows) \subseteq Rows
      /\ v \notin ActiveIn(t)
  BY DEF ExistingIn, ActiveIn, Existing
<1>2. ActiveIn(rows) \ {v} \subseteq ActiveIn(t)
  BY <1>1 DEF ActiveIn
<1>3. \A w \in ExistingIn(t) : t[w].name = rows[w].name /\ t[w].values = rows[w].values
  BY <1>1 DEF ExistingIn
<1>4. DistinctIn(t)
  BY <1>1, <1>3 DEF BuilderInv, DistinctIn
<1>5. \A w \in Existing : w # v => t[w].state = "row" /\ t[w].values = rows[w].values
  BY DEF Existing, ExistingIn
<1>6. ASSUME OneDefaultIn(rows), ActiveIn(rows) # {v}
      PROVE  /\ ActiveIn(t) # {} /\ OneClaims(t)
             /\ ~rows[v].default => OneDefaultIn(t)
  <2>1. ActiveIn(t) # {}
    BY <1>2, <1>6, AnotherActive
  <2>2. PICK d \in ActiveIn(rows) : \A w \in ExistingIn(rows) : rows[w].default <=> w = d
    BY <1>6 DEF OneDefaultIn
  <2>3. v \in ExistingIn(t) => ~t[v].default
    BY DEF ExistingIn
  <2>4. \A w \in ExistingIn(t) : t[w].default => w = d
    BY <1>1, <2>2, <2>3
  <2>5. OneClaims(t)
    BY <2>4 DEF OneClaims, ActiveIn
  <2>6. ASSUME ~rows[v].default PROVE OneDefaultIn(t)
    <3>1. d # v /\ d \in Rows
      BY <1>1, <2>2, <2>6 DEF ActiveIn
    <3>2. d \in ActiveIn(t)
      BY <1>2, <2>2, <3>1
    <3>3. t[d].default
      BY <2>2, <3>1 DEF ActiveIn
    <3> QED
      BY <2>4, <3>2, <3>3 DEF OneDefaultIn
  <2> QED
    BY <2>1, <2>5, <2>6
<1> QED
  BY <1>1, <1>4, <1>5, <1>6 DEF Existing

\* A table that is left after v went, with the default ensured or not.
LEMMA GoneLands ==
    ASSUME BuilderInv, NEW v \in Rows, product' = product, asked[v] # {}, asked' = [asked EXCEPT ![v] = {}],
           NEW t, Table(t), DistinctIn(t), ExistingIn(t) \subseteq Existing,
           \A w \in Existing : w # v => t[w].state = "row" /\ t[w].values = rows[w].values,
           v \in Existing /\ UsageReasons(v) =>
              IF t[v].state = "row" THEN t[v].values = rows[v].values
              ELSE uses[v] # "traded" /\ "unused" \in asked[v],
           OneDefaultIn(rows) /\ ActiveIn(rows) # {v} => ActiveIn(t) # {} /\ OneClaims(t),
           \/ rows' = EnsureDefault(t)
           \/ /\ rows' = t /\ "default" \notin asked[v]
              /\ OneDefaultIn(rows) /\ ActiveIn(rows) # {v} /\ ~rows[v].default => OneDefaultIn(t)
    PROVE  Lands
<1>1. /\ Table(EnsureDefault(t)) /\ SameVariants(t, EnsureDefault(t))
      /\ ActiveIn(t) # {} /\ OneClaims(t) => OneDefaultIn(EnsureDefault(t))
  BY EnsureLeavesOne
<1>0. asked'[v] = {} /\ DOMAIN asked' = Rows
  BY DEF BuilderInv
<1>2. Table(rows') /\ SameVariants(t, rows')
  BY <1>1 DEF SameVariants
<1>3. DistinctIn(rows')
  <2>1. DistinctIn(EnsureDefault(t))
    BY <1>1, FlagsAlone
  <2> QED
    BY <2>1
<1>4. Kept
  <2> SUFFICES ASSUME NEW w \in Existing, UsageReasons(w)
               PROVE  IF rows'[w].state = "row" THEN rows'[w].values = rows[w].values
                      ELSE /\ uses[w] # "traded"
                           /\ product' = "gone" \/ ("unused" \in asked[w] /\ asked'[w] = {})
    BY DEF Kept
  <2>1. w \in Rows /\ rows'[w].state = t[w].state /\ rows'[w].values = t[w].values
    BY <1>2 DEF SameVariants, Existing, ExistingIn
  <2>2. CASE w = v
    BY <1>0, <2>1, <2>2
  <2>3. CASE w # v
    BY <2>1, <2>3
  <2> QED
    BY <2>2, <2>3
<1>5. OneDefaultIn(rows) => OneDefaultIn(rows') \/ Excused
  <2>1. CASE OneDefaultIn(rows) /\ ActiveIn(rows) # {v} /\ rows' = EnsureDefault(t)
    BY <1>1, <2>1
  <2>2. CASE OneDefaultIn(rows) /\ ActiveIn(rows) # {v} /\ rows' = t
    <3>1. CASE ~rows[v].default
      BY <1>1, <2>2, <3>1
    <3>2. CASE rows[v].default /\ "default" \notin asked[v]
      BY <1>0, <3>2 DEF Excused, LateDeletion
    <3>3. CASE rows' = EnsureDefault(t)
      BY <2>1, <2>2, <3>3
    <3> QED
      BY <3>1, <3>2, <3>3
  <2>3. CASE ActiveIn(rows) = {v}
    BY <1>0, <2>3 DEF Excused, LateDeletion
  <2> QED
    BY <2>1, <2>2, <2>3
<1>6. product' = "gone" => ExistingIn(rows') = {}
  <2>1. ExistingIn(rows') = ExistingIn(t)
    BY <1>2, FlagsAlone
  <2> QED
    BY <2>1 DEF BuilderInv
<1> QED
  BY <1>0, <1>2, <1>3, <1>4, <1>5, <1>6 DEF Lands

LEMMA RetireLands ==
    ASSUME BuilderInv, NEW v \in Existing, product' = product, asked[v] # {}, Retire(v),
           asked' = [asked EXCEPT ![v] = {}]
    PROVE  Lands
<1>1. v \in Rows /\ Table(rows)
  BY DEF BuilderInv, Existing, ExistingIn
<1> DEFINE t == [rows EXCEPT ![v].active = FALSE, ![v].default = FALSE]
<1>2. rows' = EnsureDefault(t)
  BY DEF Retire
<1>3. PICK no \in BOOLEAN : no = FALSE
  OBVIOUS
<1>4. /\ t[v] = [rows[v] EXCEPT !.active = no, !.default = no]
      /\ \A w \in Rows : w # v => t[w] = rows[w]
      /\ t = [w \in Rows |-> t[w]]
  BY <1>1, <1>3 DEF Table
<1> HIDE DEF t
<1>5. IsRow(rows[v])
  BY <1>1 DEF Table
<1>6. /\ t[v] = [state |-> rows[v].state, name |-> rows[v].name, values |-> rows[v].values,
                 default |-> no, active |-> no]
      /\ IsRow(t[v])
  <2>1. /\ [rows[v] EXCEPT !.active = no, !.default = no] =
              [state |-> rows[v].state, name |-> rows[v].name, values |-> rows[v].values,
               default |-> no, active |-> no]
        /\ IsRow([rows[v] EXCEPT !.active = no, !.default = no])
    BY <1>5, ReflaggedRow
  <2> QED
    BY <1>4, <2>1
<1>7. Table(t)
  BY <1>1, <1>4, <1>6 DEF Table
<1>8. /\ v \in Existing /\ t[v].state = "row" /\ ~t[v].active /\ ~t[v].default
      /\ t[v].name = rows[v].name /\ t[v].values = rows[v].values
  BY <1>3, <1>6 DEF Existing, ExistingIn
<1>9. /\ DistinctIn(t) /\ ExistingIn(t) \subseteq Existing
      /\ \A w \in Existing : w # v => t[w].state = "row" /\ t[w].values = rows[w].values
      /\ OneDefaultIn(rows) /\ ActiveIn(rows) # {v} =>
            /\ ActiveIn(t) # {} /\ OneClaims(t)
            /\ ~rows[v].default => OneDefaultIn(t)
  BY <1>1, <1>4, <1>7, <1>8, RowGoes
<1> QED
  BY <1>1, <1>2, <1>7, <1>8, <1>9, GoneLands

LEMMA EraseLands ==
    ASSUME BuilderInv, NEW v \in Rows, product' = product, asked[v] # {}, Erase(v),
           asked' = [asked EXCEPT ![v] = {}], uses[v] # "traded"
    PROVE  Lands
<1> DEFINE t == [rows EXCEPT ![v] = Erased]
<1>1. /\ rows' = IF "default" \in asked[v] THEN EnsureDefault(t) ELSE t
      /\ "unused" \in asked[v]
  BY DEF Erase
<1>2. Table(rows)
  BY DEF BuilderInv
<1>3. /\ t[v] = Erased
      /\ \A w \in Rows : w # v => t[w] = rows[w]
      /\ t = [w \in Rows |-> t[w]]
  BY <1>2 DEF Table
<1> HIDE DEF t
<1>4. Erased.state # "row" /\ IsRow(Erased)
  BY DEF Erased, NoRow, IsRow
<1>5. Table(t) /\ t[v].state # "row"
  BY <1>2, <1>3, <1>4 DEF Table
<1>6. /\ DistinctIn(t) /\ ExistingIn(t) \subseteq Existing
      /\ \A w \in Existing : w # v => t[w].state = "row" /\ t[w].values = rows[w].values
      /\ OneDefaultIn(rows) /\ ActiveIn(rows) # {v} =>
            /\ ActiveIn(t) # {} /\ OneClaims(t)
            /\ ~rows[v].default => OneDefaultIn(t)
  BY <1>3, <1>5, RowGoes
<1> QED
  BY <1>1, <1>5, <1>6, GoneLands

LEMMA DeleteLands ==
    ASSUME BuilderInv, NEW v \in Rows, AskDelete(v) \/ DeleteVariant(v)
    PROVE  Lands
<1>1. product' = product /\ DOMAIN asked' = Rows
  BY DEF AskDelete, DeleteVariant, BuilderInv
<1>2. CASE rows' = rows
  BY <1>1, <1>2, RestLands
<1>3. CASE AskDelete(v)
  BY <1>2, <1>3 DEF AskDelete
<1>4. CASE DeleteVariant(v)
  <2>1. asked[v] # {} /\ asked' = [asked EXCEPT ![v] = {}] /\ (Retire(v) \/ Erase(v))
    BY <1>4 DEF DeleteVariant
  <2>2. CASE Retire(v) /\ v \in Existing
    BY <1>1, <2>1, <2>2, RetireLands
  <2>3. CASE Retire(v) /\ v \notin Existing
    BY <1>2, <2>3 DEF Retire
  <2>4. CASE Erase(v) /\ uses[v] # "traded"
    BY <1>1, <2>1, <2>4, EraseLands
  <2>5. CASE Erase(v) /\ uses[v] = "traded"
    BY <1>2, <2>5 DEF Erase
  <2> QED
    BY <2>1, <2>2, <2>3, <2>4, <2>5
<1> QED
  BY <1>3, <1>4

\* A table that differs from the good one in the flags alone.
LEMMA FlagsLand ==
    ASSUME BuilderInv, product # "gone", product' = product, asked' = asked,
           NEW t, Table(t), SameVariants(rows, t),
           OneDefaultIn(rows) => ActiveIn(t) # {} /\ OneClaims(t),
           rows' = EnsureDefault(t)
    PROVE  Lands
<1>1. GoodTable(rows)
  BY GoodRows
<1>2. FitTable(t)
  BY <1>1, FlagsAlone DEF GoodTable, FitTable
<1>3. GoodTable(EnsureDefault(t))
  BY <1>2, EnsuredIsGood
<1> QED
  BY <1>3, GoodLands DEF GoodTable

LEMMA BulkLands ==
    ASSUME BuilderInv, NEW listed \in SUBSET Existing, NEW active \in SUBSET listed,
           NEW default \in SUBSET active, \A x, y \in default : x = y,
           BulkSave(listed, active, default)
    PROVE  Lands
<1> DEFINE on == [v \in Rows |-> v \in active]
           mark == [v \in Rows |-> v \in default]
           keep == [v \in Rows |-> rows[v].default /\ default = {}]
           t == [v \in Rows |->
                   IF v \in listed THEN [rows[v] EXCEPT !.active = on[v], !.default = mark[v]]
                   ELSE [rows[v] EXCEPT !.default = keep[v]]]
<1>1. /\ \A v \in Rows : on[v] \in BOOLEAN /\ mark[v] \in BOOLEAN /\ keep[v] \in BOOLEAN
      /\ \A v \in Rows : (on[v] <=> v \in active)
      /\ \A v \in Rows : (mark[v] <=> v \in default)
      /\ \A v \in Rows : (keep[v] <=> rows[v].default /\ default = {})
  <2>1. \A v \in Rows : on[v] \in BOOLEAN
    OBVIOUS
  <2>2. \A v \in Rows : mark[v] \in BOOLEAN
    OBVIOUS
  <2>3. \A v \in Rows : keep[v] \in BOOLEAN
    OBVIOUS
  <2>4. \A v \in Rows : (on[v] <=> v \in active)
    OBVIOUS
  <2>5. \A v \in Rows : (mark[v] <=> v \in default)
    OBVIOUS
  <2>6. \A v \in Rows : (keep[v] <=> rows[v].default /\ default = {})
    OBVIOUS
  <2> HIDE DEF on, mark, keep
  <2> QED
    BY <2>1, <2>2, <2>3, <2>4, <2>5, <2>6
<1>2. rows' = EnsureDefault(t) /\ product' = product /\ asked' = asked
  BY DEF BulkSave
<1>3. /\ t = [v \in Rows |-> t[v]]
      /\ \A v \in Rows : v \in listed => t[v] = [rows[v] EXCEPT !.active = on[v], !.default = mark[v]]
      /\ \A v \in Rows : v \notin listed => t[v] = [rows[v] EXCEPT !.default = keep[v]]
  OBVIOUS
<1> HIDE DEF on, mark, keep, t
<1>4. ASSUME NEW v \in Rows
      PROVE  /\ IsRow(t[v])
             /\ t[v].state = rows[v].state /\ t[v].name = rows[v].name
             /\ t[v].values = rows[v].values
             /\ v \in listed => t[v].active = on[v] /\ t[v].default = mark[v]
             /\ v \notin listed => t[v].active = rows[v].active /\ t[v].default = keep[v]
  <2>1. IsRow(rows[v])
    BY DEF BuilderInv, Table
  <2>2. CASE v \in listed
    <3>1. on[v] \in BOOLEAN /\ mark[v] \in BOOLEAN
      BY <1>1
    <3>2. /\ [rows[v] EXCEPT !.active = on[v], !.default = mark[v]] =
                [state |-> rows[v].state, name |-> rows[v].name, values |-> rows[v].values,
                 default |-> mark[v], active |-> on[v]]
          /\ IsRow([rows[v] EXCEPT !.active = on[v], !.default = mark[v]])
      BY <2>1, <3>1, ReflaggedRow
    <3>3. t[v] = [rows[v] EXCEPT !.active = on[v], !.default = mark[v]]
      BY <1>3, <2>2
    <3> QED
      BY <2>2, <3>2, <3>3
  <2>3. CASE v \notin listed
    <3>1. keep[v] \in BOOLEAN
      BY <1>1
    <3>2. /\ [rows[v] EXCEPT !.default = keep[v]] =
                [state |-> rows[v].state, name |-> rows[v].name, values |-> rows[v].values,
                 default |-> keep[v], active |-> rows[v].active]
          /\ IsRow([rows[v] EXCEPT !.default = keep[v]])
      BY <2>1, <3>1, FlaggedRow
    <3>3. t[v] = [rows[v] EXCEPT !.default = keep[v]]
      BY <1>3, <2>3
    <3> QED
      BY <2>3, <3>2, <3>3
  <2> QED
    BY <2>2, <2>3
<1>5. Table(t) /\ SameVariants(rows, t)
  BY <1>3, <1>4 DEF Table, SameVariants
<1>6. ExistingIn(t) = Existing /\ Existing \subseteq Rows
  BY <1>4 DEF Existing, ExistingIn
<1>7. product # "gone"
  <2>1. Existing # {}
    BY DEF BulkSave
  <2> QED
    BY <2>1, GoodRows
<1>8. ActiveIn(t) # {}
  <2>1. CASE active # {}
    <3>1. PICK a \in active : TRUE
      BY <2>1
    <3>2. a \in listed /\ a \in Rows /\ a \in ExistingIn(t)
      BY <1>6
    <3>3. t[a].active
      BY <1>1, <1>4, <3>1, <3>2
    <3> QED
      BY <3>2, <3>3 DEF ActiveIn
  <2>2. CASE active = {}
    <3>1. PICK a \in ActiveIn(rows) : a \notin listed
      BY <2>2 DEF BulkSave
    <3>2. a \in Rows /\ a \in ExistingIn(t) /\ rows[a].active
      BY <1>6 DEF ActiveIn, Existing
    <3>3. t[a].active
      BY <1>4, <3>1, <3>2
    <3> QED
      BY <3>2, <3>3 DEF ActiveIn
  <2> QED
    BY <2>1, <2>2
<1>9. ASSUME OneDefaultIn(rows) PROVE OneClaims(t)
  <2> SUFFICES ASSUME NEW x \in Existing, NEW y \in Existing, t[x].default, t[y].default
               PROVE  y = x
    BY <1>6 DEF OneClaims, ActiveIn
  <2>1. ASSUME NEW v \in Existing, t[v].default
        PROVE  v \in default \/ (rows[v].default /\ default = {})
    <3>1. v \in Rows
      BY <1>6
    <3>2. CASE v \in listed
      <4>1. mark[v]
        BY <1>4, <2>1, <3>1, <3>2
      <4> QED
        BY <1>1, <3>1, <4>1
    <3>3. CASE v \notin listed
      <4>1. keep[v]
        BY <1>4, <2>1, <3>1, <3>3
      <4> QED
        BY <1>1, <3>1, <4>1
    <3> QED
      BY <3>2, <3>3
  <2>2. PICK d \in Rows : \A w \in Existing : rows[w].default <=> w = d
    BY <1>6, <1>9 DEF OneDefaultIn, ActiveIn, Existing
  <2>3. CASE default = {}
    BY <2>1, <2>2, <2>3
  <2>4. CASE default # {}
    BY <2>1, <2>4
  <2> QED
    BY <2>3, <2>4
<1> QED
  BY <1>2, <1>5, <1>7, <1>8, <1>9, FlagsLand

\* The product form writes the flag of its first row, or a row of its own.
LEMMA SaveLands ==
    ASSUME BuilderInv, NEW status, status # "gone", SaveProduct(status)
    PROVE  Lands
<1> DEFINE fresh == {v \in Rows : rows[v].state = "unborn"}
<1>1. /\ product # "gone" /\ product' = status /\ asked' = asked
      /\ Table(rows) /\ FitTable(rows)
  BY GoodRows DEF SaveProduct, BuilderInv, GoodTable
<1>2. CASE Existing = {}
  <2>1. fresh # {} /\ rows' = [rows EXCEPT ![Min(fresh)] = PlainRow]
    BY <1>2 DEF SaveProduct
  <2>2. Min(fresh) \in Rows
    BY <2>1, LeastRow
  <2>3. /\ IsRow(PlainRow) /\ OneEach(PlainRow.values)
    BY DEF PlainRow, IsRow, OneEach
  <2>4. Table(rows')
    BY <1>1, <2>1, <2>2, <2>3 DEF Table
  <2>5. ExistingIn(rows') \subseteq {Min(fresh)} /\ rows'[Min(fresh)] = PlainRow
    BY <1>1, <1>2, <2>1, <2>2 DEF Table, Existing, ExistingIn
  <2>6. DistinctIn(rows')
    BY <2>3, <2>5 DEF DistinctIn
  <2>7. UsedKeptIn(rows') /\ ~OneDefaultIn(rows)
    BY <1>2 DEF UsedKeptIn, OneDefaultIn, ActiveIn, Existing
  <2> QED
    BY <1>1, <2>4, <2>6, <2>7, GoodLands DEF FitTable, DefaultKeptIn
<1>3. CASE Existing # {} /\ \E v \in Existing : rows[v].default
  <2>1. rows' = rows
    BY <1>3 DEF SaveProduct
  <2> QED
    BY <1>1, <2>1, GoodLands DEF DefaultKeptIn
<1>4. CASE Existing # {} /\ ~\E v \in Existing : rows[v].default
  <2> DEFINE d == Min(Existing)
  <2>1. rows' = [rows EXCEPT ![d].default = TRUE]
    BY <1>4 DEF SaveProduct
  <2>2. d \in Existing /\ d \in Rows
    <3>1. Existing \in SUBSET Rows
      BY DEF Existing, ExistingIn
    <3> QED
      BY <1>4, <3>1, LeastRow
  <2> HIDE DEF d
  <2>3. PICK yes \in BOOLEAN : yes = TRUE
    OBVIOUS
  <2>4. /\ rows'[d] = [rows[d] EXCEPT !.default = yes]
        /\ \A w \in Rows : w # d => rows'[w] = rows[w]
        /\ rows' = [w \in Rows |-> rows'[w]]
    BY <1>1, <2>1, <2>2, <2>3 DEF Table
  <2>5. IsRow(rows[d])
    BY <1>1, <2>2 DEF Table
  <2>6. /\ rows'[d] = [state |-> rows[d].state, name |-> rows[d].name, values |-> rows[d].values,
                       default |-> yes, active |-> rows[d].active]
        /\ IsRow(rows'[d])
    <3>1. /\ [rows[d] EXCEPT !.default = yes] =
                [state |-> rows[d].state, name |-> rows[d].name, values |-> rows[d].values,
                 default |-> yes, active |-> rows[d].active]
          /\ IsRow([rows[d] EXCEPT !.default = yes])
      BY <2>5, FlaggedRow
    <3> QED
      BY <2>4, <3>1
  <2>7. Table(rows') /\ SameVariants(rows, rows')
    BY <1>1, <2>4, <2>6 DEF Table, SameVariants
  <2>8. FitTable(rows')
    BY <1>1, <2>7, FlagsAlone DEF FitTable
  <2>9. ~OneDefaultIn(rows)
    BY <1>4 DEF OneDefaultIn, ActiveIn, Existing
  <2> QED
    BY <1>1, <2>8, <2>9, GoodLands DEF DefaultKeptIn
<1> QED
  BY <1>2, <1>3, <1>4

LEMMA ProductLands ==
    ASSUME BuilderInv, (\E status : SetStatus(status) /\ status # "gone") \/ DeleteProduct
    PROVE  Lands
<1>1. product # "gone" /\ asked' = asked /\ DOMAIN asked' = Rows /\ FitTable(rows)
  BY GoodRows DEF SetStatus, DeleteProduct, BuilderInv, GoodTable
<1>2. CASE product' # "gone" /\ rows' = rows
  BY <1>1, <1>2, GoodLands DEF DefaultKeptIn
<1>3. CASE \E status : SetStatus(status) /\ status # "gone"
  BY <1>2, <1>3 DEF SetStatus
<1>4. CASE DeleteProduct
  <2>1. CASE \E v \in Existing : uses[v] = "traded"
    BY <1>2, <1>4, <2>1 DEF DeleteProduct
  <2>2. CASE ~\E v \in Existing : uses[v] = "traded"
    <3>1. product' = "gone" /\ rows' = [v \in Rows |-> Erased]
      BY <1>4, <2>2 DEF DeleteProduct
    <3>2. Erased.state # "row" /\ IsRow(Erased)
      BY DEF Erased, NoRow, IsRow
    <3>3. Table(rows') /\ ExistingIn(rows') = {} /\ \A v \in Existing : rows'[v].state # "row"
      BY <3>1, <3>2 DEF Table, ExistingIn, Existing
    <3> QED
      BY <1>1, <2>2, <3>1, <3>3 DEF Lands, DistinctIn, Kept
  <2> QED
    BY <2>1, <2>2
<1> QED
  BY <1>3, <1>4

LEMMA BuilderSteps ==
    ASSUME BuilderInv, [BuilderNext]_builderVars
    PROVE  Lands
<1>1. CASE Generate
  BY <1>1, GenerateLands
<1>2. CASE Edit
  BY <1>2, EditLands DEF Edit
<1>3. CASE AddVariant
  BY <1>3, AddLands
<1>4. CASE Delete
  BY <1>4, DeleteLands DEF Delete
<1>5. CASE Bulk
  <2>1. PICK listed \in SUBSET Existing : \E active \in SUBSET listed :
            \E default \in {{}} \cup {{v} : v \in active} : BulkSave(listed, active, default)
    BY <1>5 DEF Bulk
  <2>2. PICK active \in SUBSET listed :
            \E default \in {{}} \cup {{v} : v \in active} : BulkSave(listed, active, default)
    BY <2>1
  <2>3. PICK default \in {{}} \cup {{v} : v \in active} : BulkSave(listed, active, default)
    BY <2>2
  <2>4. default \in SUBSET active /\ \A x, y \in default : x = y
    OBVIOUS
  <2> QED
    BY <2>3, <2>4, BulkLands
<1>6. CASE Touch
  BY <1>6, RestLands DEF Touch, Use, BuilderInv
<1>7. CASE Status
  <2>1. PICK status \in {"active", "draft", "archived"} : SetStatus(status) \/ SaveProduct(status)
    BY <1>7 DEF Status
  <2>2. status # "gone"
    OBVIOUS
  <2> QED
    BY <2>1, <2>2, ProductLands, SaveLands
<1>8. CASE DeleteProduct
  BY <1>8, ProductLands
<1>9. CASE Curate
  BY <1>9, RestLands DEF Curate, ToggleValue, DeleteValue, RenameValue, BuilderInv
<1>10. CASE UNCHANGED builderVars
  BY <1>10, RestLands DEF builderVars, BuilderInv
<1> QED
  BY <1>1, <1>2, <1>3, <1>4, <1>5, <1>6, <1>7, <1>8, <1>9, <1>10 DEF BuilderNext

LEMMA BuilderStarts ==
    ASSUME BuilderInit
    PROVE  BuilderInv
<1> DEFINE first == Min(Rows)
<1>1. first \in Rows
  BY LeastRow, BuilderAssumption
<1>2. /\ rows = [v \in Rows |-> IF v # first THEN Unborn ELSE PlainRow]
      /\ product = "active" /\ DOMAIN asked = Rows
  BY DEF BuilderInit
<1>3. /\ IsRow(Unborn) /\ Unborn.state # "row"
      /\ IsRow(PlainRow) /\ PlainRow.state = "row" /\ PlainRow.values = {}
  BY DEF Unborn, NoRow, IsRow, PlainRow
<1> HIDE DEF first
<1>4. Existing = {first}
  BY <1>1, <1>2, <1>3 DEF Existing, ExistingIn
<1>5. Table(rows)
  BY <1>2, <1>3 DEF Table
<1>6. rows[first] = PlainRow
  BY <1>1, <1>2
<1>7. DistinctIn(rows)
  BY <1>3, <1>4, <1>6 DEF DistinctIn, Existing, OneEach
<1> QED
  BY <1>2, <1>5, <1>7 DEF BuilderInv

\* The rows of a product keep BuilderInv: distinct combinations, and nothing left of a
\* product that is gone, whatever the pages generate, edit and delete.
THEOREM VariantsInvariant == BuilderSpec => []BuilderInv
<1>1. BuilderInit => BuilderInv
  BY BuilderStarts
<1>2. BuilderInv /\ [BuilderNext]_builderVars => BuilderInv'
  BY BuilderSteps, LandsEnough
<1> QED
  BY <1>1, <1>2, PTL DEF BuilderSpec

\* A product with one default variant, which is active, keeps one, for any library of
\* values and any selection of combinations, but for the form that switches the only
\* active variant off and a deletion that comes late (variant_views.py,
\* _ensure_default_variant).
THEOREM OneVariantIsDefault == BuilderSpec => OneActiveDefault
<1>1. BuilderInv /\ [BuilderNext]_builderVars =>
        [SoundDefault /\ product' # "gone" =>
          \/ SoundDefault'
          \/ \E v \in Rows : ActiveIn(rows) = {v} /\ EditVariant(v)
          \/ \E v \in Rows : LateDeletion(v)]_builderVars
  <2>1. (SoundDefault <=> OneDefaultIn(rows)) /\ (SoundDefault' <=> OneDefaultIn(rows'))
    BY DEF SoundDefault, OneDefaultIn, Existing
  <2> QED
    BY <2>1, BuilderSteps DEF Lands, Excused
<1> QED
  BY <1>1, VariantsInvariant, PTL DEF BuilderSpec, OneActiveDefault

\* No two variants are the same combination or bear the same name.
THEOREM VariantsStayDistinct == BuilderSpec => []CombinationsDistinct
<1>1. BuilderInv => CombinationsDistinct
  BY DEF BuilderInv, DistinctIn, CombinationsDistinct, Existing
<1> QED
  BY <1>1, VariantsInvariant, PTL

\* A variant with stock or business history keeps its combination and, if it was traded,
\* its row, whatever the generator reuses, the forms save and the delete button finds
\* (variant_usage_reasons).
THEOREM HistoryKeepsIdentity == BuilderSpec => UsedKeepIdentity
<1>1. BuilderInv /\ [BuilderNext]_builderVars =>
        [\A v \in Existing : UsageReasons(v) =>
            IF rows'[v].state = "row" THEN rows'[v].values = rows[v].values
            ELSE /\ uses[v] # "traded"
                 /\ product' = "gone" \/ ("unused" \in asked[v] /\ asked'[v] = {})]_builderVars
  BY BuilderSteps, LandsEnough DEF Kept
<1> QED
  BY <1>1, VariantsInvariant, PTL DEF BuilderSpec, UsedKeepIdentity
=============================================================================
