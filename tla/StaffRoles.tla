------------------------------ MODULE StaffRoles -----------------------------
(***************************************************************************)
(* Who may do what in the dashboard: staff_access/permissions.py, the role *)
(* and user pages of staff_access/views.py and forms.py, services.py.      *)
(*                                                                         *)
(* A role is a Django group.  What counts as a staff role is computed from *)
(* the groups: those with the name of a system role and those that grant   *)
(* some staff permission.  The pages offer and replace these groups only.  *)
(* Superusers, who have every permission and no role, are left out, and so *)
(* are is_active and the extra permissions of a user, which no role        *)
(* touches.                                                                *)
(*                                                                         *)
(* Saving a user takes no lock and no transaction: each statement of it    *)
(* commits by itself, another save of the same user may run in between,    *)
(* and the request may break off anywhere.                                 *)
(***************************************************************************)
CONSTANTS
    Groups,         \* rows of auth_group
    SystemNames,    \* SYSTEM_ROLE_NAMES, "Admin" among them
    OtherNames,     \* other names, for custom roles
    Permissions,    \* the staff permissions
    RoleDefault,    \* RoleDefault[n]: what a system role grants when it is created
    Staff,          \* staff users
    Forms           \* requests of the user page

ASSUME RolesAssumption ==
    /\ "Admin" \in SystemNames
    /\ SystemNames \cap OtherNames = {}
    /\ "none" \notin SystemNames \cup OtherNames
    /\ RoleDefault \in [SystemNames -> SUBSET Permissions]
    /\ RoleDefault["Admin"] = Permissions

VARIABLES
    role,           \* role[g]: name and permissions of the group, or none
    groups,         \* groups[u]: auth_user_groups of a user, a new one or an old one
    form,           \* form[f]: the save under way, the roles it read, what comes next
    alone,          \* history: saves under way that no other of the same user overlaps
    sound           \* history: users whose last save ran alone from start to end

roleVars == <<role, groups, form, alone, sound>>

NoRole == [name |-> "none", grants |-> {}]
NoSave == [next |-> "none"]

Named(n) == {g \in Groups : role[g].name = n}
IsSystem(g) == role[g].name \in SystemNames

\* staff_role_groups_queryset
RoleGroups == {g \in Groups : IsSystem(g) \/ role[g].grants # {}}

-----------------------------------------------------------------------------
(* Roles *)

\* RoleCreateForm
AddRole(g, n, grants) ==
    /\ role[g] = NoRole
    /\ Named(n) = {}
    /\ grants # {}
    /\ role' = [role EXCEPT ![g] = [name |-> n, grants |-> grants]]
    /\ UNCHANGED <<groups, form, alone, sound>>

\* Slip: any role may be left without a permission.
MayGrantNothing(g, grants) == TRUE

\* RolePermissionForm: a system role keeps its name and may be left with nothing.
MayGrant(g, grants) == IsSystem(g) \/ grants # {}

MayRename(g, n) ==
    IF IsSystem(g) THEN n = role[g].name ELSE Named(n) \subseteq {g}

EditRole(g, n, grants) ==
    /\ g \in RoleGroups
    /\ role[g].name # "Admin"
    /\ MayRename(g, n)
    /\ MayGrant(g, grants)
    /\ role' = [role EXCEPT ![g] = [name |-> n, grants |-> grants]]
    /\ UNCHANGED <<groups, form, alone, sound>>

\* One role of sync_system_roles, after each migration and whenever the roles page is
\* opened: a missing role gets its defaults, Admin everything, the others stay.
SyncRole(n, g) ==
    /\ IF Named(n) = {} THEN role[g] = NoRole ELSE g \in Named(n) /\ n = "Admin"
    /\ role' = [role EXCEPT ![g] = [name |-> n, grants |-> RoleDefault[n]]]
    /\ UNCHANGED <<groups, form, alone, sound>>

-----------------------------------------------------------------------------
(* Users *)

\* Saves of u under way.
Saving(u) == {f \in Forms : form[f] # NoSave /\ form[f].user = u}

\* StaffUserForm takes a role and saves the row, and assign_system_role reads the
\* roles the user has, which the first two do not write.
OpenSave(f, u, g) ==
    /\ form[f] = NoSave
    /\ g \in RoleGroups
    /\ form' = [form EXCEPT ![f] = [next |-> "remove", user |-> u, role |-> g,
                                    found |-> groups[u] \cap RoleGroups]]
    /\ alone' = IF Saving(u) = {} THEN alone \cup {f} ELSE alone \ Saving(u)
    /\ sound' = IF Saving(u) = {} THEN sound ELSE sound \ {u}
    /\ UNCHANGED <<role, groups>>

\* Slip: a user keeps the groups of earlier roles.
RemoveNothing(f) ==
    /\ form[f].next = "remove"
    /\ form' = [form EXCEPT ![f].next = "add"]
    /\ UNCHANGED <<role, groups, alone, sound>>

\* The roles found are removed, whatever the user has by now ...
RemoveRoles(f) ==
    /\ form[f].next = "remove"
    /\ groups' = [groups EXCEPT ![form[f].user] = @ \ form[f].found]
    /\ form' = [form EXCEPT ![f].next = "add"]
    /\ UNCHANGED <<role, alone, sound>>

\* ... and the new one is added.
AssignRole(f) ==
    /\ form[f].next = "add"
    /\ groups' = [groups EXCEPT ![form[f].user] = @ \cup {form[f].role}]
    /\ form' = [form EXCEPT ![f] = NoSave]
    /\ alone' = alone \ {f}
    /\ sound' = IF f \in alone THEN sound \cup {form[f].user} ELSE sound
    /\ UNCHANGED role

\* The process or its connection to the database ends.
BreakOff(f) ==
    /\ form[f] # NoSave
    /\ form' = [form EXCEPT ![f] = NoSave]
    /\ alone' = alone \ {f}
    /\ sound' = sound \ {form[f].user}
    /\ UNCHANGED <<role, groups>>

-----------------------------------------------------------------------------

RoleInit ==
    /\ role = [g \in Groups |-> NoRole]
    /\ groups = [u \in Staff |-> {}]
    /\ form = [f \in Forms |-> NoSave]
    /\ alone = {}
    /\ sound = {}

\* The dashboard is up once the migration has made the system roles.
Migrated == \A n \in SystemNames : Named(n) # {}

RolePages ==
    \/ \E n \in SystemNames, g \in Groups : SyncRole(n, g)
    \/ Migrated /\ \E g \in Groups, n \in SystemNames \cup OtherNames, grants \in SUBSET Permissions :
          AddRole(g, n, grants) \/ EditRole(g, n, grants)

UserPages ==
    \E f \in Forms :
        \/ Migrated /\ \E u \in Staff, g \in Groups : OpenSave(f, u, g)
        \/ RemoveRoles(f) \/ AssignRole(f) \/ BreakOff(f)

RoleNext == RolePages \/ UserPages

RoleSpec == RoleInit /\ [][RoleNext]_roleVars

-----------------------------------------------------------------------------
(* Properties *)

\* "Assign exactly one TechBari staff role, including custom roles"
\* (staff_access/services.py:49), as far as its statements keep it.  A save that no
\* other save of the user overlaps and that runs to its end leaves the user one role,
\* whatever overlapping and broken saves left him before and however roles are made,
\* renamed and emptied meanwhile; from then on he has one role, and during later saves
\* never two, until saves overlap or break off again.  Nobody has a group that is no
\* role any more, out of sight of the pages.
OneRoleEach ==
    /\ \A u \in Staff :
          /\ groups[u] \subseteq RoleGroups
          /\ u \in sound => \A g, h \in groups[u] : g = h
          /\ u \in sound /\ Saving(u) = {} => groups[u] # {}
    /\ \A g, h \in Groups : role[g] # NoRole /\ role[g].name = role[h].name => g = h
    /\ \A g \in Named("Admin") : role[g].grants = Permissions
=============================================================================
