------------------------------ MODULE Contacts ------------------------------
(***************************************************************************)
(* The contact groups and the message templates of the apps                *)
(* (server/src/routes/contact-groups.ts, message-templates.ts).  Campaigns *)
(* copy what they take from them when they are made (BulkCampaigns), so    *)
(* groups and templates are edited and deleted freely.                     *)
(***************************************************************************)
EXTENDS Integers, FiniteSets

CONSTANTS
    Tenant,     \* apps
    Group,      \* ids of contact_groups
    Template,   \* ids of message_templates
    Name,
    Phone,
    GroupMax,   \* PHONE_GROUP_MAX
    TemplateMax,\* TEMPLATE_APP_MAX
    NoRow       \* no row has this id

ASSUME ContactsAssumption ==
    /\ GroupMax \in Nat /\ TemplateMax \in Nat
    /\ IsFiniteSet(Phone) /\ IsFiniteSet(Template)

VARIABLES
    group,      \* contact_groups with contact_group_phones
    template    \* message_templates

contactsVars == <<group, template>>

GroupRow == [app : Tenant, name : Name, count : Nat, phones : SUBSET Phone]
TemplateRow == [app : Tenant, name : Name]

ASSUME RowAssumption == NoRow \notin GroupRow \union TemplateRow

ContactsTypeOK ==
    /\ group \in [Group -> GroupRow \union {NoRow}]
    /\ template \in [Template -> TemplateRow \union {NoRow}]

ContactsInit ==
    /\ group = [g \in Group |-> NoRow]
    /\ template = [m \in Template |-> NoRow]

\* loadOwnedGroup, loadOwnedTemplate; and the name that is unique within an app.
Owned(table, t, i) == table[i] # NoRow /\ table[i].app = t
Taken(table, t, n, i) == \E k \in DOMAIN table \ {i} : Owned(table, t, k) /\ table[k].name = n

\* The phones of a group change, and its count with them.
Holds(g, phones) ==
    /\ group' = [group EXCEPT ![g] = [@ EXCEPT !.phones = phones, !.count = Cardinality(phones)]]
    /\ UNCHANGED template

-----------------------------------------------------------------------------

\* POST /v5/contact-groups: at least one phone, each once.
CreateGroup(t, g, n, phones) ==
    /\ group[g] = NoRow /\ ~Taken(group, t, n, g)
    /\ phones # {} /\ Cardinality(phones) <= GroupMax
    /\ group' = [group EXCEPT ![g] =
                   [app |-> t, name |-> n, count |-> Cardinality(phones), phones |-> phones]]
    /\ UNCHANGED template

\* PATCH /v5/contact-groups/:id
RenameGroup(t, g, n) ==
    /\ Owned(group, t, g) /\ ~Taken(group, t, n, g)
    /\ group' = [group EXCEPT ![g] = [@ EXCEPT !.name = n]]
    /\ UNCHANGED template

\* DELETE /v5/contact-groups/:id: the phones go with the row.
DeleteGroup(t, g) ==
    /\ Owned(group, t, g)
    /\ group' = [group EXCEPT ![g] = NoRow]
    /\ UNCHANGED template

\* POST /v5/contact-groups/:id/phones: those that are new, all or none.
AddPhones(t, g, phones) ==
    /\ Owned(group, t, g) /\ phones # {}
    /\ Cardinality(group[g].phones \union phones) <= GroupMax
    /\ Holds(g, group[g].phones \union phones)

\* DELETE /v5/contact-groups/:id/phones
RemovePhones(t, g, phones) ==
    /\ Owned(group, t, g) /\ phones # {}
    /\ Holds(g, group[g].phones \ phones)

\* POST /v5/message-templates
CreateTemplate(t, m, n) ==
    /\ template[m] = NoRow /\ ~Taken(template, t, n, m)
    /\ Cardinality({k \in Template : Owned(template, t, k)}) < TemplateMax
    /\ template' = [template EXCEPT ![m] = [app |-> t, name |-> n]]
    /\ UNCHANGED group

\* PATCH /v5/message-templates/:id
RenameTemplate(t, m, n) ==
    /\ Owned(template, t, m) /\ ~Taken(template, t, n, m)
    /\ template' = [template EXCEPT ![m] = [@ EXCEPT !.name = n]]
    /\ UNCHANGED group

\* DELETE /v5/message-templates/:id
DeleteTemplate(t, m) ==
    /\ Owned(template, t, m)
    /\ template' = [template EXCEPT ![m] = NoRow]
    /\ UNCHANGED group

ContactsStep(t) ==
    \/ \E g \in Group, n \in Name :
          \/ RenameGroup(t, g, n)
          \/ \E phones \in SUBSET Phone : CreateGroup(t, g, n, phones)
    \/ \E g \in Group, phones \in SUBSET Phone : AddPhones(t, g, phones) \/ RemovePhones(t, g, phones)
    \/ \E g \in Group : DeleteGroup(t, g)
    \/ \E m \in Template, n \in Name : CreateTemplate(t, m, n) \/ RenameTemplate(t, m, n)
    \/ \E m \in Template : DeleteTemplate(t, m)

ContactsNext == \E t \in Tenant : ContactsStep(t)

ContactsSpec == ContactsInit /\ [][ContactsNext]_contactsVars

-----------------------------------------------------------------------------

\* The count shown for a group is the number of its phones, after any sequence of
\* additions that repeat phones, removals of phones it has not, and deletions; and
\* no sequence of additions takes a group past the limit
\* (contact-groups.ts:313-343, 366-385).
CountIsMembership ==
    \A g \in Group : group[g] # NoRow =>
        group[g].count = Cardinality(group[g].phones) /\ group[g].count <= GroupMax

\* Two groups, or two templates, of one app never have one name, by creation or by
\* renaming (contact-groups.ts:92-110, 250-273; message-templates.ts:95-120, 186-205).
NamesApart(table) ==
    \A i, k \in DOMAIN table :
        i # k /\ table[i] # NoRow /\ table[k] # NoRow /\ table[i].app = table[k].app
        => table[i].name # table[k].name
NamesAreApart == NamesApart(group) /\ NamesApart(template)
=============================================================================
