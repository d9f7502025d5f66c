------------------------------- MODULE Tenants -------------------------------
(***************************************************************************)
(* The accounts with what their apps keep: every request for groups and    *)
(* templates passes requireApp, which reads the app, its company and its   *)
(* owner (server/src/middleware.ts:178-283).                               *)
(***************************************************************************)
EXTENDS Accounts, Contacts

ASSUME TenantsAssumption == Tenant \subseteq App

tenantsVars == <<accountsVars, contactsVars>>

TenantsTypeOK == AccountsTypeOK /\ ContactsTypeOK

TenantsInit == AccountsInit /\ ContactsInit

AppRequest(t) == Served(t) /\ ContactsStep(t) /\ UNCHANGED accountsVars

TenantsNext ==
    \/ AccountsNext /\ UNCHANGED contactsVars
    \/ \E t \in Tenant : AppRequest(t)

TenantsSpec == TenantsInit /\ [][TenantsNext]_tenantsVars

-----------------------------------------------------------------------------

\* While an account is withheld nothing its apps keep is changed, whichever app made
\* the group and however the app came to its owner (middleware.ts:228-236).
WithheldKeepsAll ==
    [][\A g \in Group :
          group[g] # NoRow /\ owner[group[g].app] \in withheld => group'[g] = group[g]
      ]_tenantsVars
=============================================================================
