------------------------------ MODULE MCFleet ------------------------------
(***************************************************************************)
(* Tenants, Devices, Listing and Templates in one run.  They share no      *)
(* variable: instead of the product of their states, the initial state     *)
(* picks which of them moves, and the others stay at one initial state.    *)
(***************************************************************************)
EXTENDS Tenants, Devices, Listing, Templates

VARIABLE focus

vars == <<tenantsVars, devicesVars, listingVars, templatesVars, focus>>

Init ==
    /\ focus \in {"tenants", "devices", "listing", "templates"}
    /\ TenantsInit
    /\ focus # "tenants" => address = [t \in Tenant |-> NoErp]
    /\ DevicesInit
    /\ ListingInit
    /\ focus # "listing" => /\ created = [r \in Row |-> 0]
                            /\ query = CHOOSE q \in Queries : TRUE
    /\ TemplatesInit

Next ==
    /\ \/ /\ focus = "tenants" /\ TenantsNext
          /\ UNCHANGED <<devicesVars, listingVars, templatesVars>>
       \/ /\ focus = "devices" /\ DevicesNext
          /\ UNCHANGED <<tenantsVars, listingVars, templatesVars>>
       \/ /\ focus = "listing" /\ ListingNext
          /\ UNCHANGED <<tenantsVars, devicesVars, templatesVars>>
       \/ /\ focus = "templates" /\ TemplatesNext
          /\ UNCHANGED <<tenantsVars, devicesVars, listingVars>>
    /\ UNCHANGED focus

Spec == Init /\ [][Next]_vars
=============================================================================
