---------------------------- MODULE MCProvision ----------------------------
(* Provision with its ldif names as strings, and the databases, naming    *)
(* contexts and name mappings as model values; the record of a foreign    *)
(* principal is named by its mapping (see MCInstallCheck.cfg).             *)
EXTENDS Provision

MCLdifs == {"share.ldif", "secrets.ldif", "hklm.ldif",
            "provision_partitions.ldif", "provision_init.ldif",
            "provision_basedn.ldif", "schema_samba4.ldif", "schema.ldif",
            "display_specifiers.ldif", "provision_templates.ldif",
            "provision.ldif", "provision_users.ldif",
            "provision_index.ldif"} \cup Foreign
=============================================================================
