---------------------------- MODULE SurfacesData ----------------------------
(***************************************************************************)
(* The data surfaces: vaults, storage accounts, disks and snapshots, and   *)
(* the deployment history.  What their validators conclude from the posture *)
(* they record, the findings a tool must and must not raise, is in         *)
(* PostureFindings.                                                        *)
(***************************************************************************)
EXTENDS SurfaceModes

KeyVaultChecks == Checks(TRUE,
    [known |-> {"name", "vault_uri", "tenant_id"},
     knownFold |-> {"resource_group", "location", "public_network_access",
                    "network_default_action", "sku_name"},
     flag |-> {"private_endpoint_enabled", "enable_rbac_authorization",
               "purge_protection_enabled", "soft_delete_enabled"},
     zero |-> {"access_policy_count"}])

KeyVaultCapture ==
    <<Once({}),
      Each({"name", "vault_uri", "tenant_id", "resource_group", "location",
            "public_network_access", "network_default_action", "sku_name",
            "private_endpoint_enabled", "enable_rbac_authorization",
            "purge_protection_enabled", "soft_delete_enabled", "access_policy_count"})>>

StorageChecks == Checks(TRUE,
    [known |-> {"name", "minimum_tls_version", "dns_endpoint_type"},
     knownFold |-> {"resource_group", "location", "public_network_access",
                    "network_default_action"},
     flag |-> {"public_access", "private_endpoint_enabled"},
     stated |-> {"allow_shared_key_access", "https_traffic_only_enabled", "is_hns_enabled",
                 "is_sftp_enabled", "nfs_v3_enabled"}])

StorageCapture ==
    <<Once({}),
      Each({"name", "minimum_tls_version", "dns_endpoint_type", "resource_group", "location",
            "public_network_access", "network_default_action", "public_access",
            "private_endpoint_enabled", "allow_shared_key_access",
            "https_traffic_only_enabled", "is_hns_enabled", "is_sftp_enabled", "nfs_v3_enabled"})>>

SnapshotsDisksChecks == Checks(TRUE,
    [known |-> {"name", "asset_kind", "attachment_state", "attached_to_name", "os_type",
                "network_access_policy", "public_network_access", "encryption_type",
                "source_resource_name", "source_resource_kind"},
     knownFold |-> {"resource_group", "location", "attached_to_id", "disk_access_id",
                    "disk_encryption_set_id", "source_resource_id"},
     stated |-> {"incremental"},
     subset |-> {"related_ids"}])

(* The disks are listed and shown, then the snapshots; the two passes fill *)
(* the same columns, an attachment for a disk and a source for a snapshot. *)
SnapshotsDisksCapture ==
    <<Once({"asset_kind"}),
      Each({"name", "attachment_state", "attached_to_name", "os_type", "network_access_policy",
            "public_network_access", "encryption_type", "source_resource_name",
            "source_resource_kind", "resource_group", "location", "attached_to_id",
            "disk_access_id", "disk_encryption_set_id", "source_resource_id", "incremental",
            "related_ids"})>>

ArmDeploymentsChecks == Checks(TRUE,
    [knownFold |-> {"name", "scope", "scope_type", "mode", "resource_group",
                    "provisioning_state", "template_link", "parameters_link"},
     zero |-> {"outputs_count", "output_resource_count"},
     setFold |-> {"providers", "related_ids"}])

(* The subscription's deployments and the resource groups are listed, then *)
(* each group's deployments; they are recorded once under their folded id. *)
ArmDeploymentsCapture ==
    <<Once({}),
      Within({"name", "scope", "scope_type", "mode", "resource_group", "provisioning_state",
              "template_link", "parameters_link", "outputs_count", "output_resource_count",
              "providers", "related_ids"})>>

DataSurfaces ==
    [keyvault |-> [checks |-> KeyVaultChecks, capture |-> KeyVaultCapture],
     storage |-> [checks |-> StorageChecks, capture |-> StorageCapture],
     snapshots_disks |-> [checks |-> SnapshotsDisksChecks, capture |-> SnapshotsDisksCapture],
     arm_deployments |-> [checks |-> ArmDeploymentsChecks, capture |-> ArmDeploymentsCapture]]
=============================================================================
