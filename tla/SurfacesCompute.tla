--------------------------- MODULE SurfacesCompute ---------------------------
(***************************************************************************)
(* The compute surfaces: which columns their validators compare, and by    *)
(* which query of their live capture each of those is filled.  "identity"  *)
(* stands for the row having an identity at all; the other columns have    *)
(* the names of the tool's rows.                                           *)
(***************************************************************************)
EXTENDS SurfaceModes

(* ----- machines and their parts ---------------------------------------- *)

NicsChecks == Checks(TRUE,
    [same |-> {"name", "attached_asset_id", "attached_asset_name", "network_security_group_id"},
     set |-> {"private_ips"},
     setFold |-> {"public_ip_ids", "subnet_ids", "vnet_ids"}])

NicsCapture ==
    <<Once({"name", "attached_asset_id", "attached_asset_name", "network_security_group_id",
            "private_ips", "public_ip_ids", "subnet_ids", "vnet_ids"})>>

VmsChecks == Checks(TRUE,
    [known |-> {"name", "resource_group", "location", "power_state", "vm_type"},
     set |-> {"public_ips", "private_ips"},
     setFold |-> {"nic_ids", "identity_ids"}])

VmsCapture ==
    <<Once({"power_state", "public_ips", "private_ips"}),
      Each({"name", "resource_group", "location", "vm_type", "nic_ids", "identity_ids"})>>

VmssChecks == Checks(TRUE,
    [known |-> {"name", "location", "sku_name", "identity_type", "orchestration_mode", "upgrade_mode"},
     knownFold |-> {"resource_group"},
     stated |-> {"single_placement_group", "overprovision"},
     statedZero |-> {"instance_count"},
     zero |-> {"nic_configuration_count", "public_ip_configuration_count",
               "load_balancer_backend_pool_count", "inbound_nat_pool_count",
               "application_gateway_backend_pool_count"},
     subset |-> {"subnet_ids", "identity_ids"}])

VmssCapture ==
    <<Once({}),
      Each({"name", "location", "resource_group", "sku_name", "identity_type",
            "orchestration_mode", "upgrade_mode", "single_placement_group", "overprovision",
            "instance_count", "nic_configuration_count", "public_ip_configuration_count",
            "load_balancer_backend_pool_count", "inbound_nat_pool_count",
            "application_gateway_backend_pool_count", "subnet_ids", "identity_ids"})>>

(* ----- workloads and application hosts ---------------------------------- *)

WorkloadsChecks == Checks(FALSE,
    [fold |-> {"asset_kind"},
     same |-> {"identity"},
     knownFold |-> {"identity_type"},
     subset |-> {"identity_ids"}])

WorkloadsCapture ==
    <<Once({"asset_kind", "asset_name", "identity", "identity_type", "identity_ids"})>>

AppServicesChecks == Checks(FALSE,
    [same |-> {"name"},
     known |-> {"default_hostname", "identity"},
     knownFold |-> {"public_network_access", "workload_identity_type"},
     subset |-> {"workload_identity_ids"}])

AppServicesCapture ==
    <<Once({"name", "default_hostname", "public_network_access",
            "identity", "workload_identity_type", "workload_identity_ids"})>>

FunctionsChecks == Checks(FALSE,
    [same |-> {"function_app", "identity"},
     known |-> {"hostname"},
     knownFold |-> {"public_network_access", "workload_identity_type"},
     subset |-> {"workload_identity_ids"}])

FunctionsCapture ==
    <<Once({"function_app", "hostname", "public_network_access",
            "identity", "workload_identity_type", "workload_identity_ids"})>>

ContainerAppsChecks == Checks(FALSE,
    [same |-> {"name", "identity"},
     known |-> {"default_hostname", "latest_ready_revision_name", "latest_revision_name"},
     knownFold |-> {"environment_id", "ingress_transport", "revision_mode", "workload_identity_type"},
     stated |-> {"external_ingress_enabled", "ingress_target_port"},
     subset |-> {"workload_identity_ids"}])

ContainerAppsCapture ==
    <<Once({"name", "default_hostname", "environment_id", "external_ingress_enabled",
            "ingress_target_port", "ingress_transport", "latest_ready_revision_name",
            "latest_revision_name", "revision_mode", "identity", "workload_identity_type", "workload_identity_ids"})>>

ContainerInstancesChecks == Checks(FALSE,
    [same |-> {"name", "identity"},
     known |-> {"public_ip_address", "fqdn", "restart_policy", "os_type", "provisioning_state"},
     ordered |-> {"exposed_ports"},
     positive |-> {"container_count"},
     set |-> {"container_images"},
     setFold |-> {"subnet_ids", "workload_identity_ids"},
     knownFold |-> {"workload_identity_type"}])

ContainerInstancesCapture ==
    <<Once({"name", "public_ip_address", "fqdn", "exposed_ports", "restart_policy", "os_type",
            "provisioning_state", "container_count", "container_images", "subnet_ids",
            "identity", "workload_identity_type", "workload_identity_ids"})>>

(* ----- clusters and registries ------------------------------------------ *)

AKSChecks == Checks(FALSE,
    [same |-> {"name", "identity"},
     known |-> {"resource_group", "location", "kubernetes_version", "node_resource_group",
                "fqdn", "oidc_issuer_url", "cluster_principal_id"},
     knownFold |-> {"provisioning_state", "sku_tier", "network_plugin", "network_policy",
                    "outbound_type", "cluster_identity_type"},
     stated |-> {"local_accounts_disabled", "agent_pool_count", "oidc_issuer_enabled"},
     set |-> {"addon_names"},
     subset |-> {"cluster_identity_ids"}])

AKSCapture ==
    <<Once({"name", "resource_group", "location", "kubernetes_version", "node_resource_group",
            "fqdn", "oidc_issuer_url", "provisioning_state", "sku_tier", "network_plugin",
            "network_policy", "outbound_type", "local_accounts_disabled", "agent_pool_count",
            "oidc_issuer_enabled", "addon_names", "identity", "cluster_principal_id",
            "cluster_identity_type", "cluster_identity_ids"})>>

ACRChecks == Checks(FALSE,
    [same |-> {"name", "identity"},
     known |-> {"resource_group", "location", "login_server", "workload_principal_id",
                "workload_client_id"},
     knownFold |-> {"state", "sku_name", "public_network_access", "network_rule_default_action",
                    "network_rule_bypass_options", "quarantine_policy_status",
                    "retention_policy_status", "trust_policy_status", "trust_policy_type",
                    "workload_identity_type"},
     stated |-> {"admin_user_enabled", "anonymous_pull_enabled", "data_endpoint_enabled",
                 "private_endpoint_connection_count", "webhook_count", "enabled_webhook_count",
                 "broad_webhook_scope_count", "replication_count", "retention_policy_days"},
     subset |-> {"webhook_action_types", "replication_regions", "workload_identity_ids"}])

(* The replications are asked for a Premium registry only; any other has   *)
(* none, and that is what is recorded.                                     *)
ACRCapture ==
    <<Once({"resource_group"}),
      Each({"name", "location", "login_server", "state", "sku_name", "public_network_access",
            "network_rule_default_action", "network_rule_bypass_options",
            "quarantine_policy_status", "retention_policy_status", "trust_policy_status",
            "trust_policy_type", "admin_user_enabled", "anonymous_pull_enabled",
            "data_endpoint_enabled", "private_endpoint_connection_count",
            "retention_policy_days", "identity", "workload_identity_type",
            "workload_principal_id", "workload_client_id", "workload_identity_ids"}),
      Each({"webhook_count", "enabled_webhook_count", "broad_webhook_scope_count",
            "webhook_action_types"}),
      Each({"replication_count", "replication_regions"})>>

ComputeSurfaces ==
    [nics |-> [checks |-> NicsChecks, capture |-> NicsCapture],
     vms |-> [checks |-> VmsChecks, capture |-> VmsCapture],
     vmss |-> [checks |-> VmssChecks, capture |-> VmssCapture],
     workloads |-> [checks |-> WorkloadsChecks, capture |-> WorkloadsCapture],
     app_services |-> [checks |-> AppServicesChecks, capture |-> AppServicesCapture],
     functions |-> [checks |-> FunctionsChecks, capture |-> FunctionsCapture],
     container_apps |-> [checks |-> ContainerAppsChecks, capture |-> ContainerAppsCapture],
     container_instances |->
         [checks |-> ContainerInstancesChecks, capture |-> ContainerInstancesCapture],
     aks |-> [checks |-> AKSChecks, capture |-> AKSCapture],
     acr |-> [checks |-> ACRChecks, capture |-> ACRCapture]]
=============================================================================
