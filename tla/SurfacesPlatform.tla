-------------------------- MODULE SurfacesPlatform --------------------------
(***************************************************************************)
(* The surfaces of gateways, databases, automation and DNS: the columns    *)
(* their validators compare and the queries of their live captures.        *)
(***************************************************************************)
EXTENDS SurfaceModes

(* ----- gateways and API management --------------------------------------- *)

ApplicationGatewayChecks == Checks(TRUE,
    [known |-> {"name", "resource_group", "location", "state", "firewall_policy_id"},
     zero |-> {"public_frontend_count", "listener_count", "request_routing_rule_count",
               "backend_pool_count", "backend_target_count"},
     knownSet |-> {"public_ip_addresses"},
     subset |-> {"related_ids"}])

(* After a gateway is shown, its public addresses are shown one by one.    *)
ApplicationGatewayCapture ==
    <<Once({}),
      Each({"name", "resource_group", "location", "state", "firewall_policy_id",
            "public_frontend_count", "listener_count", "request_routing_rule_count",
            "backend_pool_count", "backend_target_count", "related_ids"}),
      Each({"public_ip_addresses"})>>

APIMgmtChecks == Checks(TRUE,
    [known |-> {"name", "public_ip_address_id", "identity", "workload_principal_id",
                "workload_client_id"},
     knownFold |-> {"resource_group", "location", "state", "sku_name", "public_network_access",
                    "virtual_network_type", "workload_identity_type"},
     stated |-> {"sku_capacity", "gateway_enabled", "api_count", "api_subscription_required_count",
                 "subscription_count", "active_subscription_count", "backend_count",
                 "named_value_count", "named_value_secret_count", "named_value_key_vault_count"},
     set |-> {"public_ip_addresses", "private_ip_addresses"},
     setFold |-> {"gateway_hostnames", "backend_hostnames"},
     knownSetFold |-> {"management_hostnames", "portal_hostnames"},
     subset |-> {"related_ids", "workload_identity_ids"}])

(* The portal statuses are recorded and no check reads them.               *)
APIMgmtCapture ==
    <<Once({}),
      Each({"name", "resource_group", "location", "state", "sku_name", "sku_capacity",
            "public_network_access", "virtual_network_type", "public_ip_address_id",
            "public_ip_addresses", "private_ip_addresses", "gateway_hostnames",
            "management_hostnames", "portal_hostnames", "gateway_enabled", "identity",
            "workload_identity_type", "workload_principal_id", "workload_client_id",
            "workload_identity_ids", "related_ids", "developer_portal_status",
            "legacy_portal_status"}),
      Each({"api_count", "api_subscription_required_count"}),
      Each({"subscription_count", "active_subscription_count"}),
      Each({"backend_count", "backend_hostnames"}),
      Each({"named_value_count", "named_value_secret_count", "named_value_key_vault_count"})>>

(* ----- databases ---------------------------------------------------------- *)

DatabasesChecks == Checks(TRUE,
    [known |-> {"name", "engine", "fully_qualified_domain_name", "minimal_tls_version",
                "server_version", "identity", "workload_principal_id", "workload_client_id"},
     knownFold |-> {"resource_group", "location", "public_network_access", "state",
                    "workload_identity_type"},
     stated |-> {"database_count"},
     setFold |-> {"user_database_names"},
     subset |-> {"related_ids", "workload_identity_ids"}])

(* The databases of every server are listed once, before the servers are   *)
(* shown.                                                                  *)
DatabasesCapture ==
    <<Once({}),
      Once({"database_count", "user_database_names"}),
      Each({"name", "engine", "fully_qualified_domain_name", "minimal_tls_version",
            "server_version", "resource_group", "location", "public_network_access", "state",
            "identity", "workload_identity_type", "workload_principal_id",
            "workload_client_id", "workload_identity_ids", "related_ids"})>>

(* ----- event delivery and automation -------------------------------------- *)

EventGridChecks == Checks(TRUE,
    [fold |-> {"route", "classification", "source_id", "source_type", "destination_type",
               "destination_target_id", "provisioning_state", "identity_type", "identity_id",
               "event_delivery_schema"},
     flagFalse |-> {"external_delivery"},
     setFold |-> {"included_event_types", "related_ids"}])

(* The routes of the resource list and of every enumeration scope are put  *)
(* together and deduplicated by id before the first is shown.              *)
EventGridCapture ==
    <<Once({}),
      Each({"route", "classification", "source_id", "source_type", "destination_type",
            "destination_target_id", "provisioning_state", "identity_type", "identity_id",
            "event_delivery_schema", "external_delivery", "included_event_types",
            "related_ids"})>>

AzureMLChecks == Checks(TRUE,
    [knownFold |-> {"workspace", "classification", "resource_group", "location",
                    "workspace_kind", "state", "public_network_access", "identity_type",
                    "principal_id", "storage_account_id", "key_vault_id",
                    "container_registry_id", "application_insights_id"},
     flag |-> {"compute_count", "job_count", "schedule_count", "endpoint_count",
               "datastore_count"},
     setFold |-> {"identity_ids", "compute_types", "job_types", "schedule_trigger_types",
                  "endpoint_auth_modes", "endpoint_public_access", "datastore_types",
                  "related_ids"}])

(* The classification needs the last of the child collections it weighs.   *)
AzureMLCapture ==
    <<Once({}),
      Each({"workspace", "resource_group", "location", "workspace_kind", "state",
            "public_network_access", "identity_type", "principal_id", "identity_ids",
            "storage_account_id", "key_vault_id", "container_registry_id",
            "application_insights_id", "related_ids"}),
      Each({"compute_count", "compute_types"}),
      Each({"job_count", "job_types"}),
      Each({"schedule_count", "schedule_trigger_types"}),
      Each({"endpoint_count", "endpoint_auth_modes", "endpoint_public_access",
            "classification"}),
      Each({"datastore_count", "datastore_types"})>>

AutomationChecks == Checks(FALSE,
    [same |-> {"identity"},
     known |-> {"name", "resource_group", "location", "state", "sku_name", "identity_type",
                "principal_id", "client_id"},
     stated |-> {"runbook_count", "published_runbook_count", "schedule_count",
                 "job_schedule_count", "webhook_count", "hybrid_worker_group_count",
                 "credential_count", "certificate_count", "connection_count",
                 "variable_count", "encrypted_variable_count"},
     setFold |-> {"identity_ids"},
     size |-> {"identity_join_ids", "related_ids"}])

(* Show, then one az rest for each of nine child collections.              *)
AutomationCapture ==
    <<Once({}),
      Each({"name", "resource_group", "location", "state", "sku_name", "identity",
            "identity_type", "principal_id", "client_id", "identity_ids",
            "identity_join_ids", "related_ids"}),
      Each({"runbook_count", "published_runbook_count"}),
      Each({"schedule_count"}), Each({"job_schedule_count"}), Each({"webhook_count"}),
      Each({"credential_count"}), Each({"certificate_count"}), Each({"connection_count"}),
      Each({"variable_count", "encrypted_variable_count"}),
      Each({"hybrid_worker_group_count"})>>

LogicAppsChecks == Checks(FALSE,
    [known |-> {"logic_app", "resource_group", "location", "state", "workflow_kind",
                "classification", "identity_type", "principal_id", "client_id"},
     flagFalse |-> {"externally_callable_request_trigger"},
     same |-> {"recurrence_summary"},
     ordered |-> {"trigger_types", "downstream_action_kinds"},
     knownSetFold |-> {"identity_ids"}])

LogicAppsCapture ==
    <<Once({}),
      Each({"logic_app", "resource_group", "location", "state", "workflow_kind",
            "classification", "identity_type", "principal_id", "client_id",
            "externally_callable_request_trigger", "recurrence_summary", "trigger_types",
            "downstream_action_kinds", "identity_ids"})>>

(* ----- names and endpoints ------------------------------------------------- *)

DNSChecks == Checks(FALSE,
    [same |-> {"name", "zone_kind"},
     known |-> {"resource_group", "location"},
     stated |-> {"record_set_count", "max_record_set_count", "linked_virtual_network_count",
                 "registration_virtual_network_count", "private_endpoint_reference_count"},
     setFold |-> {"name_servers", "related_ids"}])

(* The private endpoints' zone groups are read before any zone is listed.  *)
DNSCapture ==
    <<Once({"private_endpoint_reference_count"}),
      Once({"zone_kind"}),
      Each({"name", "resource_group", "location", "record_set_count", "max_record_set_count",
            "linked_virtual_network_count", "registration_virtual_network_count",
            "name_servers", "related_ids"})>>

EndpointsChecks == Checks(TRUE,
    [same |-> {"source_asset_name", "endpoint_type", "exposure_family", "ingress_path"},
     fold |-> {"source_asset_kind"}])

(* Four lists, one for each kind of asset; a web application whose list    *)
(* row has no hostname is shown before its endpoint is recorded.           *)
EndpointsCapture ==
    <<Once({}),
      Each({"source_asset_name", "source_asset_kind", "endpoint_type", "exposure_family",
            "ingress_path"})>>

PlatformSurfaces ==
    [application_gateway |->
         [checks |-> ApplicationGatewayChecks, capture |-> ApplicationGatewayCapture],
     api_mgmt |-> [checks |-> APIMgmtChecks, capture |-> APIMgmtCapture],
     databases |-> [checks |-> DatabasesChecks, capture |-> DatabasesCapture],
     event_grid |-> [checks |-> EventGridChecks, capture |-> EventGridCapture],
     azure_ml |-> [checks |-> AzureMLChecks, capture |-> AzureMLCapture],
     automation |-> [checks |-> AutomationChecks, capture |-> AutomationCapture],
     logic_apps |-> [checks |-> LogicAppsChecks, capture |-> LogicAppsCapture],
     dns |-> [checks |-> DNSChecks, capture |-> DNSCapture],
     endpoints |-> [checks |-> EndpointsChecks, capture |-> EndpointsCapture]]
=============================================================================
