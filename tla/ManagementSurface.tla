-------------------------- MODULE ManagementSurface --------------------------
(***************************************************************************)
(* src/src/management_ops.c: the 202 operations of the management surface. *)
(* The functions have one shape: refuse what must not be sent, build the   *)
(* path and the query, write the body, send, read the answer.  A record    *)
(* says what each of them puts in that shape, and ManagementEdit takes the *)
(* steps.  The 26 _list_all loops follow the listing they repeat, and are  *)
(* the machine of PageWalk.  The templates are the source's without their  *)
(* common "/api/v1/".                                                      *)
(***************************************************************************)
EXTENDS ManagementModels

(* What the answer is read as: an object of a model, an array, a page of   *)
(* one with a total, or nothing.                                           *)
One(model) == [kind |-> "one", model |-> model]
Many(model) == [kind |-> "many", model |-> model]
Page(model) == [kind |-> "page", model |-> model]
Nothing == [kind |-> "nothing"]

NoBody == "(no body)"

(* An operation: its method and template, the ids of the template resolved *)
(* from the call's scope and the client rather than given (27.4 rule 3),  *)
(* the model of its body, what it answers, and what it refuses locally.    *)
Op(method, template, implicit, body, result) ==
  [method |-> method, template |-> template, implicit |-> implicit, body |-> body,
   result |-> result, filters |-> {}, checked |-> FALSE, required |-> {}, knownOnly |-> {},
   oneOf |-> {}]
Get(template, implicit, result) == Op("GET", template, implicit, NoBody, result)
Delete(template, implicit) == Op("DELETE", template, implicit, NoBody, Nothing)
Post(template, implicit, body, result) == Op("POST", template, implicit, body, result)
Put(template, implicit, body, result) == Op("PUT", template, implicit, body, result)
Patch(template, implicit, body, result) == Op("PATCH", template, implicit, body, result)

(* Optional parameters of the query, beside those of a page. *)
Filtered(op, names) == [op EXCEPT !.filters = names]
(* The body's _unsendable is asked first. *)
Checked(op) == [op EXCEPT !.checked = TRUE]
(* A body is needed, with these members. *)
Requires(op, members) == [op EXCEPT !.required = members]
(* These unions and tagged names must be ones the SDK can express. *)
KnownOnly(op, members) == [op EXCEPT !.knownOnly = members]
(* Exactly one of these members. *)
OneOf(op, members) == [op EXCEPT !.oneOf = members]

-----------------------------------------------------------------------------
OrganizationsOps1 ==
  [organizations_list |-> Get("organizations", {}, Page("organization")),
   organizations_get |-> Get("organizations/{org_id}", {"org_id"}, One("organization"))]

OrganizationsOps2 ==
  [organizations_update |-> Put("organizations/{org_id}", {"org_id"},
      "update_organization_request", One("organization"))]

TenantsOps1 ==
  [tenants_list |-> Get("organizations/{org_id}/tenants", {"org_id"}, Page("tenant")),
   tenants_create |-> Post("organizations/{org_id}/tenants", {"org_id"}, "create_tenant_request",
      One("tenant"))]

TenantsOps2 ==
  [tenants_get |-> Get("organizations/{org_id}/tenants/{tenant_id}", {"org_id"}, One("tenant")),
   tenants_update |-> Checked(Put("organizations/{org_id}/tenants/{tenant_id}", {"org_id"},
      "update_tenant", One("tenant"))),
   tenants_delete |-> Delete("organizations/{org_id}/tenants/{tenant_id}", {"org_id"}),
   tenants_export_audit |-> Post("organizations/{org_id}/tenants/{tenant_id}/audit-export",
      {"org_id"}, NoBody, Nothing)]

UsersOps1 ==
  [users_list |-> Get("users", {}, Page("user_response")),
   users_create |-> Post("users", {}, "create_user_request", One("user_response")),
   users_get |-> Get("users/{user_id}", {}, One("user_response"))]

UsersOps2 ==
  [users_update |-> Checked(Put("users/{user_id}", {}, "update_user_request",
      One("user_response"))),
   users_delete |-> Delete("users/{user_id}", {}),
   users_list_mfa_methods |-> Get("users/{user_id}/mfa-methods", {}, Many("mfa_method_response")),
   users_delete_mfa_method |-> Delete("users/{user_id}/mfa-methods/{method_id}", {}),
   users_reset_mfa |-> Post("users/{user_id}/reset-mfa", {}, NoBody, Nothing)]

UsersOps3 ==
  [users_unlock |-> Post("users/{user_id}/unlock", {}, NoBody, One("user_response")),
   users_list_roles |-> Get("users/{user_id}/roles", {}, Many("role_assignment")),
   users_list_sessions |-> Get("users/{user_id}/sessions", {}, Many("session_response"))]

GroupsOps1 ==
  [groups_list |-> Get("groups", {}, Page("group")),
   groups_create |-> Post("groups", {}, "create_group_request", One("group")),
   groups_get |-> Get("groups/{group_id}", {}, One("group"))]

GroupsOps2 ==
  [groups_update |-> Put("groups/{group_id}", {}, "update_group", One("group")),
   groups_delete |-> Delete("groups/{group_id}", {}),
   groups_list_members |-> Get("groups/{group_id}/members", {}, Page("user_response"))]

GroupsOps3 ==
  [groups_add_member |-> Post("groups/{group_id}/members", {}, "add_member_request", Nothing),
   groups_remove_member |-> Delete("groups/{group_id}/members/{user_id}", {}),
   groups_list_roles |-> Get("groups/{group_id}/roles", {}, Many("role_assignment"))]

GroupsOps4 ==
  [groups_list_service_accounts |-> Get("groups/{group_id}/service-accounts", {},
      Page("service_account_response")),
   groups_add_service_account |-> Post("groups/{group_id}/service-accounts", {},
      "add_service_account_member_request", Nothing),
   groups_remove_service_account |->
      Delete("groups/{group_id}/service-accounts/{service_account_id}", {})]

RolesOps1 ==
  [roles_list |-> Get("roles", {}, Page("role")),
   roles_create |-> Post("roles", {}, "create_role_request", One("role")),
   roles_get |-> Get("roles/{role_id}", {}, One("role"))]

RolesOps2 ==
  [roles_update |-> Put("roles/{role_id}", {}, "update_role", One("role")),
   roles_delete |-> Delete("roles/{role_id}", {}),
   roles_list_users |-> Get("roles/{role_id}/users", {}, Many("role_user_assignment")),
   roles_assign_to_user |-> Post("roles/{role_id}/users", {}, "assign_role_to_user_request",
      Nothing),
   roles_unassign_from_user |-> Filtered(Delete("roles/{role_id}/users/{user_id}", {}),
      {"resource_id"})]

RolesOps3 ==
  [roles_list_groups |-> Get("roles/{role_id}/groups", {}, Many("role_group_assignment")),
   roles_assign_to_group |-> Post("roles/{role_id}/groups", {}, "assign_role_to_group_request",
      Nothing),
   roles_unassign_from_group |-> Filtered(Delete("roles/{role_id}/groups/{group_id}", {}),
      {"resource_id"}),
   roles_list_permissions |-> Get("roles/{role_id}/permissions", {},
      Many("resolved_permission_grant"))]

RolesOps4 ==
  [roles_grant_permission |-> Checked(Post("roles/{role_id}/permissions", {},
      "grant_permission_request", Nothing)),
   roles_revoke_permission |-> Delete("roles/{role_id}/permissions/{permission_id}", {}),
   roles_list_service_accounts |-> Get("roles/{role_id}/service-accounts", {},
      Many("role_service_account_assignment")),
   roles_assign_to_service_account |-> Post("roles/{role_id}/service-accounts", {},
      "assign_role_to_service_account_request", Nothing),
   roles_unassign_from_service_account |->
      Filtered(Delete("roles/{role_id}/service-accounts/{service_account_id}", {}), {"resource_id"})]

PermissionsOps1 ==
  [permissions_list |-> Get("permissions", {}, Page("permission")),
   permissions_create |-> Post("permissions", {}, "create_permission_request", One("permission")),
   permissions_get |-> Get("permissions/{permission_id}", {}, One("permission"))]

PermissionsOps2 ==
  [permissions_update |-> Put("permissions/{permission_id}", {}, "update_permission_request",
      One("permission")),
   permissions_delete |-> Delete("permissions/{permission_id}", {})]

ResourcesOps1 ==
  [resources_list |-> Get("resources", {}, Page("resource")),
   resources_create |-> Post("resources", {}, "create_resource_request", One("resource")),
   resources_get |-> Get("resources/{resource_id}", {}, One("resource"))]

ResourcesOps2 ==
  [resources_update |-> Put("resources/{resource_id}", {}, "update_resource_request",
      One("resource")),
   resources_delete |-> Delete("resources/{resource_id}", {}),
   resources_list_children |-> Get("resources/{resource_id}/children", {}, Many("resource")),
   resources_list_ancestors |-> Get("resources/{resource_id}/ancestors", {}, Many("resource"))]

ScopesOps1 ==
  [scopes_list |-> Get("resources/{resource_id}/scopes", {}, Many("scope")),
   scopes_create |-> Post("resources/{resource_id}/scopes", {}, "create_scope_request",
      One("scope")),
   scopes_get |-> Get("resources/{resource_id}/scopes/{scope_id}", {}, One("scope")),
   scopes_update |-> Put("resources/{resource_id}/scopes/{scope_id}", {}, "update_scope_request",
      One("scope"))]

ScopesOps2 ==
  [scopes_delete |-> Delete("resources/{resource_id}/scopes/{scope_id}", {})]

ServiceAccountsOps1 ==
  [service_accounts_list |-> Get("service-accounts", {}, Page("service_account_response")),
   service_accounts_create |-> Post("service-accounts", {}, "create_service_account_request",
      One("service_account_created_response")),
   service_accounts_get |-> Get("service-accounts/{sa_id}", {}, One("service_account_response"))]

ServiceAccountsOps2 ==
  [service_accounts_update |-> Checked(Put("service-accounts/{sa_id}", {},
      "update_service_account", One("service_account_response"))),
   service_accounts_delete |-> Delete("service-accounts/{sa_id}", {}),
   service_accounts_rotate_secret |-> Post("service-accounts/{sa_id}/rotate-secret", {}, NoBody,
      One("rotate_secret_response")),
   service_accounts_bind_certificate |-> Post("service-accounts/{sa_id}/bind-certificate", {},
      "bind_certificate", Nothing),
   service_accounts_list_roles |-> Get("service-accounts/{service_account_id}/roles", {},
      Many("role_assignment"))]

ServiceAccountsOps3 ==
  [service_accounts_list_groups |-> Get("service-accounts/{service_account_id}/groups", {},
      Many("group"))]

CertificatesOps1 ==
  [certificates_list |-> Get("certificates", {}, Page("certificate")),
   certificates_generate |-> KnownOnly(Checked(Post("certificates", {},
      "create_certificate_request", One("generated_certificate"))), {"subject_alt_names"})]

CertificatesOps2 ==
  [certificates_sign_csr |-> KnownOnly(Checked(Post("certificates/sign-csr", {},
      "sign_certificate_csr_request", One("certificate"))), {"subject_alt_names"}),
   certificates_get |-> Get("certificates/{id}", {}, One("certificate")),
   certificates_revoke |-> Post("certificates/{id}/revoke", {}, NoBody, Nothing)]

CaCertificatesOps1 ==
  [ca_certificates_list |-> Get("organizations/{org_id}/ca-certificates", {"org_id"},
      Page("ca_certificate")),
   ca_certificates_generate |-> Checked(Post("organizations/{org_id}/ca-certificates",
      {"org_id"}, "create_ca_certificate_request", One("generated_ca_certificate")))]

CaCertificatesOps2 ==
  [ca_certificates_import_ca |-> Post("organizations/{org_id}/ca-certificates/import",
      {"org_id"}, "import_ca_certificate_request", One("ca_certificate")),
   ca_certificates_get |-> Get("organizations/{org_id}/ca-certificates/{id}", {"org_id"},
      One("ca_certificate")),
   ca_certificates_revoke |-> Post("organizations/{org_id}/ca-certificates/{id}/revoke",
      {"org_id"}, NoBody, Nothing),
   ca_certificates_migrate_custody |->
      Post("organizations/{org_id}/ca-certificates/{id}/migrate-custody", {"org_id"}, NoBody,
        One("migrate_custody_response"))]

CaCertificatesOps3 ==
  [ca_certificates_set_mtls_trust_anchor |->
      Put("organizations/{org_id}/ca-certificates/{id}/mtls-trust-anchor", {"org_id"},
        "set_mtls_trust_anchor", One("mtls_trust_anchor_response")),
   ca_certificates_list_signing_cas |->
      Get("organizations/{org_id}/tenants/{tenant_id}/signing-cas", {"org_id"},
        Page("ca_certificate"))]

CaCertificatesOps4 ==
  [ca_certificates_generate_signing_ca |->
      Checked(Post("organizations/{org_id}/tenants/{tenant_id}/signing-cas", {"org_id"},
        "create_intermediate_ca_request", One("generated_ca_certificate"))),
   ca_certificates_sign_signing_ca_csr |->
      Post("organizations/{org_id}/tenants/{tenant_id}/signing-cas/sign-csr", {"org_id"},
        "sign_intermediate_csr_request", One("ca_certificate"))]

PgpKeysOps1 ==
  [pgp_keys_list |-> Get("pgp-keys", {}, Page("pgp_key")),
   pgp_keys_generate |-> Checked(Post("pgp-keys", {}, "create_pgp_key_request",
      One("generated_pgp_key"))),
   pgp_keys_get |-> Get("pgp-keys/{id}", {}, One("pgp_key"))]

PgpKeysOps2 ==
  [pgp_keys_revoke |-> Post("pgp-keys/{id}/revoke", {}, NoBody, Nothing),
   pgp_keys_encrypt |-> Post("pgp-keys/{id}/encrypt", {}, "encrypt_request",
      One("encrypted_export")),
   pgp_keys_sign_audit_batch |-> Post("pgp-keys/sign-audit-batch", {},
      "sign_audit_batch_request", One("signed_audit_batch"))]

WebhooksOps1 ==
  [webhooks_list |-> Get("webhooks", {}, Page("webhook_response")),
   webhooks_create |-> Post("webhooks", {}, "create_webhook_request", One("webhook_response")),
   webhooks_get |-> Get("webhooks/{id}", {}, One("webhook_response"))]

WebhooksOps2 ==
  [webhooks_update |-> Put("webhooks/{id}", {}, "update_webhook_request",
      One("webhook_response")),
   webhooks_delete |-> Delete("webhooks/{id}", {})]

Oauth2ClientsOps1 ==
  [oauth2_clients_list |-> Get("oauth2-clients", {}, Page("o_auth2_client_response")),
   oauth2_clients_create |-> Checked(Post("oauth2-clients", {}, "create_o_auth2_client_request",
      One("o_auth2_client_created_response"))),
   oauth2_clients_get |-> Get("oauth2-clients/{id}", {}, One("o_auth2_client_response"))]

Oauth2ClientsOps2 ==
  [oauth2_clients_update |-> Checked(Put("oauth2-clients/{id}", {},
      "update_o_auth2_client_request", One("o_auth2_client_response"))),
   oauth2_clients_delete |-> Delete("oauth2-clients/{id}", {}),
   oauth2_clients_create_registration_token |-> Post("oauth2-clients/registration-tokens", {},
      "create_registration_token_request", One("create_registration_token_response")),
   oauth2_clients_list_registration_tokens |-> Get("oauth2-clients/registration-tokens", {},
      Many("registration_token_response"))]

FederationOps1 ==
  [federation_list_configs |-> Get("federation-configs", {}, Page("federation_config_response")),
   federation_create_config |-> Post("federation-configs", {},
      "create_federation_config_request", One("federation_config_response")),
   federation_get_config |-> Get("federation-configs/{id}", {},
      One("federation_config_response"))]

FederationOps2 ==
  [federation_update_config |-> Put("federation-configs/{id}", {},
      "update_federation_config_request", One("federation_config_response")),
   federation_delete_config |-> Delete("federation-configs/{id}", {}),
   federation_list_user_links |-> Get("federation-links/user/{user_id}", {},
      Many("federation_link_response")),
   federation_delete_link |-> Delete("federation-links/{id}", {}),
   federation_oidc_authorize |-> Post("federation/oidc/authorize", {}, "oidc_authorize_request",
      One("oidc_authorize_response"))]

FederationOps3 ==
  [federation_oidc_callback |-> Post("federation/oidc/callback", {}, "oidc_callback_request",
      One("oidc_callback_response"))]

NotificationRulesOps1 ==
  [notification_rules_list |-> Get("notification-rules", {}, Page("notification_rule_response")),
   notification_rules_create |-> Post("notification-rules", {},
      "create_notification_rule_request", One("notification_rule_response")),
   notification_rules_get |-> Get("notification-rules/{id}", {},
      One("notification_rule_response"))]

NotificationRulesOps2 ==
  [notification_rules_update |-> Put("notification-rules/{id}", {},
      "update_notification_rule_request", One("notification_rule_response")),
   notification_rules_delete |-> Delete("notification-rules/{id}", {})]

EmailConfigOps1 ==
  [email_config_get_org |-> Get("organizations/{org_id}/email-config", {"org_id"},
      One("email_config")),
   email_config_set_org |-> Put("organizations/{org_id}/email-config", {"org_id"},
      "set_org_email_config", One("email_config")),
   email_config_delete_org |-> Delete("organizations/{org_id}/email-config", {"org_id"}),
   email_config_test_org |-> Post("organizations/{org_id}/email-config/test", {"org_id"}, NoBody,
      One("email_test_result"))]

EmailConfigOps2 ==
  [email_config_get_tenant |-> Get("tenants/{tenant_id}/email-config", {"tenant_id"},
      One("email_config_override")),
   email_config_set_tenant |-> Put("tenants/{tenant_id}/email-config", {"tenant_id"},
      "email_config_override", One("email_config_override")),
   email_config_delete_tenant |-> Delete("tenants/{tenant_id}/email-config", {"tenant_id"}),
   email_config_test_tenant |-> Post("tenants/{tenant_id}/email-config/test", {"tenant_id"},
      NoBody, One("email_test_result"))]

DirectoryOps1 ==
  [directory_get |-> Get("tenants/{tenant_id}/directory", {"tenant_id"}, One("directory_config")),
   directory_set |-> Requires(Checked(Put("tenants/{tenant_id}/directory", {"tenant_id"},
      "set_directory_config", One("directory_config"))), {"base_dn", "bind_dn", "url",
      "user_filter"}),
   directory_update |-> Checked(Patch("tenants/{tenant_id}/directory", {"tenant_id"},
      "update_directory_config", One("directory_config")))]

DirectoryOps2 ==
  [directory_delete |-> Delete("tenants/{tenant_id}/directory", {"tenant_id"}),
   directory_link_account |-> Post("tenants/{tenant_id}/directory/links", {"tenant_id"},
      "link_directory_account", One("directory_link_result")),
   directory_get_sync_status |-> Get("tenants/{tenant_id}/directory/sync-status", {"tenant_id"},
      One("directory_sync_status"))]

SamlOps1 ==
  [saml_get_idp |-> Get("tenants/{tenant_id}/saml/idp", {"tenant_id"}, One("saml_idp_info")),
   saml_list_service_providers |-> Get("tenants/{tenant_id}/saml/service-providers",
      {"tenant_id"}, Page("saml_service_provider"))]

SamlOps2 ==
  [saml_create_service_provider |->
      Requires(Checked(Post("tenants/{tenant_id}/saml/service-providers", {"tenant_id"},
        "saml_service_provider_input", One("saml_service_provider"))), {"acs_urls",
        "display_name", "entity_id"}),
   saml_get_service_provider |-> Get("tenants/{tenant_id}/saml/service-providers/{sp_id}",
      {"tenant_id"}, One("saml_service_provider"))]

SamlOps3 ==
  [saml_update_service_provider |->
      Requires(Checked(Put("tenants/{tenant_id}/saml/service-providers/{sp_id}", {"tenant_id"},
        "saml_service_provider_input", One("saml_service_provider"))), {"acs_urls",
        "display_name", "entity_id"}),
   saml_delete_service_provider |-> Delete("tenants/{tenant_id}/saml/service-providers/{sp_id}",
      {"tenant_id"}),
   saml_parse_sp_metadata |-> OneOf(Post("tenants/{tenant_id}/saml/parse-sp-metadata",
      {"tenant_id"}, "parse_saml_sp_metadata", One("saml_sp_metadata_draft")),
      {"metadata_url", "metadata_xml"})]

SamlOps4 ==
  [saml_list_idp_credentials |-> Get("tenants/{tenant_id}/saml/idp-credentials", {"tenant_id"},
      Many("saml_idp_credential")),
   saml_issue_idp_credential |-> Checked(Post("tenants/{tenant_id}/saml/idp-credentials",
      {"tenant_id"}, "issue_saml_idp_credential", One("saml_idp_credential"))),
   saml_promote_idp_credential |->
      Post("tenants/{tenant_id}/saml/idp-credentials/{credential_id}/promote", {"tenant_id"},
        NoBody, One("saml_idp_credential_promotion"))]

SamlOps5 ==
  [saml_retire_idp_credential |->
      Post("tenants/{tenant_id}/saml/idp-credentials/{credential_id}/retire", {"tenant_id"}, NoBody,
        One("saml_idp_credential"))]

SsfOps1 ==
  [ssf_list_streams |-> Get("tenants/{tenant_id}/ssf/streams", {"tenant_id"}, Page("ssf_stream"))]

SsfOps2 ==
  [ssf_create_stream |-> Requires(Checked(Post("tenants/{tenant_id}/ssf/streams", {"tenant_id"},
      "ssf_stream_input", One("ssf_stream"))), {"audience", "events_allowed",
      "receiver_client_id"}),
   ssf_get_stream |-> Get("tenants/{tenant_id}/ssf/streams/{stream_id}", {"tenant_id"},
      One("ssf_stream"))]

SsfOps3 ==
  [ssf_update_stream |-> Requires(Checked(Put("tenants/{tenant_id}/ssf/streams/{stream_id}",
      {"tenant_id"}, "ssf_stream_input", One("ssf_stream"))), {"audience", "events_allowed",
      "receiver_client_id"}),
   ssf_delete_stream |-> Delete("tenants/{tenant_id}/ssf/streams/{stream_id}", {"tenant_id"})]

ScimTargetsOps1 ==
  [scim_targets_list |-> Get("scim-targets", {}, Page("scim_target_response"))]

ScimTargetsOps2 ==
  [scim_targets_create |-> KnownOnly(Requires(Checked(Post("scim-targets", {},
      "scim_target_input", One("scim_target_response"))), {"auth", "base_url", "name",
      "scope"}), {"auth", "scope"}),
   scim_targets_get |-> Get("scim-targets/{id}", {}, One("scim_target_response"))]

ScimTargetsOps3 ==
  [scim_targets_update |-> KnownOnly(Requires(Checked(Put("scim-targets/{id}", {},
      "scim_target_input", One("scim_target_response"))), {"auth", "base_url", "name",
      "scope"}), {"auth", "scope"}),
   scim_targets_delete |-> Delete("scim-targets/{id}", {}),
   scim_targets_reconcile |-> Post("scim-targets/{id}/reconcile", {}, NoBody,
      One("scim_reconcile_accepted"))]

NetworkOps1 ==
  [network_list_segments |-> Filtered(Get("network/segments", {},
      Page("network_segment_response")), {"site"}),
   network_create_segment |-> Checked(Post("network/segments", {},
      "create_network_segment_request", One("network_segment_response"))),
   network_get_segment |-> Get("network/segments/{id}", {}, One("network_segment_response"))]

NetworkOps2 ==
  [network_replace_segment |-> Requires(Put("network/segments/{id}", {},
      "replace_network_segment_request", One("network_segment_response")), {"filter_ids"}),
   network_delete_segment |-> Filtered(Delete("network/segments/{id}", {}), {"version"})]

NetworkOps3 ==
  [network_list_profiles |-> Get("network/profiles", {}, Page("network_reply_profile")),
   network_create_profile |-> Checked(Post("network/profiles", {},
      "create_network_reply_profile_request", One("network_reply_profile"))),
   network_get_profile |-> Get("network/profiles/{segment_id}", {}, One("network_reply_profile"))]

NetworkOps4 ==
  [network_replace_profile |-> Requires(Checked(Put("network/profiles/{segment_id}", {},
      "replace_network_reply_profile_request", One("network_reply_profile"))), {"profile"}),
   network_delete_profile |-> Filtered(Delete("network/profiles/{segment_id}", {}), {"version"}),
   network_get_policy |-> Get("network/policy", {}, One("network_policy_response")),
   network_replace_policy |-> Put("network/policy", {}, "replace_network_policy_request",
      One("network_policy_response"))]

SettingsOps1 ==
  [settings_get_org |-> Get("organizations/{org_id}/settings", {"org_id"},
      One("security_settings")),
   settings_set_org |-> Checked(Put("organizations/{org_id}/settings", {"org_id"},
      "set_org_settings", One("security_settings"))),
   settings_get_effective |-> Get("settings", {}, One("security_settings")),
   settings_set_effective |-> Checked(Put("settings", {}, "tenant_settings_override",
      One("security_settings")))]

SettingsOps2 ==
  [settings_get_tenant_override |-> Get("tenants/{tenant_id}/settings", {"tenant_id"},
      One("tenant_settings_override")),
   settings_set_tenant_override |-> Checked(Put("tenants/{tenant_id}/settings", {"tenant_id"},
      "tenant_settings_override", One("tenant_settings_override"))),
   settings_delete_tenant_override |-> Delete("tenants/{tenant_id}/settings", {"tenant_id"})]

ScimTokensOps ==
  [scim_tokens_list |-> Get("scim-tokens", {}, Many("scim_token_response")),
   scim_tokens_create |-> Post("scim-tokens", {}, "create_scim_token_request",
      One("create_scim_token_response")),
   scim_tokens_revoke |-> Delete("scim-tokens/{id}", {})]

ReactorsOps1 ==
  [reactors_list |-> Get("reactors", {}, Page("reactor_response")),
   reactors_create |-> Checked(Post("reactors", {}, "create_reactor_request",
      One("reactor_response"))),
   reactors_get |-> Get("reactors/{id}", {}, One("reactor_response"))]

ReactorsOps2 ==
  [reactors_update |-> Checked(Put("reactors/{id}", {}, "update_reactor_request",
      One("reactor_response"))),
   reactors_delete |-> Delete("reactors/{id}", {}),
   reactors_list_events |-> Get("reactors/events", {}, Many("reactor_event_descriptor"))]

WebauthnPolicyOps ==
  [webauthn_policy_get |-> Get("tenants/{tenant_id}/webauthn/attestation-policy", {"tenant_id"},
      One("policy_response")),
   webauthn_policy_set |-> Checked(Put("tenants/{tenant_id}/webauthn/attestation-policy",
      {"tenant_id"}, "webauthn_attestation_policy", One("webauthn_attestation_policy"))),
   webauthn_policy_compliance_report |-> Get("tenants/{tenant_id}/webauthn/compliance-report",
      {"tenant_id"}, Many("compliance_report_entry"))]

AuditOps1 ==
  [audit_list |-> Filtered(Get("audit-logs", {}, Page("audit_log_entry")), {"actor_id", "action",
      "outcome", "resource_id", "from", "to"})]

AuditOps2 ==
  [audit_list_system |-> Filtered(Get("audit-logs/system", {}, Page("audit_log_entry")),
      {"actor_id", "action", "outcome", "resource_id", "from", "to"})]

PrivacyOps1 ==
  [privacy_request_export |-> Post("account/export", {}, NoBody, Nothing),
   privacy_download_export |-> Get("account/export/{token}", {}, Nothing),
   privacy_request_delete |-> Post("account/delete", {}, NoBody, Nothing),
   privacy_cancel_delete |-> Filtered(Get("auth/account/delete/cancel", {}, Nothing), {"token"}),
   privacy_list_consents |-> Get("account/consents", {}, Many("consent_view")),
   privacy_grant_scope_consent |-> Post("account/consents/oidc-scopes", {},
      "grant_scope_consent", Nothing)]

PrivacyOps2 ==
  [privacy_withdraw_scope_consent |-> Delete("account/consents/oidc-scopes/{client_id}", {})]

PlatformOps ==
  [platform_health |-> Get("/health", {}, One("health_response")),
   platform_ready |-> Get("/ready", {}, One("ready_response")),
   platform_mds_status |-> Get("mds/status", {}, One("mds_status_response")),
   platform_mds_refresh |-> Post("mds/refresh", {}, NoBody, One("mds_refresh_outcome"))]

(* Every operation of the surface by its name. *)
Ops ==
  OrganizationsOps1 @@ OrganizationsOps2 @@ TenantsOps1 @@ TenantsOps2
  @@ UsersOps1 @@ UsersOps2 @@ UsersOps3 @@ GroupsOps1
  @@ GroupsOps2 @@ GroupsOps3 @@ GroupsOps4 @@ RolesOps1
  @@ RolesOps2 @@ RolesOps3 @@ RolesOps4 @@ PermissionsOps1
  @@ PermissionsOps2 @@ ResourcesOps1 @@ ResourcesOps2 @@ ScopesOps1
  @@ ScopesOps2 @@ ServiceAccountsOps1 @@ ServiceAccountsOps2 @@ ServiceAccountsOps3
  @@ CertificatesOps1 @@ CertificatesOps2 @@ CaCertificatesOps1 @@ CaCertificatesOps2
  @@ CaCertificatesOps3 @@ CaCertificatesOps4 @@ PgpKeysOps1 @@ PgpKeysOps2
  @@ WebhooksOps1 @@ WebhooksOps2 @@ Oauth2ClientsOps1 @@ Oauth2ClientsOps2
  @@ FederationOps1 @@ FederationOps2 @@ FederationOps3 @@ NotificationRulesOps1
  @@ NotificationRulesOps2 @@ EmailConfigOps1 @@ EmailConfigOps2 @@ DirectoryOps1
  @@ DirectoryOps2 @@ SamlOps1 @@ SamlOps2 @@ SamlOps3
  @@ SamlOps4 @@ SamlOps5 @@ SsfOps1 @@ SsfOps2
  @@ SsfOps3 @@ ScimTargetsOps1 @@ ScimTargetsOps2 @@ ScimTargetsOps3
  @@ NetworkOps1 @@ NetworkOps2 @@ NetworkOps3 @@ NetworkOps4
  @@ SettingsOps1 @@ SettingsOps2 @@ ScimTokensOps @@ ReactorsOps1
  @@ ReactorsOps2 @@ WebauthnPolicyOps @@ AuditOps1 @@ AuditOps2
  @@ PrivacyOps1 @@ PrivacyOps2 @@ PlatformOps
=============================================================================
