-------------------------- MODULE ManagementModels --------------------------
(***************************************************************************)
(* src/src/management_models.c: the 166 types of the management surface,   *)
(* as the C SDK reads them from an answer (_parse), writes them into a     *)
(* request (_build), and checks before they are written (_unsendable).     *)
(*                                                                         *)
(* Each type is a record that gives every member the class of its code,    *)
(* and MemberClasses says what the code of a class does.                   *)
(***************************************************************************)
EXTENDS MemberClasses, FiniteSets, TLC

-----------------------------------------------------------------------------
(* The classes. The ones whose name starts with Maybe carry a has_ flag.   *)
Class(kind) == [kind |-> kind]
Text == Class("text")               (* a string, NULL when absent          *)
Secret == Class("secret")           (* a string held as axiam_sensitive_t  *)
Json == Class("json")               (* any value, kept as its JSON text    *)
Nullable == Class("nullable")       (* a string that may be a stated null  *)
Number == Class("number")           (* always written                      *)
Real == Class("real")
Flag == Class("flag")
TrueFlag == Class("trueflag")       (* read as true when absent            *)
MaybeNumber == Class("maybenumber")
MaybeReal == Class("maybereal")
MaybeFlag == Class("maybeflag")
MaybeTrueFlag == Class("maybetrueflag")
Texts == Class("texts")             (* an array, written even when empty   *)
SomeTexts == Class("sometexts")     (* an array, left out when empty       *)
Arm == Class("arm")                 (* the one key of an external tag      *)
Enum(of) == [kind |-> "enum", of |-> of]
MaybeEnum(of) == [kind |-> "maybeenum", of |-> of]
Object(of) == [kind |-> "object", of |-> of]
Objects(of) == [kind |-> "objects", of |-> of]
(* A tagged union, kept as the members its arm declares. *)
Union(arms) == [kind |-> "union", arms |-> arms]

Nested == {"object", "objects"}

-----------------------------------------------------------------------------
(* The closed vocabularies, in the order of their constants: the first one *)
(* is the constant 0, which a calloc'd struct holds.                       *)
EnumsActorToAuthn ==
  [actor_type |-> <<"User", "ServiceAccount", "System">>,
   attestation_mode |-> <<"none", "indirect", "direct_required">>,
   attribute_source |-> <<"username", "email", "display_name", "given_name", "family_name",
       "groups", "roles">>,
   audit_outcome |-> <<"Success", "Failure", "Denied">>,
   authn_request_params_mode |-> <<"ignore", "honour">>]

EnumsCertificateToCiba ==
  [certificate_status |-> <<"Active", "Revoked", "Expired">>,
   certificate_type |-> <<"User", "Service", "Device", "Server">>,
   certification_level |-> <<"L1", "L1Plus", "L2", "L2Plus", "L3", "L3Plus">>,
   ciba_delivery_mode |-> <<"poll", "ping">>,
   ciba_request_signing_alg |-> <<"PS256", "ES256", "EdDSA">>]

EnumsClientToFailure ==
  [client_auth_method |-> <<"client_secret_post", "client_secret_basic", "tls_client_auth",
       "self_signed_tls_client_auth", "private_key_jwt", "none">>,
   client_profile |-> <<"standard", "fapi2">>,
   deprovision_policy |-> <<"deactivate", "delete">>,
   directory_kind |-> <<"open_ldap", "active_directory">>,
   failure_policy |-> <<"fail_closed", "fail_open">>]

EnumsKeyToNetwork ==
  [key_algorithm |-> <<"Rsa4096", "Ed25519">>,
   managed_by |-> <<"admin", "dcr", "cimd">>,
   mfa_method_type |-> <<"Totp", "Passkey", "SecurityKey">>,
   name_id_format |-> <<"persistent", "email_address">>,
   network_segment_kind |-> <<"access", "quarantine">>]

EnumsNotificationToPgpKeyPurpose ==
  [notification_event_type |-> <<"login_failure", "account_locked", "mfa_enrollment_changed",
       "password_changed", "password_reset_requested", "role_assigned", "role_unassigned",
       "permission_granted", "permission_revoked", "certificate_issued",
       "certificate_revoked", "ca_certificate_revoked", "user_created", "user_deleted",
       "user_updated", "service_account_created", "service_account_deleted",
       "scim_delivery_failed">>,
   permission_effect |-> <<"allow", "deny">>,
   pgp_key_algorithm |-> <<"Rsa4096", "Ed25519">>,
   pgp_key_purpose |-> <<"AuditSigning", "Export">>]

EnumsPgpKeyStatusToRefresh ==
  [pgp_key_status |-> <<"Active", "Revoked">>,
   radius_service_type |-> <<"framed_user">>,
   radius_termination_action |-> <<"default", "radius_request">>,
   reactor_mode |-> <<"intercept", "listen">>,
   refresh_reuse_response |-> <<"revoke_session", "refuse">>]

EnumsSamlToSettings ==
  [saml_binding |-> <<"http_post", "http_redirect">>,
   saml_idp_credential_status |-> <<"active", "next", "retired">>,
   saml_idp_slot |-> <<"active", "next">>,
   scim_token_status |-> <<"active", "expired", "revoked">>,
   settings_scope |-> <<"Org", "Tenant">>]

EnumsSsfToSsf ==
  [ssf_delivery_method |-> <<"push", "poll">>,
   ssf_event_type |-> <<"session-revoked", "credential-change", "assurance-level-change",
       "account-disabled", "account-enabled", "account-purged">>,
   ssf_status_actor |-> <<"admin", "receiver">>,
   ssf_stream_status |-> <<"enabled", "paused", "disabled">>,
   ssf_subject_format |-> <<"iss_sub", "email">>]

EnumsTenantToUser ==
  [tenant_kind |-> <<"standard", "organization">>,
   tenant_status |-> <<"Active", "Suspended">>,
   unknown_aaguid_action |-> <<"allow", "deny">>,
   user_name_source |-> <<"username", "email">>,
   user_status |-> <<"Active", "Inactive", "Locked", "PendingVerification", "Anonymized",
       "Deleted">>]

(* Every closed vocabulary of the surface, its first constant first. *)
Enums == EnumsActorToAuthn @@ EnumsCertificateToCiba
         @@ EnumsClientToFailure @@ EnumsKeyToNetwork
         @@ EnumsNotificationToPgpKeyPurpose @@ EnumsPgpKeyStatusToRefresh
         @@ EnumsSamlToSettings @@ EnumsSsfToSsf
         @@ EnumsTenantToUser
-----------------------------------------------------------------------------
(* The types, in the order of the file. *)

AcsEndpoint ==
  [binding |-> Enum("saml_binding"), index |-> Number, is_default |-> MaybeFlag, url |-> Text]

AddMemberRequest == [user_id |-> Text]

AddServiceAccountMemberRequest == [service_account_id |-> Text]

ApiProviderConfig == [api_url |-> Text]

AssignRoleToGroupRequest ==
  [group_id |-> Text, inherit |-> MaybeTrueFlag, resource_id |-> Text, tenant_scope |-> SomeTexts]

AssignRoleToServiceAccountRequest ==
  [inherit |-> MaybeTrueFlag, resource_id |-> Text, service_account_id |-> Text,
   tenant_scope |-> SomeTexts]

AssignRoleToUserRequest ==
  [inherit |-> MaybeTrueFlag, resource_id |-> Text, tenant_scope |-> SomeTexts, user_id |-> Text]

AttributeMapping ==
  [name_format |-> Text, saml_name |-> Text, source |-> Enum("attribute_source")]

AuditLogEntry ==
  [action |-> Text, actor_id |-> Text, actor_type |-> Enum("actor_type"), id |-> Text,
   ip_address |-> Text, metadata |-> Json, outcome |-> Enum("audit_outcome"),
   resource_id |-> Text, tenant_id |-> Text, timestamp |-> Text]

BindCertificate == [certificate_id |-> Text]

CaCertificate ==
  [chain_pem |-> Text, created_at |-> Text, fingerprint |-> Text, id |-> Text,
   key_algorithm |-> Enum("key_algorithm"), key_custody |-> Text, key_locator |-> Text,
   mtls_trust_anchor |-> MaybeFlag, not_after |-> Text, not_before |-> Text,
   organization_id |-> Text, parent_ca_id |-> Text, public_cert_pem |-> Text,
   status |-> Enum("certificate_status"), subject |-> Text, tenant_id |-> Text]

Certificate ==
  [cert_type |-> Enum("certificate_type"), created_at |-> Text, fingerprint |-> Text, id |-> Text,
   issuer_ca_id |-> Text, key_algorithm |-> Enum("key_algorithm"), metadata |-> Json,
   not_after |-> Text, not_before |-> Text, public_cert_pem |-> Text,
   status |-> Enum("certificate_status"), subject |-> Text, tenant_id |-> Text, user_id |-> Text,
   bound_service_account_id |-> Text]

CertificatePolicy ==
  [default_cert_validity_days |-> Number, max_cert_validity_days |-> Number,
   server_cert_allowed_names |-> Texts]

CimdPolicy ==
  [allow_http |-> MaybeFlag, confidential_only |-> MaybeFlag, enabled |-> MaybeFlag,
   max_cache_secs |-> MaybeNumber, max_metadata_bytes |-> MaybeNumber,
   min_cache_secs |-> MaybeNumber, restrict_same_domain |-> MaybeFlag,
   trusted_client_id_domains |-> Texts, trusted_redirect_domains |-> Texts]

ComplianceReportEntry ==
  [aaguid |-> Text, authenticator_name |-> Text, compliant |-> Flag, credential_id |-> Text,
   name |-> Text, reason |-> Text, user_id |-> Text]

ConsentView ==
  [accepted_at |-> Text, consent_type |-> Text, version |-> Text, withdrawable |-> Flag]

CreateCaCertificateRequest ==
  [intermediate_subject |-> Text, intermediate_validity_days |-> MaybeNumber,
   issue_from_root |-> MaybeFlag, key_algorithm |-> Enum("key_algorithm"), subject |-> Text,
   validity_days |-> Number]

CreateCertificateRequest ==
  [cert_type |-> Enum("certificate_type"), issuer_ca_id |-> Text,
   key_algorithm |-> Enum("key_algorithm"), metadata |-> Json, subject |-> Text,
   subject_alt_names |-> Objects("subject_alt_name"), user_id |-> Text, validity_days |-> Number]

CreateFederationConfigRequest ==
  [allow_sha1_signatures |-> MaybeFlag, allow_tenant_inheritance |-> MaybeFlag,
   allowed_algorithms |-> Texts, allowed_issuer_tenants |-> Texts, apple_key_id |-> Text,
   apple_team_id |-> Text, attribute_map |-> Json, authorization_endpoint |-> Text,
   button_icon |-> Text, client_id |-> Text, client_secret |-> Secret,
   idp_metadata_signing_cert_pem |-> Text, idp_signing_cert_pem |-> Text, metadata_url |-> Text,
   native_login |-> Object("native_login_trust_request"), protocol |-> Text, provider |-> Text,
   provider_kind |-> Text, provider_slug |-> Text, require_pkce |-> MaybeFlag, scopes |-> Texts,
   token_endpoint |-> Text, token_exchange |-> Object("token_exchange_trust_request"),
   userinfo_endpoint |-> Text]

CreateGroupRequest == [description |-> Text, metadata |-> Json, name |-> Text]

CreateIntermediateCaRequest ==
  [key_algorithm |-> Enum("key_algorithm"), parent_ca_id |-> Text, subject |-> Text,
   validity_days |-> Number]

CreateNetworkReplyProfileRequest ==
  [profile |-> Object("network_reply_profile_input"), segment_id |-> Text,
   segment_version |-> Number]

CreateNetworkSegmentRequest ==
  [enabled |-> MaybeFlag, filter_ids |-> Texts, kind |-> Enum("network_segment_kind"),
   name |-> Text, rank |-> MaybeNumber, site_key |-> Text, vlan_id |-> Number]

CreateNotificationRuleRequest ==
  [description |-> Text, events |-> Json, name |-> Text, recipient_emails |-> Texts,
   window_minutes |-> MaybeNumber]

CreateOAuth2ClientRequest ==
  [allowed_resources |-> Texts, authn_request_params |-> MaybeEnum("authn_request_params_mode"),
   backchannel_authentication_request_signing_alg |-> Text,
   backchannel_client_notification_endpoint |-> Text, backchannel_logout_uri |-> Text,
   backchannel_token_delivery_mode |-> Text, backchannel_user_code_parameter |-> MaybeFlag,
   browser_sso |-> MaybeFlag, default_idp |-> Text, dpop_bound_access_tokens |-> MaybeFlag,
   dpop_require_nonce |-> MaybeFlag, grant_types |-> Texts, jwks |-> Text, jwks_uri |-> Text,
   name |-> Text, post_logout_redirect_uris |-> Texts, profile |-> MaybeEnum("client_profile"),
   redirect_uris |-> Texts, require_par |-> MaybeFlag, scopes |-> Texts,
   self_signed_tls_client_auth_thumbprints |-> Texts, tls_client_auth_san_dns |-> Text,
   tls_client_auth_san_uri |-> Text, tls_client_auth_subject_dn |-> Text,
   tls_client_certificate_bound_access_tokens |-> MaybeFlag,
   token_endpoint_auth_method |-> MaybeEnum("client_auth_method")]

CreatePermissionRequest == [action |-> Text, description |-> Text]

CreatePgpKeyRequest ==
  [algorithm |-> Enum("pgp_key_algorithm"), email |-> Text, name |-> Text,
   purpose |-> Enum("pgp_key_purpose")]

CreateReactorRequest ==
  [description |-> Text, enabled |-> MaybeFlag, events |-> Texts,
   failure_policy |-> MaybeEnum("failure_policy"), mode |-> Enum("reactor_mode"), name |-> Text,
   priority |-> MaybeNumber, timeout_ms |-> MaybeNumber]

CreateRegistrationTokenRequest == [expires_in_hours |-> MaybeNumber, name |-> Text]

CreateRegistrationTokenResponse ==
  [initial_access_token |-> Secret, token |-> Object("registration_token_response")]

CreateResourceRequest ==
  [metadata |-> Json, name |-> Text, parent_id |-> Text, resource_type |-> Text]

CreateRoleRequest == [description |-> Text, is_global |-> Flag, name |-> Text]

CreateScimTokenRequest == [expires_in_days |-> MaybeNumber, name |-> Text, user_id |-> Text]

CreateScimTokenResponse ==
  [created_at |-> Text, created_by |-> Text, expires_at |-> Text, id |-> Text,
   last_used_at |-> Text, name |-> Text, revoked_at |-> Text,
   status |-> Enum("scim_token_status"), tenant_id |-> Text, user_id |-> Text,
   provisioning_token |-> Secret]

CreateScopeRequest == [description |-> Text, name |-> Text]

CreateServiceAccountRequest == [description |-> Text, name |-> Text]

CreateTenantRequest == [metadata |-> Json, name |-> Text, slug |-> Text]

CreateUserRequest ==
  [email |-> Text, metadata |-> Json, opaque |-> Object("opaque_enrollment"), password |-> Secret,
   username |-> Text]

CreateWebhookRequest ==
  [events |-> Texts, retry_policy |-> Object("retry_policy"), secret |-> Secret, url |-> Text]

DirectoryConfig ==
  [base_dn |-> Text, bind_dn |-> Text, created_at |-> Text, enabled |-> Flag,
   group_base_dn |-> Text, group_filter |-> Text, group_mappings |-> Objects("group_mapping"),
   group_member_attribute |-> Text, group_nesting_depth |-> Number, id |-> Text,
   jit_provisioning |-> Flag, kind |-> Enum("directory_kind"), start_tls |-> Flag,
   sync_interval_secs |-> Number, tenant_id |-> Text, trust_anchors_pem |-> Texts,
   updated_at |-> Text, url |-> Text, user_attribute_map |-> Object("user_attribute_map"),
   user_filter |-> Text]

DirectoryLinkResult ==
  [certificates_revoked |-> Number, directory_external_id |-> Text, user_id |-> Text,
   was_already_linked |-> Flag, webauthn_credentials_deleted |-> Number]

DirectorySyncStatus ==
  [full_required |-> Flag, has_watermark |-> Flag, last_attempt_at |-> Text,
   last_full_run_at |-> Text, last_result |-> Text]

EmailConfig ==
  [created_at |-> Text, enabled |-> Flag, from_email |-> Text, from_name |-> Text, id |-> Text,
   provider |-> Object("provider_config"), reply_to |-> Text, scope |-> Enum("settings_scope"),
   scope_id |-> Text, updated_at |-> Text]

EmailConfigOverride ==
  [enabled |-> MaybeFlag, from_email |-> Text, from_name |-> Text,
   provider |-> Object("provider_config"), reply_to |-> Text]

EmailTestResult == [message_id |-> Text, provider |-> Text, to |-> Text]

EmailVerificationPolicy ==
  [email_verification_grace_period_hours |-> Number, email_verification_required |-> Flag]

EncryptRequest == [data_base64 |-> Text]

EncryptedExport == [ciphertext_armored |-> Text, recipient_key_id |-> Text]

FederationConfigResponse ==
  [allow_sha1_signatures |-> Flag, allow_tenant_inheritance |-> Flag, allowed_algorithms |-> Texts,
   allowed_issuer_tenants |-> Texts, apple_key_id |-> Text, apple_team_id |-> Text,
   attribute_map |-> Json, authorization_endpoint |-> Text, button_icon |-> Text,
   client_id |-> Text, created_at |-> Text, effective_scopes |-> Texts, enabled |-> Flag,
   has_bundled_mark |-> Flag, id |-> Text, idp_metadata_signing_cert_pem |-> Text,
   metadata_url |-> Text, mints_client_secret |-> Flag,
   native_login |-> Object("native_login_trust_response"), pkce_required |-> Flag,
   protocol |-> Text, provider |-> Text, provider_kind |-> Text, provider_slug |-> Text,
   scopes |-> Texts, tenant_id |-> Text, token_endpoint |-> Text,
   token_exchange |-> Object("token_exchange_trust_response"), updated_at |-> Text,
   userinfo_endpoint |-> Text]

FederationLinkResponse ==
  [created_at |-> Text, external_email |-> Text, external_subject |-> Text,
   federation_config_id |-> Text, id |-> Text, tenant_id |-> Text, updated_at |-> Text,
   user_id |-> Text]

GeneratedCaCertificate ==
  [chain_pem |-> Text, created_at |-> Text, fingerprint |-> Text, id |-> Text,
   key_algorithm |-> Enum("key_algorithm"), key_custody |-> Text, key_locator |-> Text,
   mtls_trust_anchor |-> MaybeFlag, not_after |-> Text, not_before |-> Text,
   organization_id |-> Text, parent_ca_id |-> Text, public_cert_pem |-> Text,
   status |-> Enum("certificate_status"), subject |-> Text, tenant_id |-> Text,
   private_key_pem |-> Secret]

GeneratedCertificate ==
  [cert_type |-> Enum("certificate_type"), created_at |-> Text, fingerprint |-> Text, id |-> Text,
   issuer_ca_id |-> Text, key_algorithm |-> Enum("key_algorithm"), metadata |-> Json,
   not_after |-> Text, not_before |-> Text, public_cert_pem |-> Text,
   status |-> Enum("certificate_status"), subject |-> Text, tenant_id |-> Text, user_id |-> Text,
   chain_pem |-> Text, private_key_pem |-> Secret]

GeneratedPgpKey ==
  [algorithm |-> Enum("pgp_key_algorithm"), created_at |-> Text, fingerprint |-> Text, id |-> Text,
   name |-> Text, public_key_armored |-> Text, purpose |-> Enum("pgp_key_purpose"),
   status |-> Enum("pgp_key_status"), tenant_id |-> Text, private_key_armored |-> Secret]

GrantPermissionRequest ==
  [effect |-> MaybeEnum("permission_effect"), permission_id |-> Text, scope_ids |-> Texts]

GrantScopeConsent == [client_id |-> Text, scopes |-> Texts]

GrantedScope == [id |-> Text, name |-> Text, resource_id |-> Text]

Group ==
  [created_at |-> Text, description |-> Text, id |-> Text, metadata |-> Json, name |-> Text,
   tenant_id |-> Text, updated_at |-> Text]

GroupMapping == [directory_group_dn |-> Text, group_id |-> Text]

HealthResponse == [profile |-> Text, status |-> Text, unavailable |-> Texts]

ImportCaCertificateRequest == [private_key_pem |-> Secret, public_cert_pem |-> Text]

IssueSamlIdpCredential ==
  [issuer_ca_id |-> Text, slot |-> Enum("saml_idp_slot"), validity_days |-> MaybeNumber]

LinkDirectoryAccount == [user_id |-> Text]

LockoutPolicy ==
  [lockout_backoff_multiplier |-> Real, lockout_duration_secs |-> Number,
   max_failed_login_attempts |-> Number, max_lockout_duration_secs |-> Number]

MdsRefreshOutcome ==
  [outcome |-> Union(
    [initial |-> {"entry_count", "no"},
     replaced |-> {"entry_count", "no"},
     no_op_refresh |-> {"no"},
     rollback_rejected |-> {"attempted_no", "stored_no"}])]

MdsStatusResponse ==
  [entry_count |-> Number, last_refreshed_at |-> Text, next_update |-> Text, no |-> MaybeNumber,
   stale |-> Flag]

MfaMethodResponse ==
  [created_at |-> Text, last_used_at |-> Text, method_id |-> Text,
   method_type |-> Enum("mfa_method_type"), name |-> Text]

MfaPolicy == [mfa_challenge_lifetime_secs |-> Number, mfa_enforced |-> Flag]

MigrateCustodyResponse ==
  [ca_certificate_id |-> Text, key_custody |-> Text, key_locator |-> Text,
   previous_custody |-> Text]

MtlsTrustAnchorResponse ==
  [ca_certificate_id |-> Text, message |-> Text, mtls_trust_anchor |-> Flag,
   restart_required |-> Flag, trusted_anchors |-> MaybeNumber]

NativeLoginTrustRequest ==
  [client_ids |-> Texts, enabled |-> MaybeFlag, max_token_age_secs |-> MaybeNumber]

NativeLoginTrustResponse ==
  [client_ids |-> Texts, enabled |-> Flag, max_token_age_secs |-> Number]

NetworkPolicyResponse ==
  [session_timeout_max_secs |-> Number, tenant_id |-> Text, updated_at |-> Text,
   updated_by |-> Text, version |-> Number]

NetworkReplyProfile ==
  [created_at |-> Text, created_by |-> Text, dictionary |-> Text, filter_id |-> Text,
   idle_timeout_secs |-> MaybeNumber, segment_id |-> Text,
   service_type |-> MaybeEnum("radius_service_type"), session_timeout_clamped |-> Flag,
   session_timeout_secs |-> Number, tenant_id |-> Text,
   termination_action |-> Enum("radius_termination_action"), updated_at |-> Text,
   updated_by |-> Text, version |-> Number]

NetworkReplyProfileInput ==
  [dictionary |-> Text, filter_id |-> Text, idle_timeout_secs |-> MaybeNumber,
   service_type |-> MaybeEnum("radius_service_type"), session_timeout_secs |-> Number,
   termination_action |-> MaybeEnum("radius_termination_action")]

NetworkSegmentResponse ==
  [created_at |-> Text, created_by |-> Text, enabled |-> Flag, filter_ids |-> Texts, id |-> Text,
   kind |-> Enum("network_segment_kind"), name |-> Text, path |-> Text, rank |-> MaybeNumber,
   site_key |-> Text, tenant_id |-> Text, updated_at |-> Text, updated_by |-> Text,
   version |-> Number, vlan_id |-> Number]

NotificationPolicy == [admin_notifications_enabled |-> Flag]

NotificationRuleResponse ==
  [created_at |-> Text, description |-> Text, enabled |-> Flag, events |-> Json, id |-> Text,
   name |-> Text, recipient_emails |-> Texts, tenant_id |-> Text, updated_at |-> Text,
   window_minutes |-> Number]

OAuth2ClientCreatedResponse ==
  [client_id |-> Text, client_secret |-> Secret, created_at |-> Text, grant_types |-> Texts,
   id |-> Text, name |-> Text, redirect_uris |-> Texts, scopes |-> Texts, tenant_id |-> Text,
   updated_at |-> Text]

OAuth2ClientResponse ==
  [allowed_resources |-> Texts, authn_request_params |-> Enum("authn_request_params_mode"),
   backchannel_authentication_request_signing_alg |-> MaybeEnum("ciba_request_signing_alg"),
   backchannel_client_notification_endpoint |-> Text,
   backchannel_token_delivery_mode |-> MaybeEnum("ciba_delivery_mode"), browser_sso |-> Flag,
   client_id |-> Text, created_at |-> Text, default_idp |-> Text,
   dpop_bound_access_tokens |-> Flag, dpop_require_nonce |-> Flag, grant_types |-> Texts,
   id |-> Text, jwks |-> Text, jwks_uri |-> Text, last_authorized_at |-> Text,
   managed_by |-> Enum("managed_by"), name |-> Text, profile |-> Enum("client_profile"),
   redirect_uris |-> Texts, require_par |-> Flag, scopes |-> Texts,
   self_signed_tls_client_auth_thumbprints |-> Texts, tenant_id |-> Text,
   tls_client_auth_san_dns |-> Text, tls_client_auth_san_uri |-> Text,
   tls_client_auth_subject_dn |-> Text, tls_client_certificate_bound_access_tokens |-> Flag,
   token_endpoint_auth_method |-> Enum("client_auth_method"), updated_at |-> Text]

OAuth2Policy == [refresh_reuse_response |-> MaybeEnum("refresh_reuse_response")]

OidcAuthorizeRequest ==
  [config_id |-> Text, nonce |-> Text, redirect_uri |-> Text, state |-> Text]

OidcAuthorizeResponse == [url |-> Text]

OidcCallbackRequest ==
  [code |-> Text, config_id |-> Text, nonce |-> Text, redirect_uri |-> Text, state |-> Text]

OidcCallbackResponse ==
  [federation_link_id |-> Text, newly_provisioned |-> Flag, user_id |-> Text]

OidcPolicy ==
  [cimd |-> Object("cimd_policy"), dcr_allowed_redirect_hosts |-> Texts,
   dcr_allowed_scopes |-> Texts, dcr_max_clients |-> MaybeNumber,
   dcr_unused_client_ttl_days |-> MaybeNumber, default_locale |-> Text,
   dynamic_registration |-> Text, external_client_allowed_resources |-> Texts,
   saml_idp_enabled |-> MaybeFlag, sensitive_scopes_enabled |-> Flag, ssf_enabled |-> MaybeFlag,
   ssf_inactive_reason |-> Text]

OpaqueEnrollment == [opaque_session |-> Text, registration_record |-> Text]

OpaquePolicy == [opaque_ksf |-> Text, opaque_mode |-> Text, opaque_suite |-> Text]

Organization ==
  [created_at |-> Text, id |-> Text, metadata |-> Json, name |-> Text, slug |-> Text,
   updated_at |-> Text]

ParseSamlSpMetadata == [metadata_url |-> Text, metadata_xml |-> Text]

PasswordPolicy ==
  [hibp_check_enabled |-> Flag, min_length |-> Number, password_history_count |-> Number,
   require_digits |-> Flag, require_lowercase |-> Flag, require_symbols |-> Flag,
   require_uppercase |-> Flag]

Permission ==
  [action |-> Text, created_at |-> Text, description |-> Text, id |-> Text, tenant_id |-> Text,
   updated_at |-> Text]

PgpKey ==
  [algorithm |-> Enum("pgp_key_algorithm"), created_at |-> Text, fingerprint |-> Text, id |-> Text,
   name |-> Text, public_key_armored |-> Text, purpose |-> Enum("pgp_key_purpose"),
   status |-> Enum("pgp_key_status"), tenant_id |-> Text]

PolicyResponse ==
  [allowed_aaguids |-> Texts, block_revoked_status |-> Flag, blocked_aaguids |-> Texts,
   min_certification |-> MaybeEnum("certification_level"), mode |-> Enum("attestation_mode"),
   require_fido_certified |-> Flag, unknown_aaguid |-> MaybeEnum("unknown_aaguid_action"),
   effective_unknown_aaguid |-> Enum("unknown_aaguid_action")]

PrivacyPolicy == [deletion_grace_period_days |-> Number]

ProviderConfig ==
  [kind |-> Union(
    [smtp |-> {"host", "port", "starttls", "username"},
     send_grid |-> {"api_url"},
     postmark |-> {"api_url"},
     resend |-> {"api_url"},
     brevo |-> {"api_url"}])]

ReactorEventDescriptor ==
  [default_failure_policy |-> Enum("failure_policy"), description |-> Text, interceptable |-> Flag,
   mutable |-> Flag, mutable_fields |-> Texts, name |-> Text]

ReactorResponse ==
  [created_at |-> Text, description |-> Text, enabled |-> Flag, events |-> Texts,
   failure_policy |-> Enum("failure_policy"), id |-> Text, last_seen_at |-> Text,
   mode |-> Enum("reactor_mode"), name |-> Text, priority |-> Number,
   recent_timeout_count |-> Number, recent_veto_count |-> Number, tenant_id |-> Text,
   timeout_ms |-> Number, updated_at |-> Text]

ReadyResponse == [database |-> Text, status |-> Text]

RegistrationTokenResponse ==
  [created_at |-> Text, created_by |-> Text, expires_at |-> Text, id |-> Text, name |-> Text,
   tenant_id |-> Text, used_at |-> Text, used_by_client_id |-> Text]

ReplaceNetworkPolicyRequest == [session_timeout_max_secs |-> Number, version |-> Number]

ReplaceNetworkReplyProfileRequest ==
  [profile |-> Object("network_reply_profile_input"), segment_version |-> Number,
   version |-> Number]

ReplaceNetworkSegmentRequest ==
  [enabled |-> Flag, filter_ids |-> Texts, rank |-> MaybeNumber, version |-> Number,
   vlan_id |-> Number]

ResolvedPermissionGrant ==
  [effect |-> Enum("permission_effect"), permission |-> Object("permission"), scope_ids |-> Texts,
   scopes |-> Objects("granted_scope")]

Resource ==
  [created_at |-> Text, id |-> Text, metadata |-> Json, name |-> Text, parent_id |-> Text,
   resource_type |-> Text, tenant_id |-> Text, uma_registered_by |-> Text, updated_at |-> Text]

RetryPolicy ==
  [backoff_multiplier |-> Real, initial_delay_secs |-> Number, max_retries |-> Number]

Role ==
  [created_at |-> Text, description |-> Text, id |-> Text, is_global |-> Flag, name |-> Text,
   tenant_id |-> Text, updated_at |-> Text]

RoleAssignment ==
  [inherit |-> MaybeTrueFlag, resource_id |-> Text, role |-> Object("role"),
   tenant_scope |-> SomeTexts]

RoleGroupAssignment ==
  [group |-> Object("group"), inherit |-> TrueFlag, resource_id |-> Text,
   tenant_scope |-> SomeTexts]

RoleServiceAccountAssignment ==
  [inherit |-> TrueFlag, resource_id |-> Text,
   service_account |-> Object("service_account_response"), tenant_scope |-> SomeTexts]

RoleUserAssignment ==
  [inherit |-> TrueFlag, resource_id |-> Text, tenant_scope |-> SomeTexts,
   user |-> Object("user_response")]

RotateSecretResponse == [client_secret |-> Secret]

SamlIdpCredential ==
  [certificate_pem |-> Text, created_at |-> Text, fingerprint |-> Text, id |-> Text,
   issuer_ca_id |-> Text, not_after |-> Text, not_before |-> Text, retired_at |-> Text,
   serial |-> Text, status |-> Enum("saml_idp_credential_status"), tenant_id |-> Text]

SamlIdpCredentialPromotion ==
  [active |-> Object("saml_idp_credential"), retired |-> Object("saml_idp_credential")]

SamlIdpInfo ==
  [active_credential_id |-> Nullable, entity_id |-> Text, metadata_served |-> Flag,
   metadata_url |-> Text, next_credential_id |-> Nullable, saml_available |-> Flag,
   saml_idp_enabled |-> Flag, slo_url |-> Text, sso_url |-> Text, tenant_id |-> Text]

SamlServiceProvider ==
  [acs_urls |-> Objects("acs_endpoint"), allow_idp_initiated |-> Flag, allowed_groups |-> Texts,
   attribute_mappings |-> Objects("attribute_mapping"), created_at |-> Text,
   display_name |-> Text, enabled |-> Flag, encrypt_assertions |-> Flag, entity_id |-> Text,
   id |-> Text, name_id_format |-> Enum("name_id_format"), sign_responses |-> Flag,
   slo_binding |-> MaybeEnum("saml_binding"), slo_url |-> Text, sp_encryption_cert_pem |-> Text,
   sp_signing_cert_pem |-> Text, tenant_id |-> Text, updated_at |-> Text,
   want_authn_requests_signed |-> Flag]

SamlServiceProviderInput ==
  [acs_urls |-> Objects("acs_endpoint"), allow_idp_initiated |-> MaybeFlag,
   allowed_groups |-> Texts, attribute_mappings |-> Objects("attribute_mapping"),
   display_name |-> Text, enabled |-> MaybeFlag, encrypt_assertions |-> MaybeFlag,
   entity_id |-> Text, name_id_format |-> MaybeEnum("name_id_format"),
   sign_responses |-> MaybeFlag, slo_binding |-> MaybeEnum("saml_binding"), slo_url |-> Text,
   sp_encryption_cert_pem |-> Text, sp_signing_cert_pem |-> Text,
   want_authn_requests_signed |-> MaybeFlag]

SamlSpMetadataDraft ==
  [encryption_certificate_fingerprint |-> Text,
   service_provider |-> Object("saml_service_provider_input"),
   signing_certificate_fingerprint |-> Text, warnings |-> Texts]

ScimReconcileAccepted == [status |-> Text, target_id |-> Text]

ScimTargetAuth ==
  [type |-> Union(
    [bearer |-> {},
     oauth2_client_credentials |-> {"client_id", "scope", "token_url"}])]

ScimTargetDeliveryState ==
  [consecutive_failures |-> Number, dead_lettered_total |-> Number, last_failure_at |-> Text,
   last_failure_reason |-> Text, last_reconciled_at |-> Text, last_success_at |-> Text]

ScimTargetInput ==
  [auth |-> Object("scim_target_auth"), base_url |-> Text, credential |-> Secret,
   deprovision |-> MaybeEnum("deprovision_policy"), enabled |-> MaybeFlag,
   expected_updated_at |-> Text, name |-> Text, push_groups |-> MaybeFlag,
   scope |-> Object("scim_target_scope"), user_name_from |-> MaybeEnum("user_name_source")]

ScimTargetResponse ==
  [auth |-> Object("scim_target_auth"), base_url |-> Text, created_at |-> Text,
   deprovision |-> Enum("deprovision_policy"), enabled |-> Flag, id |-> Text, name |-> Text,
   push_groups |-> Flag, scope |-> Object("scim_target_scope"),
   state |-> Object("scim_target_delivery_state"), tenant_id |-> Text, updated_at |-> Text,
   user_name_from |-> Enum("user_name_source")]

ScimTargetScope ==
  [type |-> Union(
    [all_users |-> {},
     groups |-> {"group_ids"}])]

ScimTokenResponse ==
  [created_at |-> Text, created_by |-> Text, expires_at |-> Text, id |-> Text,
   last_used_at |-> Text, name |-> Text, revoked_at |-> Text,
   status |-> Enum("scim_token_status"), tenant_id |-> Text, user_id |-> Text]

Scope ==
  [created_at |-> Text, description |-> Text, id |-> Text, name |-> Text, resource_id |-> Text,
   tenant_id |-> Text, updated_at |-> Text]

SecuritySettings ==
  [certificate |-> Object("certificate_policy"), created_at |-> Text,
   email |-> Object("email_verification_policy"), id |-> Text,
   lockout |-> Object("lockout_policy"), mfa |-> Object("mfa_policy"),
   notification |-> Object("notification_policy"), oauth2 |-> Object("o_auth2_policy"),
   oidc |-> Object("oidc_policy"), opaque |-> Object("opaque_policy"),
   password |-> Object("password_policy"), privacy |-> Object("privacy_policy"),
   scope |-> Enum("settings_scope"), scope_id |-> Text, token |-> Object("token_policy"),
   updated_at |-> Text, webauthn |-> Object("webauthn_policy")]

ServiceAccountCreatedResponse ==
  [client_id |-> Text, client_secret |-> Secret, created_at |-> Text, description |-> Text,
   id |-> Text, name |-> Text, status |-> Enum("user_status"), tenant_id |-> Text,
   updated_at |-> Text]

ServiceAccountResponse ==
  [client_id |-> Text, created_at |-> Text, description |-> Text, id |-> Text, name |-> Text,
   status |-> Enum("user_status"), tenant_id |-> Text, updated_at |-> Text]

SessionResponse ==
  [amr |-> Texts, authenticated_at |-> Text, created_at |-> Text, expires_at |-> Text, id |-> Text,
   ip_address |-> Text, refresh_replay_at |-> Text, refresh_replay_grace_accepted |-> Number,
   refresh_replay_refused |-> Number, refresh_replay_verdict |-> Text, user_agent |-> Text]

SetDirectoryConfig ==
  [base_dn |-> Text, bind_dn |-> Text, bind_secret |-> Secret, enabled |-> Flag,
   group_base_dn |-> Text, group_filter |-> Text, group_mappings |-> Objects("group_mapping"),
   group_member_attribute |-> Text, group_nesting_depth |-> MaybeNumber,
   jit_provisioning |-> MaybeFlag, kind |-> Enum("directory_kind"), start_tls |-> Flag,
   sync_interval_secs |-> MaybeNumber, trust_anchors_pem |-> Texts, url |-> Text,
   user_attribute_map |-> Object("user_attribute_map"), user_filter |-> Text]

SetMtlsTrustAnchor == [enabled |-> Flag]

SetOrgEmailConfig ==
  [enabled |-> Flag, from_email |-> Text, from_name |-> Text,
   provider |-> Object("provider_config"), reply_to |-> Text]

SetOrgSettings ==
  [access_token_lifetime_secs |-> Number, admin_notifications_enabled |-> Flag,
   cimd |-> Object("cimd_policy"), dcr_allowed_redirect_hosts |-> Texts,
   dcr_allowed_scopes |-> Texts, dcr_max_clients |-> MaybeNumber,
   dcr_unused_client_ttl_days |-> MaybeNumber, default_cert_validity_days |-> Number,
   default_locale |-> Text, deletion_grace_period_days |-> MaybeNumber,
   dynamic_registration |-> Text, email_verification_grace_period_hours |-> Number,
   email_verification_required |-> Flag, external_client_allowed_resources |-> Texts,
   hibp_check_enabled |-> Flag, lockout_backoff_multiplier |-> Real,
   lockout_duration_secs |-> Number, max_cert_validity_days |-> Number,
   max_failed_login_attempts |-> Number, max_lockout_duration_secs |-> Number,
   mfa_challenge_lifetime_secs |-> Number, mfa_enforced |-> Flag, min_length |-> Number,
   opaque_ksf |-> Text, opaque_mode |-> Text, opaque_suite |-> Text,
   password_history_count |-> Number,
   refresh_reuse_response |-> MaybeEnum("refresh_reuse_response"),
   refresh_token_lifetime_secs |-> Number, require_digits |-> Flag, require_lowercase |-> Flag,
   require_symbols |-> Flag, require_uppercase |-> Flag, saml_idp_enabled |-> MaybeFlag,
   sensitive_scopes_enabled |-> MaybeFlag, server_cert_allowed_names |-> Texts,
   ssf_enabled |-> MaybeFlag, webauthn_user_verification |-> Text]

SignAuditBatchRequest == [entry_ids |-> Texts]

SignCertificateCsrRequest ==
  [cert_type |-> Enum("certificate_type"), csr_pem |-> Text, issuer_ca_id |-> Text,
   metadata |-> Json, subject_alt_names |-> Objects("subject_alt_name"), user_id |-> Text,
   validity_days |-> Number]

SignIntermediateCsrRequest ==
  [csr_pem |-> Text, parent_ca_id |-> Text, validity_days |-> Number]

SignedAuditBatch ==
  [batch_id |-> Text, entry_ids |-> Texts, signature_armored |-> Text, signed_at |-> Text,
   signing_key_id |-> Text, tenant_id |-> Text]

SmtpConfig == [host |-> Text, port |-> Number, starttls |-> Flag, username |-> Text]

SsfStream ==
  [audience |-> Text, authorization_header_set |-> Flag, created_at |-> Text,
   delivery_method |-> Enum("ssf_delivery_method"), description |-> Text, endpoint_url |-> Text,
   events_allowed |-> Json, events_delivered |-> Json, events_requested |-> Json, id |-> Text,
   last_verification_at |-> Text, receiver_client_id |-> Text,
   status |-> Enum("ssf_stream_status"), status_actor |-> Enum("ssf_status_actor"),
   status_reason |-> Text, subject_format |-> Enum("ssf_subject_format"), tenant_id |-> Text,
   transmitter_active |-> Flag, transmitter_inactive_reason |-> Text, updated_at |-> Text]

SsfStreamInput ==
  [audience |-> Text, authorization_header |-> Secret, clear_authorization_header |-> MaybeFlag,
   delivery_method |-> Enum("ssf_delivery_method"), description |-> Text, endpoint_url |-> Text,
   events_allowed |-> Json, events_requested |-> Json, expected_updated_at |-> Text,
   receiver_client_id |-> Text, status |-> MaybeEnum("ssf_stream_status"), status_reason |-> Text,
   subject_format |-> MaybeEnum("ssf_subject_format")]

SubjectAltName == [dns |-> Arm, ip |-> Arm]

Tenant ==
  [created_at |-> Text, id |-> Text, kind |-> MaybeEnum("tenant_kind"), metadata |-> Json,
   name |-> Text, organization_id |-> Text, slug |-> Text, status |-> Enum("tenant_status"),
   updated_at |-> Text]

TenantSettingsOverride ==
  [access_token_lifetime_secs |-> MaybeNumber, admin_notifications_enabled |-> MaybeFlag,
   cimd |-> Object("cimd_policy"), dcr_allowed_redirect_hosts |-> Texts,
   dcr_allowed_scopes |-> Texts, dcr_max_clients |-> MaybeNumber,
   dcr_unused_client_ttl_days |-> MaybeNumber, default_cert_validity_days |-> MaybeNumber,
   default_locale |-> Text, deletion_grace_period_days |-> MaybeNumber,
   dynamic_registration |-> Text, email_verification_grace_period_hours |-> MaybeNumber,
   email_verification_required |-> MaybeFlag, external_client_allowed_resources |-> Texts,
   hibp_check_enabled |-> MaybeFlag, lockout_backoff_multiplier |-> MaybeReal,
   lockout_duration_secs |-> MaybeNumber, max_cert_validity_days |-> MaybeNumber,
   max_failed_login_attempts |-> MaybeNumber, max_lockout_duration_secs |-> MaybeNumber,
   mfa_challenge_lifetime_secs |-> MaybeNumber, mfa_enforced |-> MaybeFlag,
   min_length |-> MaybeNumber, opaque_ksf |-> Text, opaque_mode |-> Text, opaque_suite |-> Text,
   password_history_count |-> MaybeNumber,
   refresh_reuse_response |-> MaybeEnum("refresh_reuse_response"),
   refresh_token_lifetime_secs |-> MaybeNumber, require_digits |-> MaybeFlag,
   require_lowercase |-> MaybeFlag, require_symbols |-> MaybeFlag,
   require_uppercase |-> MaybeFlag, saml_idp_enabled |-> MaybeFlag,
   sensitive_scopes_enabled |-> MaybeFlag, server_cert_allowed_names |-> Texts,
   ssf_enabled |-> MaybeFlag, webauthn_user_verification |-> Text]

TokenExchangeTrustRequest ==
  [accepted_audiences |-> Texts, enabled |-> MaybeFlag, max_lifetime_secs |-> MaybeNumber,
   max_token_age_secs |-> MaybeNumber, scope_map |-> Json, subject_mapping |-> Text]

TokenExchangeTrustResponse ==
  [accepted_audiences |-> Texts, enabled |-> Flag, max_lifetime_secs |-> MaybeNumber,
   max_token_age_secs |-> Number, scope_map |-> Json, subject_mapping |-> Text]

TokenPolicy == [access_token_lifetime_secs |-> Number, refresh_token_lifetime_secs |-> Number]

UpdateDirectoryConfig ==
  [base_dn |-> Text, bind_dn |-> Text, bind_secret |-> Secret, enabled |-> MaybeFlag,
   group_base_dn |-> Nullable, group_filter |-> Nullable,
   group_mappings |-> Objects("group_mapping"), group_member_attribute |-> Text,
   group_nesting_depth |-> MaybeNumber, jit_provisioning |-> MaybeFlag,
   kind |-> MaybeEnum("directory_kind"), start_tls |-> MaybeFlag,
   sync_interval_secs |-> MaybeNumber, trust_anchors_pem |-> Texts, url |-> Text,
   user_attribute_map |-> Object("user_attribute_map"), user_filter |-> Text]

UpdateFederationConfigRequest ==
  [allow_sha1_signatures |-> MaybeFlag, allow_tenant_inheritance |-> MaybeFlag,
   allowed_algorithms |-> Texts, allowed_issuer_tenants |-> Texts, apple_key_id |-> Nullable,
   apple_team_id |-> Nullable, attribute_map |-> Json, authorization_endpoint |-> Nullable,
   button_icon |-> Nullable, client_id |-> Text, client_secret |-> Secret, enabled |-> MaybeFlag,
   idp_metadata_signing_cert_pem |-> Nullable, idp_signing_cert_pem |-> Nullable,
   metadata_url |-> Nullable, native_login |-> Object("native_login_trust_request"),
   provider |-> Text, provider_slug |-> Nullable, require_pkce |-> MaybeFlag, scopes |-> Texts,
   token_endpoint |-> Nullable, token_exchange |-> Object("token_exchange_trust_request"),
   userinfo_endpoint |-> Nullable]

UpdateGroup == [description |-> Text, metadata |-> Json, name |-> Text]

UpdateNotificationRuleRequest ==
  [description |-> Text, enabled |-> MaybeFlag, events |-> Json, name |-> Text,
   recipient_emails |-> Texts, window_minutes |-> MaybeNumber]

UpdateOAuth2ClientRequest ==
  [allowed_resources |-> Texts, authn_request_params |-> MaybeEnum("authn_request_params_mode"),
   backchannel_authentication_request_signing_alg |-> Text,
   backchannel_client_notification_endpoint |-> Text, backchannel_logout_uri |-> Text,
   backchannel_token_delivery_mode |-> Text, backchannel_user_code_parameter |-> MaybeFlag,
   browser_sso |-> MaybeFlag, default_idp |-> Text, dpop_bound_access_tokens |-> MaybeFlag,
   dpop_require_nonce |-> MaybeFlag, grant_types |-> Texts, jwks |-> Text, jwks_uri |-> Text,
   name |-> Text, post_logout_redirect_uris |-> Texts, profile |-> MaybeEnum("client_profile"),
   redirect_uris |-> Texts, require_par |-> MaybeFlag, scopes |-> Texts,
   self_signed_tls_client_auth_thumbprints |-> Texts, tls_client_auth_san_dns |-> Text,
   tls_client_auth_san_uri |-> Text, tls_client_auth_subject_dn |-> Text,
   tls_client_certificate_bound_access_tokens |-> MaybeFlag,
   token_endpoint_auth_method |-> MaybeEnum("client_auth_method")]

UpdateOrganizationRequest == [metadata |-> Json, name |-> Text, slug |-> Text]

UpdatePermissionRequest == [action |-> Text, description |-> Text]

UpdateReactorRequest ==
  [description |-> Text, enabled |-> MaybeFlag, events |-> Texts,
   failure_policy |-> MaybeEnum("failure_policy"), mode |-> MaybeEnum("reactor_mode"),
   name |-> Text, priority |-> MaybeNumber, timeout_ms |-> MaybeNumber]

UpdateResourceRequest ==
  [metadata |-> Json, name |-> Text, parent_id |-> Text, resource_type |-> Text]

UpdateRole == [description |-> Text, is_global |-> MaybeFlag, name |-> Text]

UpdateScopeRequest == [description |-> Text, name |-> Text]

UpdateServiceAccount ==
  [description |-> Text, name |-> Text, status |-> MaybeEnum("user_status")]

UpdateTenant ==
  [metadata |-> Json, name |-> Text, slug |-> Text, status |-> MaybeEnum("tenant_status")]

UpdateUserRequest ==
  [email |-> Text, metadata |-> Json, status |-> MaybeEnum("user_status"), username |-> Text]

UpdateWebhookRequest ==
  [enabled |-> MaybeFlag, events |-> Texts, retry_policy |-> Object("retry_policy"),
   secret |-> Secret, url |-> Text]

UserAttributeMap ==
  [display_name |-> Text, email |-> Text, external_id |-> Text, username |-> Text]

UserResponse ==
  [created_at |-> Text, email |-> Text, email_verified |-> Flag, failed_login_attempts |-> Number,
   id |-> Text, is_locked |-> Flag, locked_until |-> Text, metadata |-> Json,
   mfa_enabled |-> Flag, status |-> Enum("user_status"), tenant_id |-> Text, updated_at |-> Text,
   username |-> Text]

WebauthnAttestationPolicy ==
  [allowed_aaguids |-> Texts, block_revoked_status |-> Flag, blocked_aaguids |-> Texts,
   min_certification |-> MaybeEnum("certification_level"), mode |-> Enum("attestation_mode"),
   require_fido_certified |-> Flag, unknown_aaguid |-> MaybeEnum("unknown_aaguid_action")]

WebauthnPolicy == [webauthn_user_verification |-> Text]

WebhookResponse ==
  [created_at |-> Text, enabled |-> Flag, events |-> Texts, id |-> Text,
   retry_policy |-> Object("retry_policy"), tenant_id |-> Text, updated_at |-> Text, url |-> Text]

(* Every model by the name of its type. *)
Models ==
  [acs_endpoint |-> AcsEndpoint, add_member_request |-> AddMemberRequest,
   add_service_account_member_request |-> AddServiceAccountMemberRequest,
   api_provider_config |-> ApiProviderConfig,
   assign_role_to_group_request |-> AssignRoleToGroupRequest,
   assign_role_to_service_account_request |-> AssignRoleToServiceAccountRequest,
   assign_role_to_user_request |-> AssignRoleToUserRequest,
   attribute_mapping |-> AttributeMapping, audit_log_entry |-> AuditLogEntry,
   bind_certificate |-> BindCertificate, ca_certificate |-> CaCertificate,
   certificate |-> Certificate, certificate_policy |-> CertificatePolicy,
   cimd_policy |-> CimdPolicy, compliance_report_entry |-> ComplianceReportEntry,
   consent_view |-> ConsentView, create_ca_certificate_request |-> CreateCaCertificateRequest,
   create_certificate_request |-> CreateCertificateRequest,
   create_federation_config_request |-> CreateFederationConfigRequest,
   create_group_request |-> CreateGroupRequest,
   create_intermediate_ca_request |-> CreateIntermediateCaRequest,
   create_network_reply_profile_request |-> CreateNetworkReplyProfileRequest,
   create_network_segment_request |-> CreateNetworkSegmentRequest,
   create_notification_rule_request |-> CreateNotificationRuleRequest,
   create_o_auth2_client_request |-> CreateOAuth2ClientRequest,
   create_permission_request |-> CreatePermissionRequest,
   create_pgp_key_request |-> CreatePgpKeyRequest,
   create_reactor_request |-> CreateReactorRequest,
   create_registration_token_request |-> CreateRegistrationTokenRequest,
   create_registration_token_response |-> CreateRegistrationTokenResponse,
   create_resource_request |-> CreateResourceRequest, create_role_request |-> CreateRoleRequest,
   create_scim_token_request |-> CreateScimTokenRequest,
   create_scim_token_response |-> CreateScimTokenResponse,
   create_scope_request |-> CreateScopeRequest,
   create_service_account_request |-> CreateServiceAccountRequest,
   create_tenant_request |-> CreateTenantRequest, create_user_request |-> CreateUserRequest,
   create_webhook_request |-> CreateWebhookRequest, directory_config |-> DirectoryConfig,
   directory_link_result |-> DirectoryLinkResult, directory_sync_status |-> DirectorySyncStatus,
   email_config |-> EmailConfig, email_config_override |-> EmailConfigOverride,
   email_test_result |-> EmailTestResult, email_verification_policy |-> EmailVerificationPolicy,
   encrypt_request |-> EncryptRequest, encrypted_export |-> EncryptedExport,
   federation_config_response |-> FederationConfigResponse,
   federation_link_response |-> FederationLinkResponse,
   generated_ca_certificate |-> GeneratedCaCertificate,
   generated_certificate |-> GeneratedCertificate, generated_pgp_key |-> GeneratedPgpKey,
   grant_permission_request |-> GrantPermissionRequest, grant_scope_consent |-> GrantScopeConsent,
   granted_scope |-> GrantedScope, group |-> Group, group_mapping |-> GroupMapping,
   health_response |-> HealthResponse,
   import_ca_certificate_request |-> ImportCaCertificateRequest,
   issue_saml_idp_credential |-> IssueSamlIdpCredential,
   link_directory_account |-> LinkDirectoryAccount, lockout_policy |-> LockoutPolicy,
   mds_refresh_outcome |-> MdsRefreshOutcome, mds_status_response |-> MdsStatusResponse,
   mfa_method_response |-> MfaMethodResponse, mfa_policy |-> MfaPolicy,
   migrate_custody_response |-> MigrateCustodyResponse,
   mtls_trust_anchor_response |-> MtlsTrustAnchorResponse,
   native_login_trust_request |-> NativeLoginTrustRequest,
   native_login_trust_response |-> NativeLoginTrustResponse,
   network_policy_response |-> NetworkPolicyResponse,
   network_reply_profile |-> NetworkReplyProfile,
   network_reply_profile_input |-> NetworkReplyProfileInput,
   network_segment_response |-> NetworkSegmentResponse,
   notification_policy |-> NotificationPolicy,
   notification_rule_response |-> NotificationRuleResponse,
   o_auth2_client_created_response |-> OAuth2ClientCreatedResponse,
   o_auth2_client_response |-> OAuth2ClientResponse, o_auth2_policy |-> OAuth2Policy,
   oidc_authorize_request |-> OidcAuthorizeRequest,
   oidc_authorize_response |-> OidcAuthorizeResponse,
   oidc_callback_request |-> OidcCallbackRequest, oidc_callback_response |-> OidcCallbackResponse,
   oidc_policy |-> OidcPolicy, opaque_enrollment |-> OpaqueEnrollment,
   opaque_policy |-> OpaquePolicy, organization |-> Organization,
   parse_saml_sp_metadata |-> ParseSamlSpMetadata, password_policy |-> PasswordPolicy,
   permission |-> Permission, pgp_key |-> PgpKey, policy_response |-> PolicyResponse,
   privacy_policy |-> PrivacyPolicy, provider_config |-> ProviderConfig,
   reactor_event_descriptor |-> ReactorEventDescriptor, reactor_response |-> ReactorResponse,
   ready_response |-> ReadyResponse, registration_token_response |-> RegistrationTokenResponse,
   replace_network_policy_request |-> ReplaceNetworkPolicyRequest,
   replace_network_reply_profile_request |-> ReplaceNetworkReplyProfileRequest,
   replace_network_segment_request |-> ReplaceNetworkSegmentRequest,
   resolved_permission_grant |-> ResolvedPermissionGrant, resource |-> Resource,
   retry_policy |-> RetryPolicy, role |-> Role, role_assignment |-> RoleAssignment,
   role_group_assignment |-> RoleGroupAssignment,
   role_service_account_assignment |-> RoleServiceAccountAssignment,
   role_user_assignment |-> RoleUserAssignment, rotate_secret_response |-> RotateSecretResponse,
   saml_idp_credential |-> SamlIdpCredential,
   saml_idp_credential_promotion |-> SamlIdpCredentialPromotion, saml_idp_info |-> SamlIdpInfo,
   saml_service_provider |-> SamlServiceProvider,
   saml_service_provider_input |-> SamlServiceProviderInput,
   saml_sp_metadata_draft |-> SamlSpMetadataDraft,
   scim_reconcile_accepted |-> ScimReconcileAccepted, scim_target_auth |-> ScimTargetAuth,
   scim_target_delivery_state |-> ScimTargetDeliveryState, scim_target_input |-> ScimTargetInput,
   scim_target_response |-> ScimTargetResponse, scim_target_scope |-> ScimTargetScope,
   scim_token_response |-> ScimTokenResponse, scope |-> Scope,
   security_settings |-> SecuritySettings,
   service_account_created_response |-> ServiceAccountCreatedResponse,
   service_account_response |-> ServiceAccountResponse, session_response |-> SessionResponse,
   set_directory_config |-> SetDirectoryConfig, set_mtls_trust_anchor |-> SetMtlsTrustAnchor,
   set_org_email_config |-> SetOrgEmailConfig, set_org_settings |-> SetOrgSettings,
   sign_audit_batch_request |-> SignAuditBatchRequest,
   sign_certificate_csr_request |-> SignCertificateCsrRequest,
   sign_intermediate_csr_request |-> SignIntermediateCsrRequest,
   signed_audit_batch |-> SignedAuditBatch, smtp_config |-> SmtpConfig, ssf_stream |-> SsfStream,
   ssf_stream_input |-> SsfStreamInput, subject_alt_name |-> SubjectAltName, tenant |-> Tenant,
   tenant_settings_override |-> TenantSettingsOverride,
   token_exchange_trust_request |-> TokenExchangeTrustRequest,
   token_exchange_trust_response |-> TokenExchangeTrustResponse, token_policy |-> TokenPolicy,
   update_directory_config |-> UpdateDirectoryConfig,
   update_federation_config_request |-> UpdateFederationConfigRequest,
   update_group |-> UpdateGroup,
   update_notification_rule_request |-> UpdateNotificationRuleRequest,
   update_o_auth2_client_request |-> UpdateOAuth2ClientRequest,
   update_organization_request |-> UpdateOrganizationRequest,
   update_permission_request |-> UpdatePermissionRequest,
   update_reactor_request |-> UpdateReactorRequest,
   update_resource_request |-> UpdateResourceRequest, update_role |-> UpdateRole,
   update_scope_request |-> UpdateScopeRequest, update_service_account |-> UpdateServiceAccount,
   update_tenant |-> UpdateTenant, update_user_request |-> UpdateUserRequest,
   update_webhook_request |-> UpdateWebhookRequest, user_attribute_map |-> UserAttributeMap,
   user_response |-> UserResponse, webauthn_attestation_policy |-> WebauthnAttestationPolicy,
   webauthn_policy |-> WebauthnPolicy, webhook_response |-> WebhookResponse]

-----------------------------------------------------------------------------
(* The members each axiam_mgmt_*_unsendable looks at. A type without one   *)
(* is never refused.                                                       *)

ChecksOfAcsToTenant ==
  [acs_endpoint |-> {"binding"}, attribute_mapping |-> {"source"},
   create_ca_certificate_request |-> {"key_algorithm"},
   create_certificate_request |-> {"cert_type", "key_algorithm"},
   create_intermediate_ca_request |-> {"key_algorithm"},
   create_network_reply_profile_request |-> {"profile"},
   create_network_segment_request |-> {"kind"},
   create_o_auth2_client_request |-> {"authn_request_params", "profile",
   "token_endpoint_auth_method"}, create_pgp_key_request |-> {"algorithm", "purpose"},
   create_reactor_request |-> {"failure_policy", "mode"}, grant_permission_request |-> {"effect"},
   issue_saml_idp_credential |-> {"slot"}, network_reply_profile_input |-> {"service_type",
   "termination_action"}, replace_network_reply_profile_request |-> {"profile"},
   saml_service_provider_input |-> {"acs_urls", "attribute_mappings", "name_id_format",
   "slo_binding"}, scim_target_input |-> {"deprovision", "user_name_from"},
   set_directory_config |-> {"kind"}, set_org_settings |-> {"refresh_reuse_response"},
   sign_certificate_csr_request |-> {"cert_type"}, ssf_stream_input |-> {"delivery_method",
   "status", "subject_format"}, tenant_settings_override |-> {"refresh_reuse_response"}]

ChecksOfUpdateToWebauthn ==
  [update_directory_config |-> {"kind"},
   update_o_auth2_client_request |-> {"authn_request_params", "profile",
   "token_endpoint_auth_method"}, update_reactor_request |-> {"failure_policy", "mode"},
   update_service_account |-> {"status"}, update_tenant |-> {"status"},
   update_user_request |-> {"status"}, webauthn_attestation_policy |-> {"min_certification",
   "mode", "unknown_aaguid"}]

(* Every type that has a check. *)
Checks == ChecksOfAcsToTenant @@ ChecksOfUpdateToWebauthn

-----------------------------------------------------------------------------
(* A member deep in a type is named by the path that leads to it.          *)

RECURSIVE Leaves(_)
Leaves(model) ==
  UNION {IF Models[model][m].kind \in Nested
         THEN {<<m>> \o p : p \in Leaves(Models[model][m].of)} ELSE {<<m>>}
         : m \in DOMAIN Models[model]}

(* An enum comes with the words of its vocabulary. *)
WithWords(c) == IF c.kind \in Closed THEN [kind |-> c.kind, words |-> Enums[c.of]] ELSE c

RECURSIVE ClassAt(_, _)
ClassAt(model, path) ==
  IF Len(path) = 1 THEN WithWords(Models[model][path[1]])
  ELSE ClassAt(Models[model][path[1]].of, Tail(path))

(* axiam_mgmt_*_unsendable on the way to a member: the type looks at it,   *)
(* and for a nested one so does the nested type.                           *)
RECURSIVE ChecksAt(_, _)
ChecksAt(model, path) ==
  /\ model \in DOMAIN Checks
  /\ path[1] \in Checks[model]
  /\ Len(path) > 1 => ChecksAt(Models[model][path[1]].of, Tail(path))
=============================================================================
