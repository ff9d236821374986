--------------------------- MODULE SettingsTable ---------------------------
(***************************************************************************)
(* The catalogue of runtime settings and the presets                       *)
(* (services/settings_registry.py): default, hard bounds and risk of every *)
(* key.  A boolean is 0 or 1; a setting whose value is a text can only be  *)
(* read and has the one value 0.                                           *)
(***************************************************************************)
EXTENDS Integers

Row(key, default, minimum, maximum, editable, risk) ==
    [key |-> key, default |-> default, minimum |-> minimum, maximum |-> maximum,
     editable |-> editable, risk |-> risk]

Green(key, default, minimum, maximum) ==
    Row(key, default, minimum, maximum, TRUE, "green")
Yellow(key, default, minimum, maximum) ==
    Row(key, default, minimum, maximum, TRUE, "yellow")
Red(key, default, minimum, maximum) ==
    Row(key, default, minimum, maximum, TRUE, "red")
ReadOnly(key, default, minimum, maximum) ==
    Row(key, default, minimum, maximum, FALSE, "yellow")
Switch(key) == Row(key, 1, 0, 1, TRUE, "green")
Fixed(key) == Row(key, 0, 0, 0, FALSE, "locked")

Economy ==
    {ReadOnly("daily_settlement_limit", 10, 1, 100),
     ReadOnly("daily_revenue_limit_atomic", 1000000, 10000, 10000000),
     Green("quota_warning_1", 80, 50, 95),
     Green("quota_warning_2", 100, 80, 100),
     Red("facilitator_fee_atomic", 0, 0, 100000),
     Red("rpc_cost_atomic", 0, 0, 100000),
     Yellow("cache_hit_cost_atomic", 0, 0, 100000),
     Yellow("cache_miss_cost_atomic", 200, 0, 100000),
     Red("operational_reserve_bps", 1000, 0, 5000),
     Red("minimum_target_margin_bps", 1000, 0, 9000)}

Limits ==
    {Yellow("global_paid_concurrency", 8, 1, 32),
     Yellow("per_domain_concurrency", 2, 1, 4),
     Yellow("payer_rate_per_minute", 30, 1, 120),
     Yellow("unpaid_rate_per_ip", 120, 10, 600),
     Yellow("fresh_rate_per_payer", 5, 1, 30),
     Yellow("queue_max_size", 100, 10, 1000),
     Red("circuit_failure_threshold", 3, 3, 10),
     Red("circuit_cooldown_seconds", 300, 60, 1800),
     Yellow("request_json_kib", 16, 4, 16),
     Yellow("operation_timeout_seconds", 12, 5, 30)}

Fetch ==
    {Yellow("fetch_connect_timeout_seconds", 3, 1, 5),
     Yellow("fetch_read_timeout_seconds", 8, 3, 15),
     Yellow("fetch_total_timeout_seconds", 12, 5, 30),
     Yellow("fetch_max_redirects", 5, 0, 5),
     Yellow("fetch_max_body_bytes", 2097152, 262144, 2097152),
     Yellow("fetch_max_text_bytes", 262144, 65536, 262144),
     Yellow("max_discovery_requests", 8, 1, 8),
     Yellow("max_links", 200, 20, 200), Yellow("max_images", 100, 10, 100),
     Yellow("rag_chunk_size", 1200, 256, 4000),
     Yellow("rag_max_chunks", 50, 5, 50),
     Green("reading_words_per_minute", 200, 150, 300)}

Cache ==
    {Green("cache_status_ttl", 3600, 60, 86400),
     Green("cache_metadata_ttl", 21600, 60, 86400),
     Green("cache_text_ttl", 21600, 60, 86400),
     Green("cache_discovery_ttl", 21600, 60, 86400),
     Green("cache_security_ttl", 21600, 60, 86400),
     Green("negative_cache_ttl", 300, 0, 3600)}

Telegram ==
    {Switch("daily_report_enabled"), Green("report_hour", 9, 0, 23),
     Switch("payment_success_alerts"), Switch("critical_alerts"),
     Switch("recovery_alerts"), Green("payments_page_size", 5, 5, 20),
     Green("errors_page_size", 5, 5, 20), Switch("message_variation"),
     Green("anti_repeat_depth", 3, 1, 5)}

Monitor ==
    {Red("monitor_failure_threshold", 3, 3, 5),
     Red("monitor_alert_cooldown", 15, 5, 60)}

Visibility ==
    {Green("catalog_check_interval_hours", 6, 1, 24),
     Switch("registry_check_enabled"), Switch("payai_check_enabled")}

System ==
    {Fixed("network"), Fixed("facilitator"), Fixed("seller"),
     Fixed("ssrf_protection"), Fixed("payment_verification"),
     Fixed("automatic_rollback")}

SETTINGS ==
    Economy \cup Limits \cup Fetch \cup Cache \cup Telegram \cup Monitor
      \cup Visibility \cup System

SettingKeys == {row.key : row \in SETTINGS}
Setting(key) == CHOOSE row \in SETTINGS : row.key = key

InBounds(key, value) == value >= Setting(key).minimum /\ value <= Setting(key).maximum

Preset(paid, domain, timeout) ==
    [global_paid_concurrency |-> paid, per_domain_concurrency |-> domain,
     fetch_total_timeout_seconds |-> timeout, critical_alerts |-> 1]
PRESETS ==
    [safe |-> Preset(4, 1, 12), balanced |-> Preset(8, 2, 15), growth |-> Preset(16, 4, 20)]
=============================================================================
