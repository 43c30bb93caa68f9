-------------------------- MODULE MCSiteResources ---------------------------
(* The operations of one behaviour are those of one mix. *)
EXTENDS SiteResources

ResourceSymmetry == Permutations(Requests) \cup Permutations(Sites) \cup Permutations(Addresses)

MCMixes == {
    {"assign_proxies", "delete_site", "recycle", "fail"},
    {"assign_proxies", "unassign_proxies", "assign"},
    {"assign_proxies", "edit_site", "delete_site"},
    {"import_proxies", "edit_proxy", "delete_proxies", "check_proxies", "assign_proxies"},
    {"assign", "unassign", "set_health"},
    {"auto_assign", "delete_accounts", "delete_site", "recycle"},
    {"get_phone", "wait_sms", "confirm_sms", "remove_regs", "fetch", "restore"},
    {"create", "assign_outlook", "batch_outlook"},
    {"assign_outlook", "remove_regs", "fetch", "restore"},
    {"confirm_sms", "report_env", "assign_env", "set_status", "auto_assign"},
    {"fetch", "assign_env", "delete_site"}}
=============================================================================
