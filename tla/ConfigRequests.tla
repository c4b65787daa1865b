--------------------------- MODULE ConfigRequests ---------------------------
(***************************************************************************)
(* The requests that run several writers: system settings, the SOC portal, *)
(* "reload everything" and the setup wizard, the assistant, and the        *)
(* background threads that re-apply configuration on their own.            *)
(***************************************************************************)
EXTENDS ConfigPages

\* System pages.
GeneralSetup(w) == Save(w, {"ss.general"})
AdminAccessPage(w) == Save(w, {"advanced_admin_access"})
AdvancedFirewallNatPage(w) == Save(w, {"advanced_firewall_nat"})
AdvancedNetworkPage(w) == Save(w, {"advanced_network"})
AdvancedMiscPage(w) == Save(w, {"advanced_miscellaneous"})
TunablePages(w) == Save(w, {"advanced_system_tunables"})
HighAvailabilityPage(w) == Save(w, {"ha_settings"})
SetupWizardTime(w) == Save(w, {"ss.ntp_settings"})

SystemPagesNext(w) ==
    \/ GeneralSetup(w) \/ AdminAccessPage(w) \/ AdvancedFirewallNatPage(w)
    \/ AdvancedNetworkPage(w) \/ AdvancedMiscPage(w) \/ TunablePages(w)
    \/ HighAvailabilityPage(w) \/ SetupWizardTime(w)

-----------------------------------------------------------------------------
\* write_soc_portal_nginx_config, disabled: the virtual IP row goes first.
SocPortalDisable(w) ==
    /\ Begin(w, "apply", <<Try("vips"), Try("socnginx"), Try("pf")>>, 0)
    /\ saves' = WithoutSocVip(Append(saves, Row({"soc_portal_config"}, "good")))
    /\ on' = on \ {"socnginx"}

\* Enabled: the row is recorded, then every step must succeed.
SocPortalEnable(w) ==
    /\ Begin(w, "soc_portal",
             <<Must("vips"), Must("pf"), Must("socnginx"), Must("nginx")>>,
             Len(saves) + 2)
    /\ saves' = Append(Append(saves, Row({"soc_portal_config"}, "good")), SocVip)
    /\ on' = on \cup {"socnginx"}

\* soc_portal_settings: an address outside the LAN is saved and not applied.
SocPortalSettings(w) ==
    /\ Ask(w)
    /\ \/ SocPortalDisable(w)
       \/ SocPortalEnable(w)
       \/ /\ saves' = Append(saves, Row({"soc_portal_config"}, "good"))
          /\ on' = on \cup {"socnginx"}
          /\ Moves(w, IdleJob)
    /\ Counted(w, 0)
    /\ UNCHANGED <<Disk, daemon, seen, badge, setupDone, crashed>>

-----------------------------------------------------------------------------

\* reload_all_services.
ReloadAllServices ==
    <<Try("pf"), Try("nginx"), Try("dhcpd"), Try("unbound"), Try("openvpn"),
      Try("ipsec"), Try("l2tp"), Gated("ntp"), Try("suricata"), Gated("ddns"),
      Gated("snmp"), Gated("upnp"), Gated("igmp"), Try("captive")>>

\* api_step1_save and api_step2_save.
SetupSteps(w) ==
    /\ ~setupDone
    /\ Save(w, {"interface_assignments", "lan_config", "wan_config"})

\* api_step4_apply.
SetupApply(w) ==
    /\ ~setupDone
    /\ Apply(w, "setup", <<Try("rcconf")>> \o Interfaces
                            \o ReloadAllServices \o <<Try("mrtg")>>)

\* The status page: filter reload, DHCP, DNS and MRTG.
FilterReload(w) == Apply(w, "apply", <<Try("pf")>>)
DhcpApply(w) == Apply(w, "apply", <<Try("dhcpd")>>)
DnsApply(w) == Apply(w, "apply", <<Try("unbound")>>)
MrtgApply(w) == Apply(w, "apply", <<Try("mrtg")>>)

-----------------------------------------------------------------------------
\* execute_approved_action: commit, record_apply_start, apply, record the result.
Assistant(w, t, table) ==
    /\ Ask(w)
    /\ Commit(w, {table})
    /\ badge' = [badge EXCEPT ![t] = "applying"]
    /\ Begin(w, "assistant", <<Try(t)>>, 0)
    /\ UNCHANGED <<Disk, daemon, seen, setupDone, crashed>>

ExecuteApprovedAction(w) ==
    \/ Assistant(w, "unbound", "filter_dns_rules")
    \/ Assistant(w, "pf", "firewall_rules_floating")

\* The resolver dies between two requests: what the watchdog is there for.
UnboundStops ==
    /\ daemon["unbound"] # Down
    /\ \A w \in Workers : Idle(w)
    /\ Event
    /\ daemon' = [daemon EXCEPT !["unbound"] = Down]
    /\ UNCHANGED <<Disk, Database, job, before, calls>>

\* Mutant: PF is reloaded before the resolver is back.
RecoverDnsServiceEarly(w) ==
    /\ ~UnboundLanReady
    /\ Apply(w, "recover_dns", <<Try("pf"), Must("unbound")>>)

\* recover_dns_service: the resolver first, and PF only once it is back; what the
\* reload of PF returned is not part of the result.
RecoverDnsService(w) ==
    /\ ~UnboundLanReady
    /\ Apply(w, "recover_dns", <<Must("unbound"), Try("pf")>>)

\* attempt_recovery, the DNS watchdog's tick: its cool-down and hourly cap only
\* put the recovery off.
AttemptRecovery(w) == RecoverDnsService(w)

\* Time passes: a schedule's window opens or closes.
WindowFlips ==
    /\ calls < MaxCalls
    /\ calls' = calls + 1
    /\ saves' = Append(saves, Window)
    /\ job' = [x \in Workers |-> [job[x] EXCEPT !.clean = FALSE]]
    /\ before' = [t \in Filed |-> Initial(t)]
    /\ UNCHANGED <<Disk, daemon, on, seen, badge, setupDone, crashed, events>>

\* _run_check: the first look only remembers; a later change reloads PF.
RunCheck(w) ==
    \/ /\ Idle(w)
       /\ seen = NoFile
       /\ seen' = Windows
       /\ UNCHANGED <<Disk, daemon, saves, on, badge, setupDone, crashed, job,
                      before, calls, events>>
    \/ /\ seen # NoFile /\ Windows # seen
       /\ \A x \in Workers : job[x].call # "schedule"
       /\ Idle(w)
       /\ Begin(w, "schedule", <<Try("pf")>>, 0)
       /\ Counted(w, 0)
       /\ UNCHANGED <<Disk, daemon, Database, calls>>

\* The elected worker restarts and forgets prev_states.
EnforcerRestart ==
    /\ seen # NoFile
    /\ Event
    /\ \A x \in Workers : job[x].call # "schedule"
    /\ seen' = NoFile
    /\ UNCHANGED <<Disk, daemon, saves, on, badge, setupDone, crashed, job,
                   before, calls>>

RequestsNext(w) ==
    \/ SystemPagesNext(w) \/ SocPortalSettings(w) \/ SetupSteps(w)
    \/ SetupApply(w) \/ FilterReload(w) \/ DhcpApply(w) \/ DnsApply(w)
    \/ MrtgApply(w) \/ ExecuteApprovedAction(w) \/ AttemptRecovery(w)
    \/ RunCheck(w)
=============================================================================
