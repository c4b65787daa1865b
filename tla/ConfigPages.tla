----------------------------- MODULE ConfigPages -----------------------------
(***************************************************************************)
(* The requests that change the configuration: what each page commits, and *)
(* which writers it runs, in which order.  Read-only handlers change no    *)
(* state and have no action.                                               *)
(***************************************************************************)
EXTENDS ConfigApply

\* Firewall pages.  They only commit; "Apply changes" comes later.
AliasPages(w) == Save(w, {"firewall_aliases"})
NatPfPages(w) == Save(w, {"nat_pf"})
Nat1to1Pages(w) == Save(w, {"nat_1to1"})
NatOutboundPages(w) == Save(w, {"nat_outbound"})
NatNptPages(w) == Save(w, {"nat_npt"})
FloatingRulePages(w) == Save(w, {"firewall_rules_floating"})
WanRulePages(w) == Save(w, {"firewall_rules_wan"})
LanRulePages(w) == Save(w, {"firewall_rules_lan"})
ReorderRules(w) ==
    \E t \in {"firewall_rules_floating", "firewall_rules_wan",
              "firewall_rules_lan"} : Save(w, {t})
SchedulePages(w) ==
    Save(w, {"firewall_schedules", "firewall_schedule_ranges"})
TrafficShaperPages(w) == Save(w, {"traffic_shaper_configs", "traffic_shaper_queues"})
LimiterPages(w) == Save(w, {"limiters_configs"})
VirtualIpPages(w) ==
    SaveAndApply(w, "apply", {"virtual_ips_configs"}, <<Try("vips")>>)

FirewallApply(w) == Apply(w, "apply", <<Must("pf"), Try("unbound")>>)

FirewallApplyAll(w) ==
    Apply(w, "apply", <<Try("pf"), Try("unbound"), Gated("suricata")>>)

\* rollback_pf: the backup, if there is one, goes back and PF is loaded with it.
FirewallRollback(w) ==
    /\ Ask(w)
    /\ Moves(w, [IdleJob EXCEPT !.pc = "undo", !.todo = <<Try("pf")>>,
                                !.call = "rollback"])
    /\ Counted(w, 0)
    /\ UNCHANGED <<Disk, daemon, Database>>

FirewallNext(w) ==
    \/ AliasPages(w) \/ NatPfPages(w) \/ Nat1to1Pages(w) \/ NatOutboundPages(w)
    \/ NatNptPages(w) \/ FloatingRulePages(w) \/ WanRulePages(w)
    \/ LanRulePages(w) \/ ReorderRules(w) \/ SchedulePages(w)
    \/ TrafficShaperPages(w) \/ LimiterPages(w) \/ VirtualIpPages(w)
    \/ FirewallApply(w) \/ FirewallApplyAll(w) \/ FirewallRollback(w)

-----------------------------------------------------------------------------
\* Interface pages.
InterfaceGroupPages(w) == Save(w, {"interface_groups"})
InterfaceAssignmentPages(w) ==
    \E extra \in {{}, {"lan_config"}, {"wan_config"}} :
        Save(w, {"interface_assignments"} \cup extra)
WirelessPages(w) == Save(w, {"wireless_configs"})
VlanPages(w) == Save(w, {"vlan_configs"})
QinqPages(w) == Save(w, {"qinq_configs"})
PppPages(w) == Save(w, {"ppp_configs"})
GrePages(w) == Save(w, {"gre_configs"})
GifPages(w) == Save(w, {"gif_configs"})
BridgePages(w) == Save(w, {"bridge_configs"})
LaggPages(w) == Save(w, {"lagg_configs"})

\* apply_interface_config: LAN first, then WAN, each with a result of its own.
Interfaces == <<Try("lan"), Direct("wan"), Gated("pppoe")>>

\* PPPoE keeps a snapshot of the row to go back to.
SaveWanConfig(w) ==
    /\ Ask(w)
    /\ Commit(w, {"wan_config"})
    /\ Begin(w, "save_wan", <<Try("rcconf")>> \o Interfaces,
             IF "pppoe" \in on' THEN Len(saves) + 1 ELSE 0)
    /\ UNCHANGED <<Disk, daemon, seen, badge, setupDone, crashed>>

\* Mutant: nginx is regenerated although the address did not go live.
SaveLanConfigAnyway(w) ==
    SaveAndApply(w, "save_lan", {"lan_config"},
                 <<Try("rcconf")>> \o Interfaces \o <<Try("nginx")>>)

\* The management vhost follows the LAN address once the interfaces are up.
SaveLanConfig(w) ==
    SaveAndApply(w, "save_lan", {"lan_config"},
                 <<Try("rcconf")>> \o Interfaces \o <<IfLive("nginx")>>)

ApplyNetwork(w) == Apply(w, "apply", <<Try("rcconf")>> \o Interfaces)

InterfacesNext(w) ==
    \/ InterfaceGroupPages(w) \/ InterfaceAssignmentPages(w) \/ WirelessPages(w)
    \/ VlanPages(w) \/ QinqPages(w) \/ PppPages(w) \/ GrePages(w) \/ GifPages(w)
    \/ BridgePages(w) \/ LaggPages(w) \/ SaveWanConfig(w) \/ SaveLanConfig(w)
    \/ ApplyNetwork(w)

-----------------------------------------------------------------------------
\* The pages below also change one item of the live state by hand, outside the
\* writers and after or before the commit: best effort, and nothing on disk.
SaveHot(w, t, tables) ==
    /\ Ask(w)
    /\ saves' = Append(saves, Row(tables, "good"))
    /\ \/ /\ daemon[t] # Down
          /\ daemon' = [daemon EXCEPT ![t].of = @ \cup {Len(saves) + 1}]
       \/ UNCHANGED daemon
    /\ Moves(w, IdleJob)
    /\ Counted(w, 0)
    /\ UNCHANGED <<Disk, on, seen, badge, setupDone, crashed>>

\* Routing.  Editing or deleting a static route changes the kernel's too.
GatewayPages(w) == Save(w, {"gateways"})
GatewayApply(w) == Apply(w, "apply", <<Try("failover")>>)
StaticRouteEdit(w) == SaveHot(w, "routes", {"static_routes"})
StaticRouteDelete(w) == SaveHot(w, "routes", {"static_routes"})
GatewayGroupPages(w) == Save(w, {"gateway_groups"})
ApplyAllStaticRoutes(w) == Apply(w, "apply", <<Try("routes")>>)
GatewayFailoverApply(w) == Apply(w, "apply", <<Try("failover")>>)

\* Content filters.
ContentPolicyModeSet(w) == Save(w, {"ss.content_policy_settings"})
AddDnsFilterRule(w) == Save(w, {"filter_dns_rules"})
ToggleDnsFilterRule(w) == SaveHot(w, "unbound", {"filter_dns_rules"})
DnsFilterPages(w) == AddDnsFilterRule(w) \/ ToggleDnsFilterRule(w)
AddWebFilterRule(w) == Save(w, {"filter_web_rules"})
ToggleWebFilterRule(w) == SaveHot(w, "unbound", {"filter_web_rules"})
WebFilterPages(w) == AddWebFilterRule(w) \/ ToggleWebFilterRule(w)
AddAppFilterRule(w) == Save(w, {"filter_app_rules"})
DeleteAppFilterRule(w) == SaveHot(w, "unbound", {"filter_app_rules"})
AppFilterPages(w) == AddAppFilterRule(w) \/ DeleteAppFilterRule(w)
ImportFilterList(w) ==
    \E t \in {"filter_dns_rules", "filter_web_rules", "filter_app_rules"} :
        Save(w, {t})
DnsFilterApply(w) == Apply(w, "apply", <<Try("unbound"), Gated("captive")>>)
WebFilterApply(w) == Apply(w, "apply", <<Try("unbound"), Gated("captive")>>)
AppFilterApply(w) ==
    Apply(w, "apply", <<Try("unbound"), Try("pf"), Gated("captive")>>)

RoutingAndFiltersNext(w) ==
    \/ GatewayPages(w) \/ GatewayApply(w) \/ StaticRouteEdit(w)
    \/ StaticRouteDelete(w) \/ GatewayGroupPages(w)
    \/ ApplyAllStaticRoutes(w) \/ GatewayFailoverApply(w)
    \/ ContentPolicyModeSet(w) \/ DnsFilterPages(w) \/ WebFilterPages(w)
    \/ AppFilterPages(w) \/ ImportFilterList(w) \/ DnsFilterApply(w)
    \/ WebFilterApply(w) \/ AppFilterApply(w)

-----------------------------------------------------------------------------
\* Services.  The four small ones are applied by the page that saves them.
CaptiveSettingsPage(w) == Save(w, {"ss.captive_portal_settings"})
CaptiveApply(w) == Apply(w, "apply", <<Try("pf"), Try("captive")>>)
DhcpRelayPage(w) == Save(w, {"ss.dhcp_relay"})
DhcpServerPage(w) == Save(w, {"ss.dhcp_server_settings"})
DnsResolverPages(w) == Save(w, {"ss.resolver_overrides"})
DynamicDnsPages(w) == Save(w, {"ss.dynamic_dns_clients"})
SaveNtp(w) == SaveAndApply(w, "apply", {"ss.ntp_settings"}, <<Try("ntp")>>)
SaveSnmp(w) == SaveAndApply(w, "apply", {"ss.snmp_settings"}, <<Try("snmp")>>)
SaveUpnp(w) == SaveAndApply(w, "apply", {"ss.upnp_settings"}, <<Try("upnp")>>)
SaveIgmp(w) == SaveAndApply(w, "apply", {"ss.igmp_settings"}, <<Try("igmp")>>)
SaveDhcpv6(w) == Save(w, {"dhcpv6_pools"})
SaveRa(w) == Save(w, {"ra_settings"})
ApplyDhcpv6AndRa(w) == Apply(w, "apply", <<Gated("dhcpv6"), Try("rtadvd")>>)
ServiceApplies(w) ==
    \E t \in {"ntp", "dhcpv6", "rtadvd", "ddns", "snmp", "upnp", "igmp"} :
        Apply(w, "apply", <<Try(t)>>)
PppoeApply(w) == Apply(w, "apply", <<Try("pppoe")>>)
PppoeDisconnect(w) ==
    /\ Ask(w)
    /\ daemon' = [daemon EXCEPT !["pppoe"] = Down]
    /\ Moves(w, IdleJob)
    /\ Counted(w, 0)
    /\ UNCHANGED <<Disk, Database>>

\* DHCP pools, static leases and tracked hosts.
UpdateDhcp(w) == Save(w, {"dhcp_pools"})
AutoConfigurePool(w) == Save(w, {"dhcp_pools", "tracked_hosts"})
StaticLeasePages(w) == Save(w, {"static_leases"})
ToggleHostFlags(w) == Save(w, {"tracked_hosts"})
ApplyVipsEndpoint(w) == Apply(w, "apply", <<Try("vips")>>)

ServicesNext(w) ==
    \/ CaptiveSettingsPage(w) \/ CaptiveApply(w) \/ DhcpRelayPage(w)
    \/ DhcpServerPage(w) \/ DnsResolverPages(w) \/ DynamicDnsPages(w)
    \/ SaveNtp(w) \/ SaveSnmp(w) \/ SaveUpnp(w) \/ SaveIgmp(w) \/ SaveDhcpv6(w)
    \/ SaveRa(w) \/ ApplyDhcpv6AndRa(w) \/ ServiceApplies(w) \/ PppoeApply(w)
    \/ PppoeDisconnect(w) \/ UpdateDhcp(w) \/ AutoConfigurePool(w)
    \/ StaticLeasePages(w) \/ ToggleHostFlags(w) \/ ApplyVipsEndpoint(w)

-----------------------------------------------------------------------------
\* VPN pages.
OpenvpnServerPages(w) == Save(w, {"openvpn_servers"})
OpenvpnClientPages(w) == Save(w, {"openvpn_clients"})
OpenvpnCsoPages(w) == Save(w, {"openvpn_cso"})
L2tpConfigPage(w) == Save(w, {"l2tp_config"})
L2tpUserPages(w) == Save(w, {"l2tp_users"})
OpenvpnWizardPages(w) == Save(w, {"openvpn_wizard_configs", "certificate_authorities"})
VpnPortalPages(w) == Save(w, {"vpn_portal_config", "vpn_portal_users"})
OpenvpnApply(w) == Apply(w, "apply", <<Try("openvpn")>>)
IpsecApply(w) == Apply(w, "apply", <<Try("ipsec")>>)
L2tpApply(w) == Apply(w, "apply", <<Try("l2tp")>>)
CreatePhase1(w) == Save(w, {"ipsec_phase1", "ipsec_phase1_algorithms"})
DeletePhase1(w) == Save(w, {"ipsec_phase1"})
Phase2Pages(w) == Save(w, {"ipsec_phase2"})
IpsecMobilePage(w) == Save(w, {"ipsec_mobile_clients_settings"})
IpsecPskPages(w) == Save(w, {"ipsec_pre_shared_keys"})
IpsecAdvancedPage(w) == Save(w, {"ipsec_advanced_settings"})
L2tpSettingsPage(w) == Save(w, {"l2tp_settings"})
CertificatePages(w) == Save(w, {"certificates"})

VpnNext(w) ==
    \/ OpenvpnServerPages(w) \/ OpenvpnClientPages(w) \/ OpenvpnCsoPages(w)
    \/ L2tpConfigPage(w) \/ L2tpUserPages(w) \/ OpenvpnWizardPages(w)
    \/ VpnPortalPages(w) \/ OpenvpnApply(w) \/ IpsecApply(w) \/ L2tpApply(w)
    \/ CreatePhase1(w) \/ DeletePhase1(w) \/ Phase2Pages(w)
    \/ IpsecMobilePage(w) \/ IpsecPskPages(w) \/ IpsecAdvancedPage(w)
    \/ L2tpSettingsPage(w) \/ CertificatePages(w)
=============================================================================
