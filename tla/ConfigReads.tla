----------------------------- MODULE ConfigReads -----------------------------
(***************************************************************************)
(* What every generated configuration depends on.  A generator's text is a *)
(* function of the tables (and service_state keys, written "ss...") it     *)
(* reads, so a save makes a configuration out of date exactly when it      *)
(* writes one of them.                                                     *)
(***************************************************************************)

\* The sections of pf.conf.
PfAliasTables == {"firewall_aliases"}
PfNatRules == {"nat_pf", "nat_1to1", "nat_outbound", "nat_npt",
               "advanced_firewall_nat", "lan_config"}
PfFirewallRules == {"firewall_rules_floating", "firewall_rules_wan",
                    "firewall_rules_lan"}
PfScheduleFilter == {"firewall_schedules", "firewall_schedule_ranges"}
PfShaperQueues == {"traffic_shaper_configs", "traffic_shaper_queues"}
PfVirtualIpRules == {"virtual_ips_configs"}
PfDummynetPipes == {"limiters_configs"}
PfScrubRules == {"lan_config", "wan_config"}
PfHardeningRules == {"advanced_admin_access", "advanced_firewall_nat",
                     "lan_config", "soc_portal_config", "ss.app_filter_settings"}
PfPolicyRoutes == {"policy_routes", "gateways"}
PfAppFilterRules == {"filter_app_rules", "lan_config"}
PfDotBlocking == {"ss.content_policy_settings"}
PfVpnPassRules == {"openvpn_servers", "ipsec_phase1", "l2tp_config"}
PfSkeleton == {"wan_config", "lan_config", "advanced_firewall_nat",
               "l2tp_users", "ss.captive_portal_settings"}

PfReads ==
    UNION {PfAliasTables, PfNatRules, PfFirewallRules, PfScheduleFilter,
           PfShaperQueues, PfVirtualIpRules, PfDummynetPipes, PfScrubRules,
           PfHardeningRules, PfPolicyRoutes, PfAppFilterRules, PfDotBlocking,
           PfVpnPassRules, PfSkeleton}

\* unbound.conf: the resolver, and the zones of the three content filters,
\* merged by domain, with the exemption views of tracked hosts.
UnboundServer == {"ss.dns_resolver", "ss.siem_settings", "lan_config",
                  "tracked_hosts"}
DnsFilterZones == {"filter_dns_rules", "ss.content_policy_settings"}
WebFilterZones == {"filter_web_rules"}
AppFilterZones == {"filter_app_rules"}
PolicyZones == {"filter_dns_rules", "filter_web_rules", "filter_app_rules",
                "ss.content_policy_settings"}
PolicyExemptions == {"tracked_hosts"}

UnboundReads ==
    UNION {UnboundServer, DnsFilterZones, WebFilterZones, AppFilterZones,
           PolicyZones, PolicyExemptions}

\* Addressing and leases.
DhcpdReads == {"dhcp_pools", "static_leases", "lan_config", "wan_config"}
Dhcpv6Reads == {"dhcpv6_pools"}
RtadvdReads == {"ra_settings"}
RcConfReads == {"wan_config", "lan_config", "vlan_configs", "lagg_configs",
                "bridge_configs", "gre_configs", "dhcp_pools", "ids_config",
                "ipsec_phase1", "l2tp_config", "openvpn_servers",
                "ss.dns_resolver", "ss.ntp_settings"}
LanReads == {"lan_config"}
WanReads == {"wan_config"}
PppoeReads == {"wan_config"}
VipReads == {"virtual_ips_configs"}
StaticRouteReads == {"static_routes", "gateways"}
FailoverReads == {"gateway_groups", "gateways"}

\* VPNs.
OpenvpnServerConf == {"openvpn_servers", "certificates"}
OpenvpnClientConf == {"openvpn_clients"}
OpenvpnReads == OpenvpnServerConf \cup OpenvpnClientConf
IpsecConf == {"ipsec_phase1", "ipsec_phase2",
              "ipsec_phase1_algorithms"}
IpsecSecrets == {"ipsec_phase1", "ipsec_pre_shared_keys"}
IpsecReads == IpsecConf \cup IpsecSecrets
L2tpReads == {"l2tp_config", "l2tp_users"}

\* The web servers and the small services.
NginxReads == {"lan_config", "soc_portal_config"}
SocNginxReads == {"soc_portal_config", "certificates", "lan_config"}
CaptiveReads == {"ss.captive_portal_settings", "lan_config"}
NtpReads == {"ss.ntp_settings"}
SnmpReads == {"ss.snmp_settings"}
UpnpReads == {"ss.upnp_settings"}
IgmpReads == {"ss.igmp_settings"}
DdnsReads == {"ss.dynamic_dns_clients"}
MrtgReads == {"lan_config", "wan_config", "ss.snmp_settings"}
SuricataReads == {"ids_config", "ids_rulesets", "lan_config"}

Reads ==
    [pf |-> PfReads, unbound |-> UnboundReads, dhcpd |-> DhcpdReads,
     dhcpv6 |-> Dhcpv6Reads, rtadvd |-> RtadvdReads, rcconf |-> RcConfReads,
     lan |-> LanReads, wan |-> WanReads, pppoe |-> PppoeReads, vips |-> VipReads,
     routes |-> StaticRouteReads, failover |-> FailoverReads,
     openvpn |-> OpenvpnReads, ipsec |-> IpsecReads, l2tp |-> L2tpReads,
     nginx |-> NginxReads, socnginx |-> SocNginxReads,
     captive |-> CaptiveReads, ntp |-> NtpReads, snmp |-> SnmpReads,
     upnp |-> UpnpReads, igmp |-> IgmpReads, ddns |-> DdnsReads,
     mrtg |-> MrtgReads, suricata |-> SuricataReads]

Targets == DOMAIN Reads

\* The configurations a commit to these tables puts out of date.
Affected(tables) == {t \in Targets : Reads[t] \cap tables # {}}

\* The tables whose rows decide whether a service is on at all; the WAN is a
\* PPPoE link or an address.
SwitchTables ==
    [dhcpd |-> {"dhcp_pools"}, openvpn |-> {"openvpn_servers", "openvpn_clients"},
     pppoe |-> {"wan_config"}, ipsec |-> {"ipsec_phase1"}, l2tp |-> {"l2tp_config"},
     ntp |-> NtpReads, snmp |-> SnmpReads, upnp |-> UpnpReads,
     igmp |-> IgmpReads, ddns |-> DdnsReads, dhcpv6 |-> Dhcpv6Reads,
     socnginx |-> {"soc_portal_config"},
     captive |-> {"ss.captive_portal_settings"}, suricata |-> {"ids_config"}]

Switched == DOMAIN SwitchTables
=============================================================================
