--------------------------- MODULE ConfigFlowProofs ---------------------------
(***************************************************************************)
(* Proofs about the way from a saved form to a running service, for any    *)
(* number of workers and requests.                                         *)
(***************************************************************************)
EXTENDS ConfigFlow, SequenceTheorems, FiniteSetTheorems, TLAPS

\* The configurations, by name.
LEMMA TargetsAre ==
    Targets = {"pf", "unbound", "dhcpd", "dhcpv6", "rtadvd", "rcconf", "lan", "wan",
               "pppoe", "vips", "routes", "failover", "openvpn", "ipsec", "l2tp",
               "nginx", "socnginx", "captive", "ntp", "snmp", "upnp", "igmp", "ddns",
               "mrtg", "suricata"}
BY DEF Targets, Reads

\* The steps a writer has: its load, its undo, what it does when off, and whether
\* it has a check, a backup and a file.
Has(r, load, undo, off, check, backup, hasFile) ==
    /\ r.load = load /\ r.undo = undo /\ r.off = off
    /\ r.check = check /\ r.backup = backup /\ r.file = hasFile

\* The failure after which the new file stays, and whether backups are copies in
\* place and the text several files.
Also(r, keeps, inplace, several) ==
    r.keeps = keeps /\ r.inplace = inplace /\ r.several = several

\* The steps of every writer.
LEMMA HowIs ==
    /\ Has(How["pf"], "swap", "reload", "ignore", TRUE, TRUE, TRUE)
    /\ Has(How["unbound"], "reload", "reload", "ignore", TRUE, TRUE, TRUE)
    /\ Has(How["dhcpd"], "restart", "reload", "stop", TRUE, TRUE, TRUE)
    /\ Has(How["dhcpv6"], "restart", "file", "ignore", TRUE, TRUE, TRUE)
    /\ Has(How["rtadvd"], "restart", "file", "ignore", TRUE, TRUE, TRUE)
    /\ Has(How["rcconf"], "none", "none", "ignore", TRUE, TRUE, TRUE)
    /\ Has(How["lan"], "address", "none", "ignore", FALSE, FALSE, FALSE)
    /\ Has(How["wan"], "address", "none", "ignore", FALSE, FALSE, FALSE)
    /\ Has(How["pppoe"], "restart", "none", "ignore", FALSE, FALSE, TRUE)
    /\ Has(How["vips"], "add", "none", "ignore", FALSE, FALSE, FALSE)
    /\ Has(How["routes"], "add", "none", "ignore", FALSE, FALSE, FALSE)
    /\ Has(How["failover"], "reload", "none", "ignore", FALSE, FALSE, FALSE)
    /\ Has(How["openvpn"], "restart", "file", "stop", TRUE, TRUE, TRUE)
    /\ Has(How["ipsec"], "restart", "file", "stop", TRUE, TRUE, TRUE)
    /\ Has(How["l2tp"], "restart", "file", "stop", TRUE, TRUE, TRUE)
    /\ Has(How["nginx"], "swap", "none", "ignore", TRUE, TRUE, TRUE)
    /\ Has(How["socnginx"], "none", "none", "ignore", TRUE, FALSE, TRUE)
    /\ Has(How["captive"], "probe", "none", "ignore", TRUE, FALSE, FALSE)
    /\ Has(How["ntp"], "restart", "file", "stop_after", TRUE, TRUE, TRUE)
    /\ Has(How["snmp"], "restart", "file", "stop_after", TRUE, TRUE, TRUE)
    /\ Has(How["upnp"], "restart", "file", "stop_after", TRUE, TRUE, TRUE)
    /\ Has(How["igmp"], "restart", "file", "stop_after", TRUE, TRUE, TRUE)
    /\ Has(How["ddns"], "restart", "file", "ignore", TRUE, TRUE, TRUE)
    /\ Has(How["mrtg"], "restart", "file", "ignore", FALSE, TRUE, TRUE)
    /\ Has(How["suricata"], "none", "none", "ignore", TRUE, TRUE, TRUE)
<1>1. Has(How["pf"], "swap", "reload", "ignore", TRUE, TRUE, TRUE)
  <2>1. How["pf"] = ApplyPf
    BY DEF How
  <2>2. Has(ApplyPf, "swap", "reload", "ignore", TRUE, TRUE, TRUE)
    BY DEF Has, ApplyPf, Writer, LiveWriter, VpnWriter
  <2>3. QED
    BY <2>1, <2>2
<1>2. Has(How["unbound"], "reload", "reload", "ignore", TRUE, TRUE, TRUE)
  <2>1. How["unbound"] = ApplyUnbound
    BY DEF How
  <2>2. Has(ApplyUnbound, "reload", "reload", "ignore", TRUE, TRUE, TRUE)
    BY DEF Has, ApplyUnbound, Writer, LiveWriter, VpnWriter
  <2>3. QED
    BY <2>1, <2>2
<1>3. Has(How["dhcpd"], "restart", "reload", "stop", TRUE, TRUE, TRUE)
  <2>1. How["dhcpd"] = ApplyDhcpd
    BY DEF How
  <2>2. Has(ApplyDhcpd, "restart", "reload", "stop", TRUE, TRUE, TRUE)
    BY DEF Has, ApplyDhcpd, Writer, LiveWriter, VpnWriter
  <2>3. QED
    BY <2>1, <2>2
<1>4. Has(How["dhcpv6"], "restart", "file", "ignore", TRUE, TRUE, TRUE)
  <2>1. How["dhcpv6"] = ApplyDhcpv6
    BY DEF How
  <2>2. Has(ApplyDhcpv6, "restart", "file", "ignore", TRUE, TRUE, TRUE)
    BY DEF Has, ApplyDhcpv6, Writer, LiveWriter, VpnWriter
  <2>3. QED
    BY <2>1, <2>2
<1>5. Has(How["rtadvd"], "restart", "file", "ignore", TRUE, TRUE, TRUE)
  <2>1. How["rtadvd"] = ApplyRtadvd
    BY DEF How
  <2>2. Has(ApplyRtadvd, "restart", "file", "ignore", TRUE, TRUE, TRUE)
    BY DEF Has, ApplyRtadvd, Writer, LiveWriter, VpnWriter
  <2>3. QED
    BY <2>1, <2>2
<1>6. Has(How["rcconf"], "none", "none", "ignore", TRUE, TRUE, TRUE)
  <2>1. How["rcconf"] = ApplyRcConf
    BY DEF How
  <2>2. Has(ApplyRcConf, "none", "none", "ignore", TRUE, TRUE, TRUE)
    BY DEF Has, ApplyRcConf, Writer, LiveWriter, VpnWriter
  <2>3. QED
    BY <2>1, <2>2
<1>7. Has(How["lan"], "address", "none", "ignore", FALSE, FALSE, FALSE)
  <2>1. How["lan"] = ApplyLan
    BY DEF How
  <2>2. Has(ApplyLan, "address", "none", "ignore", FALSE, FALSE, FALSE)
    BY DEF Has, ApplyLan, Writer, LiveWriter, VpnWriter
  <2>3. QED
    BY <2>1, <2>2
<1>8. Has(How["wan"], "address", "none", "ignore", FALSE, FALSE, FALSE)
  <2>1. How["wan"] = ApplyWan
    BY DEF How
  <2>2. Has(ApplyWan, "address", "none", "ignore", FALSE, FALSE, FALSE)
    BY DEF Has, ApplyWan, Writer, LiveWriter, VpnWriter
  <2>3. QED
    BY <2>1, <2>2
<1>9. Has(How["pppoe"], "restart", "none", "ignore", FALSE, FALSE, TRUE)
  <2>1. How["pppoe"] = ApplyPppoe
    BY DEF How
  <2>2. Has(ApplyPppoe, "restart", "none", "ignore", FALSE, FALSE, TRUE)
    BY DEF Has, ApplyPppoe, Writer, LiveWriter, VpnWriter
  <2>3. QED
    BY <2>1, <2>2
<1>10. Has(How["vips"], "add", "none", "ignore", FALSE, FALSE, FALSE)
  <2>1. How["vips"] = ApplyVips
    BY DEF How
  <2>2. Has(ApplyVips, "add", "none", "ignore", FALSE, FALSE, FALSE)
    BY DEF Has, ApplyVips, Writer, LiveWriter, VpnWriter
  <2>3. QED
    BY <2>1, <2>2
<1>11. Has(How["routes"], "add", "none", "ignore", FALSE, FALSE, FALSE)
  <2>1. How["routes"] = ApplyStaticRoutes
    BY DEF How
  <2>2. Has(ApplyStaticRoutes, "add", "none", "ignore", FALSE, FALSE, FALSE)
    BY DEF Has, ApplyStaticRoutes, Writer, LiveWriter, VpnWriter
  <2>3. QED
    BY <2>1, <2>2
<1>12. Has(How["failover"], "reload", "none", "ignore", FALSE, FALSE, FALSE)
  <2>1. How["failover"] = ApplyFailover
    BY DEF How
  <2>2. Has(ApplyFailover, "reload", "none", "ignore", FALSE, FALSE, FALSE)
    BY DEF Has, ApplyFailover, Writer, LiveWriter, VpnWriter
  <2>3. QED
    BY <2>1, <2>2
<1>13. Has(How["openvpn"], "restart", "file", "stop", TRUE, TRUE, TRUE)
  <2>1. How["openvpn"] = ApplyOpenvpn
    BY DEF How
  <2>2. Has(ApplyOpenvpn, "restart", "file", "stop", TRUE, TRUE, TRUE)
    BY DEF Has, ApplyOpenvpn, Writer, LiveWriter, VpnWriter
  <2>3. QED
    BY <2>1, <2>2
<1>14. Has(How["ipsec"], "restart", "file", "stop", TRUE, TRUE, TRUE)
  <2>1. How["ipsec"] = ApplyIpsec
    BY DEF How
  <2>2. Has(ApplyIpsec, "restart", "file", "stop", TRUE, TRUE, TRUE)
    BY DEF Has, ApplyIpsec, Writer, LiveWriter, VpnWriter
  <2>3. QED
    BY <2>1, <2>2
<1>15. Has(How["l2tp"], "restart", "file", "stop", TRUE, TRUE, TRUE)
  <2>1. How["l2tp"] = ApplyL2tp
    BY DEF How
  <2>2. Has(ApplyL2tp, "restart", "file", "stop", TRUE, TRUE, TRUE)
    BY DEF Has, ApplyL2tp, Writer, LiveWriter, VpnWriter
  <2>3. QED
    BY <2>1, <2>2
<1>16. Has(How["nginx"], "swap", "none", "ignore", TRUE, TRUE, TRUE)
  <2>1. How["nginx"] = ApplyNginx
    BY DEF How
  <2>2. Has(ApplyNginx, "swap", "none", "ignore", TRUE, TRUE, TRUE)
    BY DEF Has, ApplyNginx, Writer, LiveWriter, VpnWriter
  <2>3. QED
    BY <2>1, <2>2
<1>17. Has(How["socnginx"], "none", "none", "ignore", TRUE, FALSE, TRUE)
  <2>1. How["socnginx"] = WriteSocNginx
    BY DEF How
  <2>2. Has(WriteSocNginx, "none", "none", "ignore", TRUE, FALSE, TRUE)
    BY DEF Has, WriteSocNginx, Writer, LiveWriter, VpnWriter
  <2>3. QED
    BY <2>1, <2>2
<1>18. Has(How["captive"], "probe", "none", "ignore", TRUE, FALSE, FALSE)
  <2>1. How["captive"] = ApplyCaptive
    BY DEF How
  <2>2. Has(ApplyCaptive, "probe", "none", "ignore", TRUE, FALSE, FALSE)
    BY DEF Has, ApplyCaptive, Writer, LiveWriter, VpnWriter
  <2>3. QED
    BY <2>1, <2>2
<1>19. Has(How["ntp"], "restart", "file", "stop_after", TRUE, TRUE, TRUE)
  <2>1. How["ntp"] = ApplyNtp
    BY DEF How
  <2>2. Has(ApplyNtp, "restart", "file", "stop_after", TRUE, TRUE, TRUE)
    BY DEF Has, ApplyNtp, Writer, LiveWriter, VpnWriter
  <2>3. QED
    BY <2>1, <2>2
<1>20. Has(How["snmp"], "restart", "file", "stop_after", TRUE, TRUE, TRUE)
  <2>1. How["snmp"] = ApplySnmp
    BY DEF How
  <2>2. Has(ApplySnmp, "restart", "file", "stop_after", TRUE, TRUE, TRUE)
    BY DEF Has, ApplySnmp, Writer, LiveWriter, VpnWriter
  <2>3. QED
    BY <2>1, <2>2
<1>21. Has(How["upnp"], "restart", "file", "stop_after", TRUE, TRUE, TRUE)
  <2>1. How["upnp"] = ApplyUpnp
    BY DEF How
  <2>2. Has(ApplyUpnp, "restart", "file", "stop_after", TRUE, TRUE, TRUE)
    BY DEF Has, ApplyUpnp, Writer, LiveWriter, VpnWriter
  <2>3. QED
    BY <2>1, <2>2
<1>22. Has(How["igmp"], "restart", "file", "stop_after", TRUE, TRUE, TRUE)
  <2>1. How["igmp"] = ApplyIgmp
    BY DEF How
  <2>2. Has(ApplyIgmp, "restart", "file", "stop_after", TRUE, TRUE, TRUE)
    BY DEF Has, ApplyIgmp, Writer, LiveWriter, VpnWriter
  <2>3. QED
    BY <2>1, <2>2
<1>23. Has(How["ddns"], "restart", "file", "ignore", TRUE, TRUE, TRUE)
  <2>1. How["ddns"] = ApplyDdns
    BY DEF How
  <2>2. Has(ApplyDdns, "restart", "file", "ignore", TRUE, TRUE, TRUE)
    BY DEF Has, ApplyDdns, Writer, LiveWriter, VpnWriter
  <2>3. QED
    BY <2>1, <2>2
<1>24. Has(How["mrtg"], "restart", "file", "ignore", FALSE, TRUE, TRUE)
  <2>1. How["mrtg"] = ApplyMrtg
    BY DEF How
  <2>2. Has(ApplyMrtg, "restart", "file", "ignore", FALSE, TRUE, TRUE)
    BY DEF Has, ApplyMrtg, Writer, LiveWriter, VpnWriter
  <2>3. QED
    BY <2>1, <2>2
<1>25. Has(How["suricata"], "none", "none", "ignore", TRUE, TRUE, TRUE)
  <2>1. How["suricata"] = WriteSuricata
    BY DEF How
  <2>2. Has(WriteSuricata, "none", "none", "ignore", TRUE, TRUE, TRUE)
    BY DEF Has, WriteSuricata, Writer, LiveWriter, VpnWriter
  <2>3. QED
    BY <2>1, <2>2
<1>26. QED
  BY <1>1, <1>2, <1>3, <1>4, <1>5, <1>6, <1>7, <1>8, <1>9, <1>10, <1>11, <1>12, <1>13,
     <1>14, <1>15, <1>16, <1>17, <1>18, <1>19, <1>20, <1>21, <1>22, <1>23, <1>24, <1>25

\* What else sets them apart.
LEMMA HowAlso ==
    /\ Also(How["pf"], "exception", TRUE, FALSE)
    /\ Also(How["unbound"], "stopped", TRUE, FALSE)
    /\ Also(How["dhcpd"], "none", FALSE, FALSE)
    /\ Also(How["dhcpv6"], "routes", TRUE, FALSE)
    /\ Also(How["rtadvd"], "none", TRUE, FALSE)
    /\ Also(How["rcconf"], "none", TRUE, FALSE)
    /\ Also(How["lan"], "none", FALSE, FALSE)
    /\ Also(How["wan"], "none", FALSE, FALSE)
    /\ Also(How["pppoe"], "none", TRUE, FALSE)
    /\ Also(How["vips"], "none", FALSE, FALSE)
    /\ Also(How["routes"], "none", FALSE, FALSE)
    /\ Also(How["failover"], "none", FALSE, FALSE)
    /\ Also(How["openvpn"], "exception", TRUE, TRUE)
    /\ Also(How["ipsec"], "exception", TRUE, TRUE)
    /\ Also(How["l2tp"], "exception", TRUE, TRUE)
    /\ Also(How["nginx"], "none", TRUE, FALSE)
    /\ Also(How["socnginx"], "none", TRUE, FALSE)
    /\ Also(How["captive"], "none", FALSE, FALSE)
    /\ Also(How["ntp"], "none", TRUE, FALSE)
    /\ Also(How["snmp"], "none", TRUE, FALSE)
    /\ Also(How["upnp"], "none", TRUE, FALSE)
    /\ Also(How["igmp"], "none", TRUE, FALSE)
    /\ Also(How["ddns"], "none", TRUE, FALSE)
    /\ Also(How["mrtg"], "none", TRUE, FALSE)
    /\ Also(How["suricata"], "none", TRUE, FALSE)
<1>1. Also(How["pf"], "exception", TRUE, FALSE)
  <2>1. How["pf"] = ApplyPf
    BY DEF How
  <2>2. Also(ApplyPf, "exception", TRUE, FALSE)
    BY DEF Also, ApplyPf, Writer, LiveWriter, VpnWriter
  <2>3. QED
    BY <2>1, <2>2
<1>2. Also(How["unbound"], "stopped", TRUE, FALSE)
  <2>1. How["unbound"] = ApplyUnbound
    BY DEF How
  <2>2. Also(ApplyUnbound, "stopped", TRUE, FALSE)
    BY DEF Also, ApplyUnbound, Writer, LiveWriter, VpnWriter
  <2>3. QED
    BY <2>1, <2>2
<1>3. Also(How["dhcpd"], "none", FALSE, FALSE)
  <2>1. How["dhcpd"] = ApplyDhcpd
    BY DEF How
  <2>2. Also(ApplyDhcpd, "none", FALSE, FALSE)
    BY DEF Also, ApplyDhcpd, Writer, LiveWriter, VpnWriter
  <2>3. QED
    BY <2>1, <2>2
<1>4. Also(How["dhcpv6"], "routes", TRUE, FALSE)
  <2>1. How["dhcpv6"] = ApplyDhcpv6
    BY DEF How
  <2>2. Also(ApplyDhcpv6, "routes", TRUE, FALSE)
    BY DEF Also, ApplyDhcpv6, Writer, LiveWriter, VpnWriter
  <2>3. QED
    BY <2>1, <2>2
<1>5. Also(How["rtadvd"], "none", TRUE, FALSE)
  <2>1. How["rtadvd"] = ApplyRtadvd
    BY DEF How
  <2>2. Also(ApplyRtadvd, "none", TRUE, FALSE)
    BY DEF Also, ApplyRtadvd, Writer, LiveWriter, VpnWriter
  <2>3. QED
    BY <2>1, <2>2
<1>6. Also(How["rcconf"], "none", TRUE, FALSE)
  <2>1. How["rcconf"] = ApplyRcConf
    BY DEF How
  <2>2. Also(ApplyRcConf, "none", TRUE, FALSE)
    BY DEF Also, ApplyRcConf, Writer, LiveWriter, VpnWriter
  <2>3. QED
    BY <2>1, <2>2
<1>7. Also(How["lan"], "none", FALSE, FALSE)
  <2>1. How["lan"] = ApplyLan
    BY DEF How
  <2>2. Also(ApplyLan, "none", FALSE, FALSE)
    BY DEF Also, ApplyLan, Writer, LiveWriter, VpnWriter
  <2>3. QED
    BY <2>1, <2>2
<1>8. Also(How["wan"], "none", FALSE, FALSE)
  <2>1. How["wan"] = ApplyWan
    BY DEF How
  <2>2. Also(ApplyWan, "none", FALSE, FALSE)
    BY DEF Also, ApplyWan, Writer, LiveWriter, VpnWriter
  <2>3. QED
    BY <2>1, <2>2
<1>9. Also(How["pppoe"], "none", TRUE, FALSE)
  <2>1. How["pppoe"] = ApplyPppoe
    BY DEF How
  <2>2. Also(ApplyPppoe, "none", TRUE, FALSE)
    BY DEF Also, ApplyPppoe, Writer, LiveWriter, VpnWriter
  <2>3. QED
    BY <2>1, <2>2
<1>10. Also(How["vips"], "none", FALSE, FALSE)
  <2>1. How["vips"] = ApplyVips
    BY DEF How
  <2>2. Also(ApplyVips, "none", FALSE, FALSE)
    BY DEF Also, ApplyVips, Writer, LiveWriter, VpnWriter
  <2>3. QED
    BY <2>1, <2>2
<1>11. Also(How["routes"], "none", FALSE, FALSE)
  <2>1. How["routes"] = ApplyStaticRoutes
    BY DEF How
  <2>2. Also(ApplyStaticRoutes, "none", FALSE, FALSE)
    BY DEF Also, ApplyStaticRoutes, Writer, LiveWriter, VpnWriter
  <2>3. QED
    BY <2>1, <2>2
<1>12. Also(How["failover"], "none", FALSE, FALSE)
  <2>1. How["failover"] = ApplyFailover
    BY DEF How
  <2>2. Also(ApplyFailover, "none", FALSE, FALSE)
    BY DEF Also, ApplyFailover, Writer, LiveWriter, VpnWriter
  <2>3. QED
    BY <2>1, <2>2
<1>13. Also(How["openvpn"], "exception", TRUE, TRUE)
  <2>1. How["openvpn"] = ApplyOpenvpn
    BY DEF How
  <2>2. Also(ApplyOpenvpn, "exception", TRUE, TRUE)
    BY DEF Also, ApplyOpenvpn, Writer, LiveWriter, VpnWriter
  <2>3. QED
    BY <2>1, <2>2
<1>14. Also(How["ipsec"], "exception", TRUE, TRUE)
  <2>1. How["ipsec"] = ApplyIpsec
    BY DEF How
  <2>2. Also(ApplyIpsec, "exception", TRUE, TRUE)
    BY DEF Also, ApplyIpsec, Writer, LiveWriter, VpnWriter
  <2>3. QED
    BY <2>1, <2>2
<1>15. Also(How["l2tp"], "exception", TRUE, TRUE)
  <2>1. How["l2tp"] = ApplyL2tp
    BY DEF How
  <2>2. Also(ApplyL2tp, "exception", TRUE, TRUE)
    BY DEF Also, ApplyL2tp, Writer, LiveWriter, VpnWriter
  <2>3. QED
    BY <2>1, <2>2
<1>16. Also(How["nginx"], "none", TRUE, FALSE)
  <2>1. How["nginx"] = ApplyNginx
    BY DEF How
  <2>2. Also(ApplyNginx, "none", TRUE, FALSE)
    BY DEF Also, ApplyNginx, Writer, LiveWriter, VpnWriter
  <2>3. QED
    BY <2>1, <2>2
<1>17. Also(How["socnginx"], "none", TRUE, FALSE)
  <2>1. How["socnginx"] = WriteSocNginx
    BY DEF How
  <2>2. Also(WriteSocNginx, "none", TRUE, FALSE)
    BY DEF Also, WriteSocNginx, Writer, LiveWriter, VpnWriter
  <2>3. QED
    BY <2>1, <2>2
<1>18. Also(How["captive"], "none", FALSE, FALSE)
  <2>1. How["captive"] = ApplyCaptive
    BY DEF How
  <2>2. Also(ApplyCaptive, "none", FALSE, FALSE)
    BY DEF Also, ApplyCaptive, Writer, LiveWriter, VpnWriter
  <2>3. QED
    BY <2>1, <2>2
<1>19. Also(How["ntp"], "none", TRUE, FALSE)
  <2>1. How["ntp"] = ApplyNtp
    BY DEF How
  <2>2. Also(ApplyNtp, "none", TRUE, FALSE)
    BY DEF Also, ApplyNtp, Writer, LiveWriter, VpnWriter
  <2>3. QED
    BY <2>1, <2>2
<1>20. Also(How["snmp"], "none", TRUE, FALSE)
  <2>1. How["snmp"] = ApplySnmp
    BY DEF How
  <2>2. Also(ApplySnmp, "none", TRUE, FALSE)
    BY DEF Also, ApplySnmp, Writer, LiveWriter, VpnWriter
  <2>3. QED
    BY <2>1, <2>2
<1>21. Also(How["upnp"], "none", TRUE, FALSE)
  <2>1. How["upnp"] = ApplyUpnp
    BY DEF How
  <2>2. Also(ApplyUpnp, "none", TRUE, FALSE)
    BY DEF Also, ApplyUpnp, Writer, LiveWriter, VpnWriter
  <2>3. QED
    BY <2>1, <2>2
<1>22. Also(How["igmp"], "none", TRUE, FALSE)
  <2>1. How["igmp"] = ApplyIgmp
    BY DEF How
  <2>2. Also(ApplyIgmp, "none", TRUE, FALSE)
    BY DEF Also, ApplyIgmp, Writer, LiveWriter, VpnWriter
  <2>3. QED
    BY <2>1, <2>2
<1>23. Also(How["ddns"], "none", TRUE, FALSE)
  <2>1. How["ddns"] = ApplyDdns
    BY DEF How
  <2>2. Also(ApplyDdns, "none", TRUE, FALSE)
    BY DEF Also, ApplyDdns, Writer, LiveWriter, VpnWriter
  <2>3. QED
    BY <2>1, <2>2
<1>24. Also(How["mrtg"], "none", TRUE, FALSE)
  <2>1. How["mrtg"] = ApplyMrtg
    BY DEF How
  <2>2. Also(ApplyMrtg, "none", TRUE, FALSE)
    BY DEF Also, ApplyMrtg, Writer, LiveWriter, VpnWriter
  <2>3. QED
    BY <2>1, <2>2
<1>25. Also(How["suricata"], "none", TRUE, FALSE)
  <2>1. How["suricata"] = WriteSuricata
    BY DEF How
  <2>2. Also(WriteSuricata, "none", TRUE, FALSE)
    BY DEF Also, WriteSuricata, Writer, LiveWriter, VpnWriter
  <2>3. QED
    BY <2>1, <2>2
<1>26. QED
  BY <1>1, <1>2, <1>3, <1>4, <1>5, <1>6, <1>7, <1>8, <1>9, <1>10, <1>11, <1>12, <1>13,
     <1>14, <1>15, <1>16, <1>17, <1>18, <1>19, <1>20, <1>21, <1>22, <1>23, <1>24, <1>25

\* What the writers have in common.
LEMMA WriterFields ==
  ASSUME NEW t \in Targets
  PROVE  /\ How[t].undo # "none" => How[t].file = TRUE /\ How[t].backup = TRUE
         /\ How[t].keeps # "none" => How[t].undo # "none"
         /\ How[t].several => How[t].undo # "none"
         /\ How[t].load = "address" => t \in {"lan", "wan"} /\ How[t].file = FALSE
         /\ How[t].load = "none" => How[t].file = TRUE
         /\ How[t].check \in BOOLEAN /\ How[t].backup \in BOOLEAN
         /\ How[t].file \in BOOLEAN /\ How[t].inplace \in BOOLEAN
         /\ How[t].several \in BOOLEAN
<1>1. How[t].undo # "none" => How[t].file = TRUE /\ How[t].backup = TRUE
  BY TargetsAre, HowIs DEF Has
<1>2. How[t].load = "none" => How[t].file = TRUE
  BY TargetsAre, HowIs DEF Has
<1>3. How[t].check = TRUE \/ How[t].check = FALSE
  BY TargetsAre, HowIs DEF Has
<1>4. How[t].backup = TRUE \/ How[t].backup = FALSE
  BY TargetsAre, HowIs DEF Has
<1>5. How[t].file = TRUE \/ How[t].file = FALSE
  BY TargetsAre, HowIs DEF Has
<1>13. \A x \in {"pf", "unbound", "dhcpv6", "openvpn", "ipsec", "l2tp"} : How[x].undo # "none"
  BY HowIs DEF Has
<1>6. How[t].keeps # "none" => How[t].undo # "none"
  <2>1. How[t].keeps # "none"
          => t \in {"pf", "unbound", "dhcpv6", "openvpn", "ipsec", "l2tp"}
    BY TargetsAre, HowAlso, SMTT(60) DEF Also
  <2>2. QED
    BY <1>13, <2>1
<1>7. How[t].several = TRUE \/ How[t].several = FALSE
  BY TargetsAre, HowAlso DEF Also
<1>8. How[t].several = TRUE => How[t].undo # "none"
  <2>1. How[t].several = TRUE => t \in {"openvpn", "ipsec", "l2tp"}
    BY TargetsAre, HowAlso, SMTT(60) DEF Also
  <2>2. QED
    BY <1>13, <2>1
<1>9. How[t].inplace = TRUE \/ How[t].inplace = FALSE
  BY TargetsAre, HowAlso DEF Also
<1>10. How[t].load = "address" => t \in {"lan", "wan"} /\ How[t].file = FALSE
  BY TargetsAre, HowIs DEF Has
<1>11. How[t].several => How[t].undo # "none"
  BY <1>7, <1>8, Zenon
<1>12. QED
  BY <1>1, <1>2, <1>3, <1>4, <1>5, <1>6, <1>7, <1>9, <1>10, <1>11

\* The writers with a file, and those with a check, in the form the provers take.
LEMMA FiledIs ==
    /\ \A t \in Targets : t \in Filed <=> How[t].file = TRUE
    /\ \A t \in Targets : t \in Checked <=> t \in Filed /\ How[t].check = TRUE
    /\ Filed \subseteq Targets /\ Checked \subseteq Filed
    /\ "ipsec" \in Checked /\ "pf" \in Checked /\ "nginx" \in Checked
<1>1. \A t \in Targets : How[t].file <=> How[t].file = TRUE
  BY WriterFields, Zenon
<1>2. \A t \in Targets : How[t].check <=> How[t].check = TRUE
  BY WriterFields, Zenon
<1>3. \A t \in Targets : t \in Filed <=> How[t].file = TRUE
  BY <1>1, Zenon DEF Filed
<1>4. Filed \subseteq Targets /\ Checked \subseteq Filed
  BY DEF Filed, Checked
<1>5. \A t \in Targets : t \in Checked <=> t \in Filed /\ How[t].check = TRUE
  BY <1>2, <1>4, Zenon DEF Checked
<1>6. {"ipsec", "pf", "nginx"} \subseteq Targets
  BY TargetsAre
<1>7. "ipsec" \in Checked /\ "pf" \in Checked /\ "nginx" \in Checked
  BY <1>3, <1>5, <1>6, HowIs DEF Has
<1>8. QED
  BY <1>3, <1>4, <1>5, <1>7

\* A text that passes the checks of a writer that has them is not a refused one.
LEMMA AcceptedIs ==
  ASSUME NEW t \in Checked, NEW c, Accepted(t, c)
  PROVE  c.q # "refused"
BY FiledIs, Zenon DEF Accepted, Checked
-----------------------------------------------------------------------------
(***************************************************************************)
(* The requests.  Whatever page or thread it comes from, a request commits *)
(* or not, and hands a list of writers to the worker or not.               *)
(***************************************************************************)
Modes == {"try", "must", "gated", "direct", "live"}
Entry == [t : Targets, mode : Modes]

\* The writers a list still has to run.
Left(s) == {s[k].t : k \in 1..Len(s)}

\* No writer is listed twice.
Once(s) == \A i, j \in 1..Len(s) : s[i].t = s[j].t => i = j

\* Where the LAN is, the WAN and its PPPoE link follow.
Followed(s) ==
    \A k \in 1..Len(s) :
        /\ s[k].t = "lan" => k + 2 =< Len(s)
        /\ s[k].t = "wan" => k + 1 =< Len(s)

List(s) == s \in Seq(Entry) /\ s # <<>> /\ Once(s) /\ Followed(s)

\* The lists of the WAN page and of the LAN page.
WanPlan == <<Try("rcconf"), Try("lan"), Direct("wan"), Gated("pppoe")>>
LanPlan == <<Try("rcconf"), Try("lan"), Direct("wan"), Gated("pppoe"), IfLive("nginx")>>

\* The lists of the requests whose answer a property speaks of.
Plan(call, s) ==
    /\ List(s)
    /\ call \in {"apply", "save_lan", "setup", "recover_dns"}
    /\ call = "save_lan" => s = LanPlan
    /\ call = "recover_dns" => s = <<Must("unbound"), Try("pf")>>
    /\ call = "setup" => s = <<Try("rcconf")>> \o Interfaces
                                \o ReloadAllServices \o <<Try("mrtg")>>

Request(w) ==
    \/ \E tables : Save(w, tables)
    \/ \E call, s : Plan(call, s) /\ Apply(w, call, s)
    \/ \E call, tables, s : Plan(call, s) /\ SaveAndApply(w, call, tables, s)
    \/ \E t \in {"routes", "unbound"} : \E tables : SaveHot(w, t, tables)
    \/ \E t \in Features : \E table : Assistant(w, t, table)
    \/ SaveWanConfig(w) \/ FirewallRollback(w) \/ PppoeDisconnect(w)
    \/ SocPortalSettings(w) \/ RunCheck(w)

\* Entries of a list.
LEMMA Entries ==
  ASSUME NEW t \in Targets
  PROVE  /\ Try(t) \in Entry /\ Must(t) \in Entry /\ Gated(t) \in Entry
         /\ Direct(t) \in Entry /\ IfLive(t) \in Entry
         /\ Try(t).t = t /\ Must(t).t = t /\ Gated(t).t = t
         /\ Direct(t).t = t /\ IfLive(t).t = t
         /\ Try(t).mode = "try" /\ Must(t).mode = "must" /\ Gated(t).mode = "gated"
         /\ Direct(t).mode = "direct" /\ IfLive(t).mode = "live"
BY DEF Try, Must, Gated, Direct, IfLive, Entry, Modes

\* A list of one entry.
LEMMA List1 ==
  ASSUME NEW a \in Entry, a.t \notin {"lan", "wan"}
  PROVE  List(<<a>>)
BY DEF List, Once, Followed

\* A list of two entries for different targets.
LEMMA List2 ==
  ASSUME NEW a \in Entry, NEW b \in Entry, a.t # b.t,
         a.t \notin {"lan", "wan"}, b.t \notin {"lan", "wan"}
  PROVE  List(<<a, b>>)
BY DEF List, Once, Followed

\* A list of three entries for different targets.
LEMMA List3 ==
  ASSUME NEW a \in Entry, NEW b \in Entry, NEW c \in Entry,
         a.t # b.t, a.t # c.t, b.t # c.t, a.t \notin {"lan", "wan"},
         b.t \notin {"lan", "wan"}, c.t \notin {"lan", "wan"}
  PROVE  List(<<a, b, c>>)
BY DEF List, Once, Followed

\* Two lists, one behind the other.
LEMMA Joined ==
  ASSUME NEW a \in Seq(Entry), NEW b \in Seq(Entry)
  PROVE  /\ a \o b \in Seq(Entry) /\ Len(a \o b) = Len(a) + Len(b)
         /\ \A i \in 1..Len(a) : (a \o b)[i] = a[i]
         /\ \A i \in 1..Len(b) : (a \o b)[Len(a) + i] = b[i]
<1> DEFINE s == a \o b
<1>1. /\ s \in Seq(Entry) /\ Len(s) = Len(a) + Len(b)
      /\ \A i \in 1..Len(a) + Len(b) : s[i] = IF i =< Len(a) THEN a[i] ELSE b[i - Len(a)]
  BY ConcatProperties
<1>2. Len(a) \in Nat /\ Len(b) \in Nat
  BY LenProperties
<1> HIDE DEF s
<1>3. \A i \in 1..Len(a) : s[i] = a[i]
  BY <1>1, <1>2
<1>4. ASSUME NEW i \in 1..Len(b) PROVE s[Len(a) + i] = b[i]
  <2>1. Len(a) + i \in 1..Len(a) + Len(b) /\ ~(Len(a) + i =< Len(a)) /\ Len(a) + i - Len(a) = i
    BY <1>2
  <2>2. QED
    BY <1>1, <2>1
<1>5. QED
  BY <1>1, <1>3, <1>4, Zenon DEF s

\* The lists that apply the interfaces.
LEMMA InterfaceLists ==
  /\ List(WanPlan) /\ List(LanPlan)
  /\ <<Try("rcconf")>> \o Interfaces = WanPlan
  /\ <<Try("rcconf")>> \o Interfaces \o <<IfLive("nginx")>> = LanPlan
<1>1. {"rcconf", "lan", "wan", "pppoe", "nginx"} \subseteq Targets
  BY TargetsAre
<1>2. /\ <<Try("rcconf")>> \o Interfaces = WanPlan
      /\ <<Try("rcconf")>> \o Interfaces \o <<IfLive("nginx")>> = LanPlan
  <2> DEFINE a == <<Try("rcconf")>>
             b == Interfaces
             c == <<IfLive("nginx")>>
             s == a \o b
             u == s \o c
  <2>1. /\ a \in Seq(Entry) /\ Len(a) = 1 /\ a[1] = Try("rcconf")
        /\ c \in Seq(Entry) /\ Len(c) = 1 /\ c[1] = IfLive("nginx")
    BY <1>1, Entries
  <2>2. /\ b \in Seq(Entry) /\ Len(b) = 3
        /\ b[1] = Try("lan") /\ b[2] = Direct("wan") /\ b[3] = Gated("pppoe")
    BY <1>1, Entries DEF Interfaces
  <2> HIDE DEF a, b, c
  <2>3. /\ s \in Seq(Entry) /\ Len(s) = Len(a) + Len(b)
        /\ \A i \in 1..Len(a) : s[i] = a[i]
        /\ \A i \in 1..Len(b) : s[Len(a) + i] = b[i]
    BY <2>1, <2>2, Joined, Zenon
  <2> HIDE DEF s
  <2>4. /\ u \in Seq(Entry) /\ Len(u) = Len(s) + Len(c)
        /\ \A i \in 1..Len(s) : u[i] = s[i]
        /\ \A i \in 1..Len(c) : u[Len(s) + i] = c[i]
    BY <2>1, <2>3, Joined, Zenon
  <2> HIDE DEF u
  <2>5. /\ Len(s) = 4 /\ Len(u) = 5 /\ s[1] = a[1] /\ u[1] = s[1] /\ u[2] = s[2]
        /\ u[3] = s[3] /\ u[4] = s[4]
    BY <2>1, <2>2, <2>3, <2>4
  <2>6. /\ s[1 + 1] = b[1] /\ s[1 + 2] = b[2] /\ s[1 + 3] = b[3] /\ u[4 + 1] = c[1]
    BY <2>1, <2>2, <2>3, <2>4, <2>5
  <2>7. /\ WanPlan \in Seq(Entry) /\ Len(WanPlan) = 4 /\ LanPlan \in Seq(Entry)
        /\ Len(LanPlan) = 5
        /\ \A i \in 1..4 : s[i] = WanPlan[i]
        /\ \A i \in 1..5 : u[i] = LanPlan[i]
    BY <1>1, <2>1, <2>2, <2>5, <2>6, Entries DEF WanPlan, LanPlan
  <2>8. s = WanPlan
    BY <2>3, <2>5, <2>7, SeqEqual
  <2>9. u = LanPlan
    BY <2>4, <2>5, <2>7, SeqEqual
  <2>10. QED
    BY <2>8, <2>9 DEF a, b, c, s, u
<1>3. List(WanPlan)
  <2>1. /\ WanPlan \in Seq(Entry) /\ WanPlan # <<>> /\ Len(WanPlan) = 4
    BY <1>1, Entries DEF WanPlan
  <2>2. /\ WanPlan[1].t = "rcconf" /\ WanPlan[2].t = "lan" /\ WanPlan[3].t = "wan"
        /\ WanPlan[4].t = "pppoe"
    BY <1>1, Entries DEF WanPlan
  <2>3. QED
    BY <2>1, <2>2 DEF List, Once, Followed
<1>4. List(LanPlan)
  <2>1. /\ LanPlan \in Seq(Entry) /\ LanPlan # <<>> /\ Len(LanPlan) = 5
    BY <1>1, Entries DEF LanPlan
  <2>2. /\ LanPlan[1].t = "rcconf" /\ LanPlan[2].t = "lan" /\ LanPlan[3].t = "wan"
        /\ LanPlan[4].t = "pppoe" /\ LanPlan[5].t = "nginx"
    BY <1>1, Entries DEF LanPlan
  <2>3. QED
    BY <2>1, <2>2 DEF List, Once, Followed
<1>5. QED
  BY <1>2, <1>3, <1>4

\* The firewall pages.
LEMMA FirewallRequests ==
  ASSUME NEW w \in Workers, FirewallNext(w)
  PROVE  Request(w)
<1>1. {"pf", "unbound", "vips", "suricata"} \subseteq Targets
  BY TargetsAre
<1>2. Plan("apply", <<Try("vips")>>)
  BY <1>1, Entries, List1 DEF Plan
<1>3. Plan("apply", <<Must("pf"), Try("unbound")>>)
  BY <1>1, Entries, List2 DEF Plan
<1>4. Plan("apply", <<Try("pf"), Try("unbound"), Gated("suricata")>>)
  BY <1>1, Entries, List3 DEF Plan
<1>5. CASE \/ AliasPages(w) \/ NatPfPages(w) \/ Nat1to1Pages(w) \/ NatOutboundPages(w)
           \/ NatNptPages(w) \/ FloatingRulePages(w) \/ WanRulePages(w)
           \/ LanRulePages(w) \/ ReorderRules(w) \/ SchedulePages(w)
           \/ TrafficShaperPages(w) \/ LimiterPages(w)
  <2>1. \E tables : Save(w, tables)
    BY <1>5 DEF AliasPages, NatPfPages, Nat1to1Pages, NatOutboundPages, NatNptPages,
                FloatingRulePages, WanRulePages, LanRulePages, ReorderRules,
                SchedulePages, TrafficShaperPages, LimiterPages
  <2>2. QED
    BY <2>1 DEF Request
<1>6. CASE VirtualIpPages(w)
  BY <1>2, <1>6, Zenon DEF VirtualIpPages, Request
<1>7. CASE FirewallApply(w) \/ FirewallApplyAll(w)
  BY <1>3, <1>4, <1>7, Zenon DEF FirewallApply, FirewallApplyAll, Request
<1>8. CASE FirewallRollback(w)
  BY <1>8 DEF Request
<1>9. QED
  BY <1>5, <1>6, <1>7, <1>8 DEF FirewallNext

\* The interface pages.
LEMMA InterfaceRequests ==
  ASSUME NEW w \in Workers, InterfacesNext(w)
  PROVE  Request(w)
<1>1. Plan("save_lan", LanPlan)
  BY InterfaceLists DEF Plan
<1>2. Plan("save_lan", <<Try("rcconf")>> \o Interfaces \o <<IfLive("nginx")>>)
  BY <1>1, InterfaceLists
<1>3. Plan("apply", <<Try("rcconf")>> \o Interfaces)
  BY InterfaceLists DEF Plan
<1>4. CASE \/ InterfaceGroupPages(w) \/ InterfaceAssignmentPages(w) \/ WirelessPages(w)
           \/ VlanPages(w) \/ QinqPages(w) \/ PppPages(w) \/ GrePages(w) \/ GifPages(w)
           \/ BridgePages(w) \/ LaggPages(w)
  <2>1. \E tables : Save(w, tables)
    BY <1>4 DEF InterfaceGroupPages, InterfaceAssignmentPages, WirelessPages, VlanPages,
                QinqPages, PppPages, GrePages, GifPages, BridgePages, LaggPages
  <2>2. QED
    BY <2>1 DEF Request
<1>5. CASE SaveLanConfig(w)
  BY <1>2, <1>5, Zenon DEF SaveLanConfig, Request
<1>6. CASE ApplyNetwork(w)
  BY <1>3, <1>6, Zenon DEF ApplyNetwork, Request
<1>7. CASE SaveWanConfig(w)
  BY <1>7 DEF Request
<1>8. QED
  BY <1>4, <1>5, <1>6, <1>7 DEF InterfacesNext

\* The routing pages and the content filters.
LEMMA RoutingRequests ==
  ASSUME NEW w \in Workers, RoutingAndFiltersNext(w)
  PROVE  Request(w)
<1>1. {"failover", "routes", "unbound", "captive", "pf"} \subseteq Targets
  BY TargetsAre
<1>2. Plan("apply", <<Try("failover")>>) /\ Plan("apply", <<Try("routes")>>)
  BY <1>1, Entries, List1 DEF Plan
<1>3. Plan("apply", <<Try("unbound"), Gated("captive")>>)
  BY <1>1, Entries, List2 DEF Plan
<1>4. Plan("apply", <<Try("unbound"), Try("pf"), Gated("captive")>>)
  BY <1>1, Entries, List3 DEF Plan
<1>5. CASE \/ GatewayPages(w) \/ GatewayGroupPages(w) \/ ContentPolicyModeSet(w)
           \/ AddDnsFilterRule(w) \/ AddWebFilterRule(w) \/ AddAppFilterRule(w)
           \/ ImportFilterList(w)
  <2>1. \E tables : Save(w, tables)
    BY <1>5 DEF GatewayPages, GatewayGroupPages, ContentPolicyModeSet, AddDnsFilterRule,
                AddWebFilterRule, AddAppFilterRule, ImportFilterList
  <2>2. QED
    BY <2>1 DEF Request
<1>6. CASE \/ StaticRouteEdit(w) \/ StaticRouteDelete(w) \/ ToggleDnsFilterRule(w)
           \/ ToggleWebFilterRule(w) \/ DeleteAppFilterRule(w)
  <2>1. \E t \in {"routes", "unbound"} : \E tables : SaveHot(w, t, tables)
    BY <1>6 DEF StaticRouteEdit, StaticRouteDelete, ToggleDnsFilterRule,
                ToggleWebFilterRule, DeleteAppFilterRule
  <2>2. QED
    BY <2>1 DEF Request
<1>7. CASE GatewayApply(w) \/ GatewayFailoverApply(w) \/ ApplyAllStaticRoutes(w)
  BY <1>2, <1>7, Zenon DEF GatewayApply, GatewayFailoverApply, ApplyAllStaticRoutes, Request
<1>8. CASE DnsFilterApply(w) \/ WebFilterApply(w) \/ AppFilterApply(w)
  BY <1>3, <1>4, <1>8, Zenon DEF DnsFilterApply, WebFilterApply, AppFilterApply, Request
<1>9. QED
  BY <1>5, <1>6, <1>7, <1>8
  DEF RoutingAndFiltersNext, DnsFilterPages, WebFilterPages, AppFilterPages

\* The services.
LEMMA ServiceRequests ==
  ASSUME NEW w \in Workers, ServicesNext(w)
  PROVE  Request(w)
<1>1. {"pf", "captive", "ntp", "snmp", "upnp", "igmp", "dhcpv6", "rtadvd", "ddns",
       "pppoe", "vips"} \subseteq Targets
  BY TargetsAre
<1>2. \A t \in {"ntp", "snmp", "upnp", "igmp", "dhcpv6", "rtadvd", "ddns", "pppoe", "vips"} :
        Plan("apply", <<Try(t)>>)
  BY <1>1, Entries, List1 DEF Plan
<1>3. /\ Plan("apply", <<Try("pf"), Try("captive")>>)
      /\ Plan("apply", <<Gated("dhcpv6"), Try("rtadvd")>>)
  BY <1>1, Entries, List2 DEF Plan
<1>4. CASE \/ CaptiveSettingsPage(w) \/ DhcpRelayPage(w) \/ DhcpServerPage(w)
           \/ DnsResolverPages(w) \/ DynamicDnsPages(w) \/ SaveDhcpv6(w) \/ SaveRa(w)
           \/ UpdateDhcp(w) \/ AutoConfigurePool(w) \/ StaticLeasePages(w)
           \/ ToggleHostFlags(w)
  <2>1. \E tables : Save(w, tables)
    BY <1>4 DEF CaptiveSettingsPage, DhcpRelayPage, DhcpServerPage, DnsResolverPages,
                DynamicDnsPages, SaveDhcpv6, SaveRa, UpdateDhcp, AutoConfigurePool,
                StaticLeasePages, ToggleHostFlags
  <2>2. QED
    BY <2>1 DEF Request
<1>5. CASE SaveNtp(w) \/ SaveSnmp(w) \/ SaveUpnp(w) \/ SaveIgmp(w)
  <2>1. \E call, tables, s : Plan(call, s) /\ SaveAndApply(w, call, tables, s)
    BY <1>2, <1>5 DEF SaveNtp, SaveSnmp, SaveUpnp, SaveIgmp
  <2>2. QED
    BY <2>1 DEF Request
<1>6. CASE \/ CaptiveApply(w) \/ ApplyDhcpv6AndRa(w) \/ ServiceApplies(w) \/ PppoeApply(w)
           \/ ApplyVipsEndpoint(w)
  <2>1. \E call, s : Plan(call, s) /\ Apply(w, call, s)
    BY <1>2, <1>3, <1>6 DEF CaptiveApply, ApplyDhcpv6AndRa, ServiceApplies, PppoeApply,
                            ApplyVipsEndpoint
  <2>2. QED
    BY <2>1 DEF Request
<1>7. CASE PppoeDisconnect(w)
  BY <1>7 DEF Request
<1>8. QED
  BY <1>4, <1>5, <1>6, <1>7 DEF ServicesNext

\* The VPN pages.
LEMMA VpnRequests ==
  ASSUME NEW w \in Workers, VpnNext(w)
  PROVE  Request(w)
<1>1. {"openvpn", "ipsec", "l2tp"} \subseteq Targets
  BY TargetsAre
<1>2. \A t \in {"openvpn", "ipsec", "l2tp"} : Plan("apply", <<Try(t)>>)
  BY <1>1, Entries, List1 DEF Plan
<1>3. CASE OpenvpnApply(w) \/ IpsecApply(w) \/ L2tpApply(w)
  <2>1. \E call, s : Plan(call, s) /\ Apply(w, call, s)
    BY <1>2, <1>3 DEF OpenvpnApply, IpsecApply, L2tpApply
  <2>2. QED
    BY <2>1 DEF Request
<1>4. CASE ~(OpenvpnApply(w) \/ IpsecApply(w) \/ L2tpApply(w))
  <2>1. \E tables : Save(w, tables)
    BY <1>4 DEF VpnNext, OpenvpnServerPages, OpenvpnClientPages, OpenvpnCsoPages,
                L2tpConfigPage, L2tpUserPages, OpenvpnWizardPages, VpnPortalPages,
                CreatePhase1, DeletePhase1, Phase2Pages, IpsecMobilePage, IpsecPskPages,
                IpsecAdvancedPage, L2tpSettingsPage, CertificatePages
  <2>2. QED
    BY <2>1 DEF Request
<1>5. QED
  BY <1>3, <1>4

\* The wizard's list: rc.conf and the interfaces, reload_all_services, and MRTG.
SetupPlan == <<Try("rcconf")>> \o Interfaces \o ReloadAllServices \o <<Try("mrtg")>>

\* The place of each writer in it.
SetupRank ==
    [rcconf |-> 1, lan |-> 2, wan |-> 3, pppoe |-> 4, pf |-> 5, nginx |-> 6, dhcpd |-> 7,
     unbound |-> 8, openvpn |-> 9, ipsec |-> 10, l2tp |-> 11, ntp |-> 12, suricata |-> 13,
     ddns |-> 14, snmp |-> 15, upnp |-> 16, igmp |-> 17, captive |-> 18, mrtg |-> 19]

\* What stands where in the wizard's list.
LEMMA SetupPlanIs ==
    /\ SetupPlan \in Seq(Entry) /\ Len(SetupPlan) = 19
    /\ \A k \in 1..19 : SetupRank[SetupPlan[k].t] = k
    /\ \A k \in {1, 2, 5, 6, 7, 8, 9, 10, 11} : SetupPlan[k].mode = "try"
    /\ \A k \in 1..19 : SetupPlan[k].mode \in {"try", "direct", "gated"}
    /\ SetupPlan[1].t = "rcconf" /\ SetupPlan[2].t = "lan" /\ SetupPlan[3].t = "wan"
    /\ SetupPlan[4].t = "pppoe" /\ SetupPlan[5].t = "pf" /\ SetupPlan[6].t = "nginx"
    /\ SetupPlan[7].t = "dhcpd" /\ SetupPlan[8].t = "unbound" /\ SetupPlan[9].t = "openvpn"
    /\ SetupPlan[10].t = "ipsec" /\ SetupPlan[11].t = "l2tp"
    /\ SetupPlan[3].mode = "direct" /\ SetupPlan[4].mode = "gated"
<1> DEFINE a == <<Try("rcconf")>> \o Interfaces
           r == ReloadAllServices
           m == <<Try("mrtg")>>
           ar == a \o r
<1>1. a = WanPlan
  BY InterfaceLists
<1> HIDE DEF a
<1>2. a \in Seq(Entry) /\ m \in Seq(Entry) /\ Len(a) = 4 /\ Len(m) = 1
  BY <1>1, TargetsAre, Entries DEF WanPlan
<1>3. r \in Seq(Entry) /\ Len(r) = 14
  BY TargetsAre, Entries DEF ReloadAllServices
<1>4. /\ a[1] = Try("rcconf") /\ a[2] = Try("lan") /\ a[3] = Direct("wan")
      /\ a[4] = Gated("pppoe") /\ m[1] = Try("mrtg")
  BY <1>1 DEF WanPlan
<1>5. /\ r[1] = Try("pf") /\ r[2] = Try("nginx") /\ r[3] = Try("dhcpd")
      /\ r[4] = Try("unbound") /\ r[5] = Try("openvpn") /\ r[6] = Try("ipsec")
      /\ r[7] = Try("l2tp") /\ r[8] = Gated("ntp") /\ r[9] = Try("suricata")
      /\ r[10] = Gated("ddns") /\ r[11] = Gated("snmp") /\ r[12] = Gated("upnp")
      /\ r[13] = Gated("igmp") /\ r[14] = Try("captive")
  BY DEF ReloadAllServices
<1> HIDE DEF r, m
<1>6. /\ ar \in Seq(Entry) /\ Len(ar) = 18 /\ \A k \in 1..4 : ar[k] = a[k]
      /\ \A k \in 1..14 : ar[4 + k] = r[k]
  <2>1. /\ ar \in Seq(Entry) /\ Len(ar) = Len(a) + Len(r)
        /\ \A i \in 1..Len(a) : ar[i] = a[i]
        /\ \A i \in 1..Len(r) : ar[Len(a) + i] = r[i]
    BY <1>2, <1>3, Joined, Zenon
  <2> HIDE DEF ar
  <2>2. QED
    BY <1>2, <1>3, <2>1
<1>7. SetupPlan = ar \o m
  BY DEF SetupPlan, a, r, m
<1> HIDE DEF ar
<1>8. /\ SetupPlan \in Seq(Entry) /\ Len(SetupPlan) = 19
      /\ \A k \in 1..18 : SetupPlan[k] = ar[k]
      /\ SetupPlan[19] = m[1]
  <2>1. /\ SetupPlan \in Seq(Entry) /\ Len(SetupPlan) = Len(ar) + Len(m)
        /\ \A i \in 1..Len(ar) : SetupPlan[i] = ar[i]
        /\ \A i \in 1..Len(m) : SetupPlan[Len(ar) + i] = m[i]
    <3>1. /\ ar \o m \in Seq(Entry) /\ Len(ar \o m) = Len(ar) + Len(m)
          /\ \A i \in 1..Len(ar) : (ar \o m)[i] = ar[i]
          /\ \A i \in 1..Len(m) : (ar \o m)[Len(ar) + i] = m[i]
      BY <1>2, <1>6, Joined, Zenon
    <3>2. QED
      BY <1>7, <3>1, Zenon
  <2>2. QED
    BY <1>2, <1>6, <2>1
<1>9. /\ SetupPlan[1] = Try("rcconf") /\ SetupPlan[2] = Try("lan") /\ SetupPlan[3] = Direct("wan")
      /\ SetupPlan[4] = Gated("pppoe") /\ SetupPlan[5] = Try("pf") /\ SetupPlan[6] = Try("nginx")
      /\ SetupPlan[7] = Try("dhcpd") /\ SetupPlan[8] = Try("unbound") /\ SetupPlan[9] = Try("openvpn")
      /\ SetupPlan[10] = Try("ipsec") /\ SetupPlan[11] = Try("l2tp") /\ SetupPlan[12] = Gated("ntp")
      /\ SetupPlan[13] = Try("suricata") /\ SetupPlan[14] = Gated("ddns") /\ SetupPlan[15] = Gated("snmp")
      /\ SetupPlan[16] = Gated("upnp") /\ SetupPlan[17] = Gated("igmp") /\ SetupPlan[18] = Try("captive")
      /\ SetupPlan[19] = Try("mrtg")
  <2>1. /\ ar[4 + 1] = r[1] /\ ar[4 + 2] = r[2] /\ ar[4 + 3] = r[3] /\ ar[4 + 4] = r[4]
        /\ ar[4 + 5] = r[5] /\ ar[4 + 6] = r[6] /\ ar[4 + 7] = r[7] /\ ar[4 + 8] = r[8]
        /\ ar[4 + 9] = r[9] /\ ar[4 + 10] = r[10] /\ ar[4 + 11] = r[11] /\ ar[4 + 12] = r[12]
        /\ ar[4 + 13] = r[13] /\ ar[4 + 14] = r[14]
    BY <1>6
  <2>2. QED
    BY <1>4, <1>5, <1>6, <1>8, <2>1
<1>10. /\ SetupPlan[1].t = "rcconf" /\ SetupPlan[2].t = "lan" /\ SetupPlan[3].t = "wan"
       /\ SetupPlan[4].t = "pppoe" /\ SetupPlan[5].t = "pf" /\ SetupPlan[6].t = "nginx"
       /\ SetupPlan[7].t = "dhcpd" /\ SetupPlan[8].t = "unbound" /\ SetupPlan[9].t = "openvpn"
       /\ SetupPlan[10].t = "ipsec" /\ SetupPlan[11].t = "l2tp" /\ SetupPlan[12].t = "ntp"
       /\ SetupPlan[13].t = "suricata" /\ SetupPlan[14].t = "ddns" /\ SetupPlan[15].t = "snmp"
       /\ SetupPlan[16].t = "upnp" /\ SetupPlan[17].t = "igmp" /\ SetupPlan[18].t = "captive"
       /\ SetupPlan[19].t = "mrtg"
  BY <1>9 DEF Try, Gated, Direct
<1>11. /\ SetupPlan[1].mode = "try" /\ SetupPlan[2].mode = "try" /\ SetupPlan[3].mode = "direct"
       /\ SetupPlan[4].mode = "gated" /\ SetupPlan[5].mode = "try" /\ SetupPlan[6].mode = "try"
       /\ SetupPlan[7].mode = "try" /\ SetupPlan[8].mode = "try" /\ SetupPlan[9].mode = "try"
       /\ SetupPlan[10].mode = "try" /\ SetupPlan[11].mode = "try" /\ SetupPlan[12].mode = "gated"
       /\ SetupPlan[13].mode = "try" /\ SetupPlan[14].mode = "gated" /\ SetupPlan[15].mode = "gated"
       /\ SetupPlan[16].mode = "gated" /\ SetupPlan[17].mode = "gated" /\ SetupPlan[18].mode = "try"
       /\ SetupPlan[19].mode = "try"
  BY <1>9 DEF Try, Gated, Direct
<1>12. \A k \in 1..19 : SetupRank[SetupPlan[k].t] = k
  BY <1>10 DEF SetupRank
<1>13. \A k \in 1..19 : SetupPlan[k].mode \in {"try", "direct", "gated"}
  BY <1>11
<1>14. QED
  BY <1>8, <1>10, <1>11, <1>12, <1>13

\* The wizard runs each writer once.
LEMMA SetupRequest == Plan("setup", SetupPlan)
<1>1. SetupPlan \in Seq(Entry) /\ Len(SetupPlan) = 19
  BY SetupPlanIs
<1>2. \A k \in 1..19 : SetupRank[SetupPlan[k].t] = k
  BY SetupPlanIs
<1>3. Once(SetupPlan)
  <2> SUFFICES ASSUME NEW i \in 1..19, NEW j \in 1..19, SetupPlan[i].t = SetupPlan[j].t
               PROVE  i = j
    BY <1>1 DEF Once
  <2>1. SetupRank[SetupPlan[i].t] = i /\ SetupRank[SetupPlan[j].t] = j
    BY <1>2, Zenon
  <2>2. QED
    BY <2>1, Zenon
<1>4. SetupPlan # <<>>
  <2>1. SetupPlan = <<>> => Len(SetupPlan) = 0
    OBVIOUS
  <2>2. QED
    BY <1>1, <2>1
<1>5. Followed(SetupPlan)
  <2> SUFFICES ASSUME NEW k \in 1..19
               PROVE  /\ SetupPlan[k].t = "lan" => k + 2 =< 19
                      /\ SetupPlan[k].t = "wan" => k + 1 =< 19
    BY <1>1 DEF Followed
  <2>1. SetupRank["lan"] = 2 /\ SetupRank["wan"] = 3
    BY DEF SetupRank
  <2>2. QED
    BY <1>2, <2>1
<1>6. List(SetupPlan)
  BY <1>1, <1>3, <1>4, <1>5, Zenon DEF List
<1>7. QED
  BY <1>6 DEF Plan, SetupPlan

\* System pages, the SOC portal, the wizard, the assistant and the threads.
LEMMA OtherRequests ==
  ASSUME NEW w \in Workers, RequestsNext(w)
  PROVE  Request(w)
<1>1. {"pf", "dhcpd", "unbound", "mrtg"} \subseteq Targets
  BY TargetsAre
<1>2. \A t \in {"pf", "dhcpd", "unbound", "mrtg"} : Plan("apply", <<Try(t)>>)
  BY <1>1, Entries, List1 DEF Plan
<1>3. Plan("recover_dns", <<Must("unbound"), Try("pf")>>)
  BY <1>1, Entries, List2 DEF Plan
<1>4. CASE SystemPagesNext(w) \/ SetupSteps(w)
  <2>1. \E tables : Save(w, tables)
    BY <1>4 DEF SystemPagesNext, SetupSteps, GeneralSetup, AdminAccessPage,
                AdvancedFirewallNatPage, AdvancedNetworkPage, AdvancedMiscPage,
                TunablePages, HighAvailabilityPage, SetupWizardTime
  <2>2. QED
    BY <2>1 DEF Request
<1>5. CASE FilterReload(w) \/ DhcpApply(w) \/ DnsApply(w) \/ MrtgApply(w)
  <2>1. \E call, s : Plan(call, s) /\ Apply(w, call, s)
    BY <1>2, <1>5 DEF FilterReload, DhcpApply, DnsApply, MrtgApply
  <2>2. QED
    BY <2>1 DEF Request
<1>6. CASE SetupApply(w)
  <2>1. Apply(w, "setup", SetupPlan)
    BY <1>6 DEF SetupApply, SetupPlan
  <2>2. QED
    BY <2>1, SetupRequest, Zenon DEF Request
<1>7. CASE AttemptRecovery(w)
  BY <1>3, <1>7, Zenon DEF AttemptRecovery, RecoverDnsService, Request
<1>8. CASE ExecuteApprovedAction(w)
  BY <1>8, Zenon DEF ExecuteApprovedAction, Features, Request
<1>9. CASE SocPortalSettings(w) \/ RunCheck(w)
  BY <1>9 DEF Request
<1>10. QED
  BY <1>4, <1>5, <1>6, <1>7, <1>8, <1>9 DEF RequestsNext

\* Every step of the system.
LEMMA EveryStep ==
  ASSUME [Next]_vars
  PROVE  \/ \E w \in Workers : Request(w) \/ Step(w)
         \/ WindowFlips \/ UnboundStops \/ EnforcerRestart
         \/ UNCHANGED vars
BY FirewallRequests, InterfaceRequests, RoutingRequests, ServiceRequests, VpnRequests,
   OtherRequests DEF Next
-----------------------------------------------------------------------------
(***************************************************************************)
(* The shape of the state.                                                 *)
(***************************************************************************)
\* What may be entered, or generated from it.
Entered == {"good", "refused", "unloadable"}

RowType == [hits : SUBSET Targets, q : Entered, gone : BOOLEAN,
            kind : {"row", "soc_vip", "window"}]

\* A request adds at most two rows, so that their numbers stay below MaxSaves.
SavesOk ==
    /\ saves \in Seq(RowType)
    /\ calls \in Nat /\ calls =< MaxCalls /\ Len(saves) =< 2 * calls

\* A file and its backup hold texts the file has held, or a copy that has not
\* finished.
DiskOk ==
    /\ file \in [Filed -> Contents] /\ past \in [Filed -> SUBSET Contents]
    /\ known \in [Filed -> Contents \cup {NoFile}]
    /\ \A t \in Filed : /\ file[t] \in past[t] \cup {Torn}
                        /\ known[t] # NoFile => known[t] \in past[t] \cup {Torn}

\* What is never stopped.
Steady == {"pf", "nginx", "lan", "wan", "vips", "routes"}

DaemonOk ==
    /\ daemon \in [Targets -> Contents \cup {Down}]
    /\ \A t \in Steady : daemon[t] \in Contents

Busy == {"generate", "backup", "write", "companion", "load", "undo", "refill", "reload"}
JobFields == {"pc", "todo", "conf", "did", "failed", "clean", "call", "save", "mark",
              "gaps"}

\* A worker in the middle of a request: which writer is at hand, which come after
\* it, and that a text is only written once its writer's checks have accepted it.
\* Only the virtual IPs are applied twice, when the SOC portal takes its row back.
JobOk(j) ==
    /\ DOMAIN j = JobFields
    /\ j.pc \in Busy \cup {"idle", "done", "revert"}
    /\ j.todo \in Seq(Entry) /\ Once(j.todo) /\ Followed(j.todo)
    /\ j.pc \in Busy <=> j.todo # <<>>
    /\ j.did \in SUBSET Targets /\ j.failed \in SUBSET j.did
    /\ Left(j.todo) \cap j.did \subseteq {"vips"}
    /\ j.clean \in BOOLEAN
    /\ j.conf \in Contents /\ j.conf.q \in Entered
    /\ j.pc \in {"backup", "write"}
          => Head(j.todo).t \in Filed /\ Accepted(Head(j.todo).t, j.conf)
    /\ j.pc = "companion" => Head(j.todo).t = "l2tp" /\ j.conf.q # "refused"
    /\ j.pc \in {"undo", "refill", "reload"}
          => Head(j.todo).t \in Filed /\ How[Head(j.todo).t].undo # "none"

JobsOk == job = [w \in Workers |-> job[w]] /\ \A w \in Workers : JobOk(job[w])

\* There is a backup to finish the copy of.
RefillsOk ==
    \A w \in Workers : job[w].pc = "refill" => known[Head(job[w].todo).t] # NoFile

ConfType == SavesOk /\ DiskOk /\ DaemonOk /\ JobsOk /\ RefillsOk

\* The texts a machine begins with.
LEMMA InitialIs ==
  ASSUME NEW t \in Targets
  PROVE  /\ Initial(t) \in Contents /\ Initial(t).of = {} /\ Initial(t).by = t
         /\ Initial(t).q = "good" /\ Initial(t).funnel = (t = "pf")
<1>1. {} \in SUBSET SaveIds /\ "good" \in Qualities /\ (t = "pf") \in BOOLEAN
  BY DEF Qualities
<1>2. QED
  BY <1>1 DEF Initial, Contents

\* A copy that has not finished.
LEMMA TornIs == Torn \in Contents /\ Torn.q = "torn" /\ Torn # NoFile /\ Torn.of = {}
<1>1. {} \in SUBSET SaveIds /\ "torn" \in Qualities /\ "pf" \in Targets
  BY TargetsAre DEF Qualities
<1>2. Torn \in Contents /\ Torn.q = "torn" /\ Torn.of = {}
  BY <1>1 DEF Torn, Contents
<1>3. QED
  BY <1>2, MarkerAssumption

\* A nonempty set of numbers up to n has a greatest one.
LEMMA Newest ==
  ASSUME NEW n \in Nat, NEW T \in SUBSET (1..n), T # {}
  PROVE  \E k \in T : \A x \in T : x =< k
<1> DEFINE R == OpToRel(<, Nat)
           U == {n - x : x \in T}
<1>1. IsWellFoundedOn(R, Nat)
  BY NatLessThanWellFounded
<1>2. ASSUME NEW x \in Nat, NEW y \in Nat, <<y, x>> \notin R PROVE x =< y
  BY <1>2 DEF OpToRel
<1> HIDE DEF R
<1>3. U \in SUBSET Nat /\ U # {}
  <2>1. \A x \in T : n - x \in Nat
    OBVIOUS
  <2>2. QED
    BY <2>1
<1>4. PICK u \in U : \A v \in U : <<v, u>> \notin R
  <2> HIDE DEF U
  <2>1. QED
    BY <1>1, <1>3, WFMin
<1>5. \A v \in U : u =< v
  BY <1>2, <1>3, <1>4
<1>6. PICK k \in T : u = n - k
  OBVIOUS
<1>7. \A x \in T : n - x \in U
  OBVIOUS
<1>8. \A x \in T : x =< k
  BY <1>5, <1>6, <1>7
<1>9. QED
  BY <1>8

\* A text is one of the writer, of the commits it saw.
LEMMA TextIs ==
  ASSUME SavesOk, NEW t \in Targets
  PROVE  /\ Text(t) \in Contents /\ Text(t).by = t /\ Text(t).of = Seen(t)
         /\ Text(t).funnel = (t = "pf" /\ UnboundLanReady) /\ Text(t).q \in Entered
<1> DEFINE s == Seen(t)
           q == IF s = {} THEN "good" ELSE saves[CHOOSE k \in s : \A x \in s : x =< k].q
           f == t = "pf" /\ UnboundLanReady
<1>1. Len(saves) \in Nat /\ DOMAIN saves = 1..Len(saves) /\ Len(saves) =< MaxSaves
  BY ConfigAssumption, LenProperties DEF SavesOk, MaxSaves
<1>2. s \in SUBSET (1..Len(saves)) /\ s \in SUBSET SaveIds
  <2>1. s \in SUBSET (1..Len(saves))
    BY <1>1 DEF Seen
  <2>2. 1..Len(saves) \subseteq SaveIds
    BY <1>1, ConfigAssumption DEF SaveIds, MaxSaves
  <2>3. QED
    BY <2>1, <2>2
<1>3. q \in Entered
  <2>1. CASE s = {}
    BY <2>1 DEF Entered
  <2>2. CASE s # {}
    <3> DEFINE k == CHOOSE k \in s : \A x \in s : x =< k
    <3>1. \E m \in s : \A x \in s : x =< m
      BY <1>1, <1>2, <2>2, Newest
    <3>2. k \in s
      BY <3>1, Zenon
    <3> HIDE DEF k
    <3>3. saves[k] \in RowType
      BY <1>1, <1>2, <3>2, ElementOfSeq DEF SavesOk
    <3>4. saves[k].q \in Entered
      BY <3>3 DEF RowType
    <3>5. QED
      BY <2>2, <3>4 DEF k
  <2>3. QED
    BY <2>1, <2>2
<1>4. f \in BOOLEAN
  OBVIOUS
<1>5. Text(t) = [by |-> t, of |-> s, funnel |-> f, q |-> q]
  BY DEF Text
<1> HIDE DEF q, s, f
<1>6. /\ Text(t) \in Contents /\ Text(t).by = t /\ Text(t).of = s /\ Text(t).funnel = f
      /\ Text(t).q \in Entered
  BY <1>2, <1>3, <1>4, <1>5 DEF Contents, Entered, Qualities
<1>7. QED
  BY <1>6 DEF s, f
-----------------------------------------------------------------------------
(***************************************************************************)
(* How a worker goes on.                                                   *)
(***************************************************************************)
\* The list without its head.
LEMMA TailIs ==
  ASSUME NEW s \in Seq(Entry), s # <<>>, Once(s), Followed(s)
  PROVE  /\ Head(s) \in Entry /\ Head(s) = s[1] /\ Head(s).t \in Left(s)
         /\ Head(s).t \in Targets /\ Head(s).mode \in Modes
         /\ Tail(s) \in Seq(Entry) /\ Once(Tail(s)) /\ Followed(Tail(s))
         /\ Left(Tail(s)) = Left(s) \ {Head(s).t}
         /\ Len(s) \in Nat \ {0} /\ Len(Tail(s)) = Len(s) - 1
         /\ \A i \in 1..Len(s) - 1 : Tail(s)[i] = s[i + 1]
<1>1. /\ Head(s) \in Entry /\ Tail(s) \in Seq(Entry) /\ Len(Tail(s)) = Len(s) - 1
      /\ \A i \in 1..Len(Tail(s)) : Tail(s)[i] = s[i + 1]
  BY HeadTailProperties
<1>2. Len(s) \in Nat \ {0}
  BY LenProperties, EmptySeq
<1>3. Head(s) = s[1]
  OBVIOUS
<1>4. Head(s).t \in Left(s) /\ Head(s).t \in Targets /\ Head(s).mode \in Modes
  BY <1>1, <1>2, <1>3 DEF Left, Entry
<1> DEFINE r == Tail(s)
<1>5. /\ Len(r) = Len(s) - 1 /\ \A i \in 1..Len(r) : r[i] = s[i + 1]
  BY <1>1
<1> HIDE DEF r
<1>6. Once(r)
  BY <1>2, <1>5 DEF Once
<1>8. Followed(r)
  <2> SUFFICES ASSUME NEW k \in 1..Len(r)
               PROVE  /\ r[k].t = "lan" => k + 2 =< Len(r)
                      /\ r[k].t = "wan" => k + 1 =< Len(r)
    BY DEF Followed
  <2>1. k + 1 \in 1..Len(s) /\ r[k] = s[k + 1]
    BY <1>2, <1>5
  <2>2. QED
    BY <1>2, <1>5, <2>1 DEF Followed
<1>7. Left(r) = Left(s) \ {Head(s).t}
  <2>1. ASSUME NEW x \in Left(r) PROVE x \in Left(s) \ {Head(s).t}
    <3>1. PICK i \in 1..Len(r) : x = r[i].t
      BY <2>1 DEF Left
    <3>2. i + 1 \in 1..Len(s) /\ x = s[i + 1].t /\ 1 \in 1..Len(s) /\ i + 1 # 1
      BY <1>2, <1>5, <3>1
    <3>3. QED
      BY <1>3, <3>2 DEF Left, Once
  <2>2. ASSUME NEW x \in Left(s) \ {Head(s).t} PROVE x \in Left(r)
    <3>1. PICK i \in 1..Len(s) : x = s[i].t
      BY <2>2 DEF Left
    <3>2. i # 1
      BY <1>3, <2>2, <3>1
    <3>3. i - 1 \in 1..Len(r) /\ r[i - 1] = s[i]
      BY <1>2, <1>5, <3>1, <3>2
    <3>4. QED
      BY <3>1, <3>3 DEF Left
  <2>3. QED
    BY <2>1, <2>2
<1>9. QED
  BY <1>1, <1>2, <1>3, <1>4, <1>5, <1>6, <1>7, <1>8 DEF r

\* The empty list: nothing is left to do.
LEMMA EmptyList ==
  <<>> \in Seq(Entry) /\ Once(<<>>) /\ Followed(<<>>) /\ Left(<<>>) = {}
BY DEF Once, Left, Followed

\* The writer at hand.
Hand(w) == Head(job[w].todo).t

\* n is the job j after the writer at hand has returned.
Returned(j, ok, gaps, n) ==
    LET e == Head(j.todo)
    IN  /\ n.did = j.did \cup {e.t}
        /\ n.failed = IF ok THEN j.failed ELSE j.failed \cup {e.t}
        /\ n.todo = IF ok \/ e.mode # "must" THEN Tail(j.todo) ELSE <<>>
        /\ n.pc = After(j, n.todo, n.failed)
        /\ n.call = j.call /\ n.save = j.save /\ n.clean = j.clean
        /\ n.conf = Initial("pf") /\ n.gaps = j.gaps \cup gaps

\* n is the job j after the writer at hand has been left out.
Skipped(j, n) ==
    /\ n.todo = Tail(j.todo) /\ n.did = j.did /\ n.failed = j.failed
    /\ n.pc = After(j, n.todo, j.failed)
    /\ n.call = j.call /\ n.save = j.save /\ n.clean = j.clean
    /\ n.conf = j.conf /\ n.gaps = j.gaps

\* What is left of the list when the interfaces have been given up.
Abandoned(j) ==
    IF j.call # "setup" THEN <<>>
    ELSE IF Head(j.todo).t = "lan" THEN Tail(Tail(Tail(j.todo))) ELSE Tail(Tail(j.todo))

\* n is the job j after an interface has been given up.
GivenUp(j, n) ==
    /\ n.did = j.did \cup {Head(j.todo).t} /\ n.failed = j.failed \cup {Head(j.todo).t}
    /\ n.todo = Abandoned(j)
    /\ n.pc = IF n.todo = <<>> /\ j.save # 0 THEN "revert" ELSE After(j, n.todo, {})
    /\ n.call = j.call /\ n.save = j.save /\ n.clean = j.clean
    /\ n.conf = Initial("pf") /\ n.gaps = j.gaps

\* n is the job j at another place, with another text and the same writer at hand.
Carried(j, pc, c, gaps, n) ==
    /\ n.pc = pc /\ n.conf = c /\ n.todo = j.todo /\ n.did = j.did
    /\ n.failed = j.failed /\ n.call = j.call /\ n.save = j.save /\ n.clean = j.clean
    /\ n.gaps = j.gaps \cup gaps

\* Where a request goes on depends on whether a writer is left.
LEMMA AfterIs ==
  ASSUME NEW j, NEW rest, NEW bad
  PROVE  /\ After(j, rest, bad) \in {"generate", "revert", "done"}
         /\ After(j, rest, bad) = "generate" <=> rest # <<>>
BY DEF After

\* The writer at hand, and the list behind it.
LEMMA AtHand ==
  ASSUME JobsOk, NEW w \in Workers, job[w].pc \in Busy
  PROVE  /\ JobOk(job[w]) /\ Hand(w) \in Targets /\ Hand(w) = Current(w)
         /\ Hand(w) \in Left(job[w].todo)
         /\ Head(job[w].todo) \in Entry /\ job[w].todo # <<>>
         /\ Tail(job[w].todo) \in Seq(Entry) /\ Once(Tail(job[w].todo))
         /\ Followed(Tail(job[w].todo))
         /\ Left(Tail(job[w].todo)) = Left(job[w].todo) \ {Hand(w)}
         /\ How[Hand(w)].file => Hand(w) \in Filed
         /\ ~How[Hand(w)].file => Hand(w) \notin Filed
<1>1. /\ JobOk(job[w]) /\ Hand(w) \in Targets /\ Hand(w) = Current(w)
      /\ Hand(w) \in Left(job[w].todo)
      /\ Head(job[w].todo) \in Entry /\ job[w].todo # <<>>
      /\ Tail(job[w].todo) \in Seq(Entry) /\ Once(Tail(job[w].todo))
      /\ Followed(Tail(job[w].todo))
      /\ Left(Tail(job[w].todo)) = Left(job[w].todo) \ {Hand(w)}
  BY TailIs DEF JobsOk, JobOk, Current, Hand
<1>2. /\ How[Hand(w)].file => Hand(w) \in Filed
      /\ ~How[Hand(w)].file => Hand(w) \notin Filed
  BY <1>1, Zenon DEF Filed
<1>3. QED
  BY <1>1, <1>2

\* A request that goes on with another list is well formed.
LEMMA RestOk ==
  ASSUME NEW j, JobOk(j), NEW n, DOMAIN n = JobFields, NEW t \in Targets,
         n.todo \in Seq(Entry), Once(n.todo), Followed(n.todo),
         Left(n.todo) \subseteq Left(j.todo) \ {t},
         n.did \in {j.did, j.did \cup {t}}, n.failed \in SUBSET n.did,
         n.pc \in {"generate", "revert", "done"}, n.pc = "generate" <=> n.todo # <<>>,
         n.clean = j.clean, n.conf \in {j.conf, Initial("pf")}
  PROVE  JobOk(n)
<1>1. Initial("pf") \in Contents /\ Initial("pf").q \in Entered
  BY TargetsAre, InitialIs DEF Entered
<1>2. n.conf \in Contents /\ n.conf.q \in Entered
  BY <1>1 DEF JobOk
<1>3. n.did \in SUBSET Targets /\ Left(n.todo) \cap n.did \subseteq {"vips"}
  BY DEF JobOk
<1>4. n.pc \in Busy <=> n.todo # <<>>
  BY DEF Busy
<1>5. n.clean \in BOOLEAN
  BY DEF JobOk
<1>6. QED
  BY <1>2, <1>3, <1>4, <1>5 DEF JobOk

\* The target at hand is done with: the request returns the result to its list.
LEMMA FinishIs ==
  ASSUME JobsOk, NEW w \in Workers, job[w].pc \in Busy, NEW ok \in BOOLEAN, NEW gaps,
         FinishWith(w, ok, gaps)
  PROVE  \E n : JobOk(n) /\ Returned(job[w], ok, gaps, n) /\ Moves(w, n)
<1> DEFINE j == job[w]
           e == Head(j.todo)
           rest == IF ok \/ e.mode # "must" THEN Tail(j.todo) ELSE <<>>
           bad == IF ok THEN j.failed ELSE j.failed \cup {e.t}
           pc == After(j, rest, bad)
           n == [j EXCEPT !.pc = pc, !.todo = rest, !.failed = bad,
                          !.did = @ \cup {e.t}, !.conf = Initial("pf"),
                          !.gaps = @ \cup gaps]
<1>1. Moves(w, n)
  BY DEF FinishWith
<1>2. JobOk(j) /\ e.t = Hand(w)
  BY AtHand DEF Hand
<1>3. rest \in Seq(Entry) /\ Once(rest) /\ Followed(rest) /\ Left(rest) \subseteq Left(j.todo) \ {e.t}
  BY <1>2, AtHand, EmptyList
<1>4. /\ n.pc = pc /\ n.todo = rest /\ n.failed = bad /\ n.did = j.did \cup {e.t}
      /\ n.conf = Initial("pf") /\ n.clean = j.clean /\ n.call = j.call /\ n.save = j.save
      /\ n.gaps = j.gaps \cup gaps /\ DOMAIN n = JobFields
  BY <1>2 DEF JobOk, JobFields
<1>5. bad \in SUBSET (j.did \cup {e.t}) /\ e.t \in Targets
  <2>1. Hand(w) \in Targets
    BY AtHand
  <2>2. j.failed \in SUBSET j.did
    BY <1>2 DEF JobOk
  <2>3. bad \in {j.failed, j.failed \cup {e.t}}
    OBVIOUS
  <2>4. e.t \in Targets
    BY <1>2, <2>1
  <2> HIDE DEF bad, e, j, rest, pc, n
  <2>5. QED
    BY <2>2, <2>3, <2>4
<1>6. pc \in {"generate", "revert", "done"} /\ (pc = "generate" <=> rest # <<>>)
  <2> HIDE DEF rest, bad, j, n, e
  <2>1. QED
    BY AfterIs, Zenon
<1>7. Returned(j, ok, gaps, n)
  BY <1>4 DEF Returned
<1> HIDE DEF n, rest, bad, pc, e, j
<1>8. JobOk(n)
  BY <1>2, <1>3, <1>4, <1>5, <1>6, RestOk
<1>9. QED
  BY <1>1, <1>7, <1>8, Zenon DEF j

\* A writer that is left out.
LEMMA SkipIs ==
  ASSUME JobsOk, NEW w \in Workers, job[w].pc \in Busy, Skip(w)
  PROVE  \E n : JobOk(n) /\ Moves(w, n) /\ Skipped(job[w], n)
<1> DEFINE j == job[w]
           rest == Tail(j.todo)
           pc == After(j, rest, j.failed)
           n == [j EXCEPT !.pc = pc, !.todo = rest]
<1>1. Moves(w, n)
  BY DEF Skip
<1>2. JobOk(j) /\ Hand(w) \in Targets
  BY AtHand
<1>3. /\ rest \in Seq(Entry) /\ Once(rest) /\ Followed(rest)
      /\ Left(rest) \subseteq Left(j.todo) \ {Hand(w)}
  BY AtHand
<1>4. /\ n.pc = pc /\ n.todo = rest /\ n.failed = j.failed /\ n.did = j.did
      /\ n.conf = j.conf /\ n.clean = j.clean /\ n.call = j.call /\ n.save = j.save
      /\ n.gaps = j.gaps /\ DOMAIN n = JobFields
  BY <1>2 DEF JobOk, JobFields
<1>5. pc \in {"generate", "revert", "done"} /\ (pc = "generate" <=> rest # <<>>)
  BY AfterIs
<1>6. j.failed \in SUBSET j.did
  BY <1>2 DEF JobOk
<1>7. Skipped(j, n)
  BY <1>4 DEF Skipped
<1> HIDE DEF n, rest, pc, j
<1>8. JobOk(n)
  BY <1>2, <1>3, <1>4, <1>5, <1>6, RestOk
<1>9. QED
  BY <1>1, <1>7, <1>8, Zenon DEF j

\* The interfaces have been given up: what follows the WAN's link is left, or nothing.
LEMMA GiveUpIs ==
  ASSUME JobsOk, NEW w \in Workers, job[w].pc \in Busy, GiveUp(w), Hand(w) \in {"lan", "wan"}
  PROVE  \E n : JobOk(n) /\ Moves(w, n) /\ GivenUp(job[w], n)
<1> DEFINE j == job[w]
           t == Head(j.todo).t
           rest == Abandoned(j)
           pc == IF rest = <<>> /\ j.save # 0 THEN "revert" ELSE After(j, rest, {})
           n == [j EXCEPT !.pc = pc, !.todo = rest, !.failed = @ \cup {t},
                          !.did = @ \cup {t}, !.conf = Initial("pf")]
<1>1. JobOk(j) /\ t \in Targets /\ t = Current(w) /\ t = Hand(w)
  BY AtHand DEF Hand
<1>2. Moves(w, n)
  BY <1>1 DEF GiveUp, Abandoned
<1>3. /\ rest \in Seq(Entry) /\ Once(rest) /\ Followed(rest)
      /\ Left(rest) \subseteq Left(j.todo) \ {t}
  <2>1. /\ j.todo \in Seq(Entry) /\ j.todo # <<>> /\ Once(j.todo) /\ Followed(j.todo)
        /\ j.todo[1] = Head(j.todo) /\ Len(j.todo) \in Nat \ {0}
    BY <1>1, TailIs DEF JobOk
  <2> DEFINE a == Tail(j.todo)
             b == Tail(a)
             c == Tail(b)
  <2>2. /\ a \in Seq(Entry) /\ Once(a) /\ Followed(a) /\ Left(a) = Left(j.todo) \ {t}
        /\ Len(a) = Len(j.todo) - 1
    BY <2>1, TailIs
  <2>3. /\ t = "lan" => 1 + 2 =< Len(j.todo)
        /\ t = "wan" => 1 + 1 =< Len(j.todo)
    BY <2>1 DEF Followed
  <2> HIDE DEF a
  <2>4. ASSUME t \in {"lan", "wan"}
        PROVE  /\ b \in Seq(Entry) /\ Once(b) /\ Followed(b) /\ Left(b) \subseteq Left(a)
               /\ Len(b) = Len(a) - 1
    <3>1. a # <<>>
      BY <2>1, <2>2, <2>3, <2>4
    <3>2. QED
      BY <2>2, <3>1, TailIs
  <2> HIDE DEF b
  <2>5. ASSUME t = "lan"
        PROVE  c \in Seq(Entry) /\ Once(c) /\ Followed(c) /\ Left(c) \subseteq Left(b)
    <3>1. b # <<>>
      BY <2>1, <2>2, <2>3, <2>4, <2>5
    <3>2. QED
      BY <2>4, <2>5, <3>1, TailIs
  <2> HIDE DEF c
  <2>6. rest = IF j.call # "setup" THEN <<>> ELSE IF t = "lan" THEN c ELSE b
    BY DEF Abandoned, a, b, c
  <2>7. t \in {"lan", "wan"}
    BY <1>1
  <2> HIDE DEF rest, t, j
  <2>8. QED
    BY <2>2, <2>4, <2>5, <2>6, <2>7, EmptyList
<1>4. /\ n.pc = pc /\ n.todo = rest /\ n.failed = j.failed \cup {t} /\ n.did = j.did \cup {t}
      /\ n.conf = Initial("pf") /\ n.clean = j.clean /\ n.call = j.call /\ n.save = j.save
      /\ n.gaps = j.gaps /\ DOMAIN n = JobFields
  BY <1>1 DEF JobOk, JobFields
<1>5. pc \in {"generate", "revert", "done"} /\ (pc = "generate" <=> rest # <<>>)
  BY AfterIs
<1>6. j.failed \cup {t} \in SUBSET (j.did \cup {t})
  BY <1>1 DEF JobOk
<1>7. GivenUp(j, n)
  BY <1>4 DEF GivenUp
<1> HIDE DEF n, rest, pc, j, t
<1>8. JobOk(n)
  BY <1>1, <1>3, <1>4, <1>5, <1>6, RestOk
<1>9. QED
  BY <1>2, <1>7, <1>8, Zenon DEF j

\* A text, and the place where the writer at hand may go with it.
Fit(j, pc, c) ==
    /\ pc \in {"backup", "write"} => Head(j.todo).t \in Filed /\ Accepted(Head(j.todo).t, c)
    /\ pc = "companion" => Head(j.todo).t = "l2tp" /\ c.q # "refused"
    /\ pc \in {"undo", "refill", "reload"}
          => Head(j.todo).t \in Filed /\ How[Head(j.todo).t].undo # "none"

\* Moving on to another label of the same target keeps the request well formed.
LEMMA GotoIs ==
  ASSUME NEW j, JobOk(j), j.pc \in Busy, NEW pc \in Busy \ {"generate"},
         NEW c \in Contents, c.q \in Entered, Fit(j, pc, c), NEW gaps, NEW n,
         Carried(j, pc, c, gaps, n), DOMAIN n = JobFields
  PROVE  JobOk(n)
BY DEF JobOk, Fit, Carried

\* The three ways the model writes it.
LEMMA CarriedIs ==
  ASSUME NEW j, JobOk(j), NEW pc, NEW c, NEW gaps
  PROVE  /\ Carried(j, pc, j.conf, {}, [j EXCEPT !.pc = pc])
         /\ Carried(j, pc, c, {}, [j EXCEPT !.conf = c, !.pc = pc])
         /\ Carried(j, pc, j.conf, gaps, [j EXCEPT !.pc = pc, !.gaps = @ \cup gaps])
         /\ DOMAIN [j EXCEPT !.pc = pc] = JobFields
         /\ DOMAIN [j EXCEPT !.conf = c, !.pc = pc] = JobFields
         /\ DOMAIN [j EXCEPT !.pc = pc, !.gaps = @ \cup gaps] = JobFields
<1>1. DOMAIN j = JobFields
  BY DEF JobOk
<1>2. Carried(j, pc, j.conf, {}, [j EXCEPT !.pc = pc])
  BY <1>1 DEF Carried, JobFields
<1>3. Carried(j, pc, c, {}, [j EXCEPT !.conf = c, !.pc = pc])
  BY <1>1 DEF Carried, JobFields
<1>4. Carried(j, pc, j.conf, gaps, [j EXCEPT !.pc = pc, !.gaps = @ \cup gaps])
  BY <1>1 DEF Carried, JobFields
<1>5. QED
  BY <1>1, <1>2, <1>3, <1>4

\* Going on to another label.
LEMMA GoesTo ==
  ASSUME JobsOk, NEW w \in Workers, job[w].pc \in Busy, NEW pc \in Busy \ {"generate"},
         Goto(w, pc), Fit(job[w], pc, job[w].conf)
  PROVE  \E n : JobOk(n) /\ Carried(job[w], pc, job[w].conf, {}, n) /\ Moves(w, n)
<1> DEFINE n == [job[w] EXCEPT !.pc = pc]
<1>1. JobOk(job[w]) /\ job[w].conf \in Contents /\ job[w].conf.q \in Entered
  BY DEF JobsOk, JobOk
<1>2. Carried(job[w], pc, job[w].conf, {}, n) /\ DOMAIN n = JobFields /\ Moves(w, n)
  BY <1>1, CarriedIs DEF Goto
<1> HIDE DEF n
<1>3. QED
  BY <1>1, <1>2, GotoIs

\* The job of whoever did not move: it no longer runs alone.
LEMMA UncleanOk ==
  ASSUME NEW j, JobOk(j), NEW n, n = [j EXCEPT !.clean = FALSE]
  PROVE  /\ JobOk(n) /\ n.pc = j.pc /\ n.conf = j.conf /\ n.todo = j.todo
         /\ n.did = j.did /\ n.failed = j.failed /\ n.call = j.call
         /\ n.save = j.save /\ n.gaps = j.gaps /\ n.clean = FALSE
<1>1. /\ n.pc = j.pc /\ n.conf = j.conf /\ n.todo = j.todo
      /\ n.did = j.did /\ n.failed = j.failed /\ n.call = j.call
      /\ n.save = j.save /\ n.gaps = j.gaps /\ n.clean = FALSE
      /\ DOMAIN n = JobFields
  BY DEF JobOk, JobFields
<1>2. JobOk(n)
  BY <1>1 DEF JobOk
<1>3. QED
  BY <1>1, <1>2

\* w goes on with job n, and the others no longer run alone.
Hands(w, n) ==
    job' = [x \in Workers |-> IF x = w THEN n ELSE [job[x] EXCEPT !.clean = FALSE]]

\* One request is handed a new record; every other one loses its clean flag.
LEMMA HandsOk ==
  ASSUME JobsOk, NEW w \in Workers, NEW n, JobOk(n), Hands(w, n)
  PROVE  /\ JobsOk' /\ job'[w] = n
         /\ \A x \in Workers \ {w} : job'[x] = [job[x] EXCEPT !.clean = FALSE]
<1>1. /\ job'[w] = n /\ job' = [x \in Workers |-> job'[x]]
      /\ \A x \in Workers \ {w} : job'[x] = [job[x] EXCEPT !.clean = FALSE]
  BY DEF Hands
<1>2. ASSUME NEW x \in Workers PROVE JobOk(job'[x])
  <2>1. CASE x = w
    BY <1>1, <2>1
  <2>2. CASE x # w
    <3>1. JobOk(job[x])
      BY DEF JobsOk
    <3>2. job'[x] = [job[x] EXCEPT !.clean = FALSE]
      BY <1>1, <2>2
    <3>3. QED
      BY <3>1, <3>2, UncleanOk, Zenon
  <2>3. QED
    BY <2>1, <2>2
<1>3. JobsOk'
  BY <1>1, <1>2, Zenon DEF JobsOk
<1>4. QED
  BY <1>1, <1>3

\* What the idle record holds.
LEMMA IdleIs ==
  /\ JobOk(IdleJob) /\ IdleJob.pc = "idle" /\ IdleJob.clean = FALSE
  /\ IdleJob.call = "none" /\ IdleJob.did = {} /\ IdleJob.todo = <<>>
  /\ IdleJob.gaps = {}
<1>1. /\ IdleJob.pc = "idle" /\ IdleJob.todo = <<>> /\ IdleJob.conf = Initial("pf")
      /\ IdleJob.did = {} /\ IdleJob.failed = {} /\ IdleJob.clean = FALSE
      /\ IdleJob.call = "none" /\ IdleJob.gaps = {} /\ DOMAIN IdleJob = JobFields
  BY DEF IdleJob, JobFields
<1>2. Initial("pf") \in Contents /\ Initial("pf").q \in Entered
  BY TargetsAre, InitialIs DEF Entered
<1>3. JobOk(IdleJob)
  BY <1>1, <1>2, EmptyList DEF JobOk, Busy
<1>4. QED
  BY <1>1, <1>3

-----------------------------------------------------------------------------
(***************************************************************************)
(* The files.                                                              *)
(***************************************************************************)
\* What a step may do to the files: nothing; replace one by a text its checks
\* accept, with or without a backup; copy one to its backup or back, or begin to.
DiskStep ==
    \/ UNCHANGED <<file, known, past>>
    \/ \E t \in Filed, c \in Contents :
          /\ Put(t, c) /\ known' \in {known, [known EXCEPT ![t] = file[t]]}
          /\ c.q # "torn" /\ (t \in Checked => c.q # "refused")
    \/ \E t \in Filed :
          /\ known' \in {[known EXCEPT ![t] = file[t]], [known EXCEPT ![t] = Torn]}
          /\ UNCHANGED <<file, past>>
    \/ \E t \in Filed :
          /\ known[t] # NoFile
          /\ file' \in {[file EXCEPT ![t] = known[t]], [file EXCEPT ![t] = Torn]}
          /\ UNCHANGED <<known, past>>

\* Such a step keeps the files in order, and no backup disappears.
LEMMA DiskKept ==
  ASSUME DiskOk, DiskStep
  PROVE  /\ DiskOk'
         /\ \A t \in Filed : known[t] # NoFile => known'[t] # NoFile
<1>1. /\ file \in [Filed -> Contents] /\ past \in [Filed -> SUBSET Contents]
      /\ known \in [Filed -> Contents \cup {NoFile}] /\ NoFile \notin Contents
      /\ \A t \in Filed : /\ file[t] \in past[t] \cup {Torn}
                          /\ known[t] # NoFile => known[t] \in past[t] \cup {Torn}
  BY MarkerAssumption DEF DiskOk
<1>2. Torn \in Contents /\ Torn # NoFile
  BY TornIs
<1>3. CASE UNCHANGED <<file, known, past>>
  BY <1>1, <1>3 DEF DiskOk
<1>4. ASSUME NEW t \in Filed, NEW c \in Contents, Put(t, c),
             known' \in {known, [known EXCEPT ![t] = file[t]]}
      PROVE  DiskOk' /\ \A x \in Filed : known[x] # NoFile => known'[x] # NoFile
  <2>1. file' = [file EXCEPT ![t] = c] /\ past' = [past EXCEPT ![t] = past[t] \cup {c}]
    BY <1>4 DEF Put
  <2>2. /\ file' \in [Filed -> Contents] /\ past' \in [Filed -> SUBSET Contents]
        /\ known' \in [Filed -> Contents \cup {NoFile}]
    BY <1>1, <1>4, <2>1
  <2>3. ASSUME NEW x \in Filed
        PROVE  /\ file'[x] \in past'[x] \cup {Torn}
               /\ known'[x] # NoFile => known'[x] \in past'[x] \cup {Torn}
               /\ known[x] # NoFile => known'[x] # NoFile
    <3>1. CASE x = t
      BY <1>1, <1>4, <2>1, <3>1
    <3>2. CASE x # t
      <4>1. file'[x] = file[x] /\ past'[x] = past[x] /\ known'[x] = known[x]
        BY <1>1, <1>4, <2>1, <3>2
      <4>2. QED
        BY <1>1, <4>1
    <3>3. QED
      BY <3>1, <3>2
  <2>4. QED
    BY <2>2, <2>3 DEF DiskOk
<1>5. ASSUME NEW t \in Filed, UNCHANGED <<file, past>>,
             known' \in {[known EXCEPT ![t] = file[t]], [known EXCEPT ![t] = Torn]}
      PROVE  DiskOk' /\ \A x \in Filed : known[x] # NoFile => known'[x] # NoFile
  <2>1. PICK c \in {file[t], Torn} : known' = [known EXCEPT ![t] = c]
    BY <1>5
  <2>2. c \in Contents /\ c \in past[t] \cup {Torn}
    BY <1>1, <1>2, <2>1
  <2>3. known' \in [Filed -> Contents \cup {NoFile}]
    BY <1>1, <2>1, <2>2
  <2>4. \A x \in Filed : known'[x] = IF x = t THEN c ELSE known[x]
    BY <1>1, <2>1
  <2>5. QED
    BY <1>1, <1>5, <2>2, <2>3, <2>4 DEF DiskOk
<1>6. ASSUME NEW t \in Filed, UNCHANGED <<known, past>>, known[t] # NoFile,
             file' \in {[file EXCEPT ![t] = known[t]], [file EXCEPT ![t] = Torn]}
      PROVE  DiskOk' /\ \A x \in Filed : known[x] # NoFile => known'[x] # NoFile
  <2>1. PICK c \in {known[t], Torn} : file' = [file EXCEPT ![t] = c]
    BY <1>6
  <2>2. c \in Contents /\ c \in past[t] \cup {Torn}
    BY <1>1, <1>2, <1>6, <2>1
  <2>3. file' \in [Filed -> Contents]
    BY <1>1, <2>1, <2>2
  <2>4. \A x \in Filed : file'[x] = IF x = t THEN c ELSE file[x]
    BY <1>1, <2>1
  <2>5. QED
    BY <1>1, <1>6, <2>2, <2>3, <2>4 DEF DiskOk
<1>7. QED
  BY <1>3, <1>4, <1>5, <1>6 DEF DiskStep

\* Such a step is one of the files seen as versioned files.
LEMMA DiskRefines ==
  ASSUME DiskOk, DiskStep
  PROVE  VF!Next
<1> SUFFICES ASSUME NEW p \in Checked
             PROVE  \/ UNCHANGED <<file[p], known[p], past[p]>>
                    \/ /\ file'[p] \in {c \in Contents : c.q \notin {"refused", "torn"}}
                       /\ past'[p] = past[p] \cup {file'[p]}
                       /\ known'[p] \in {known[p], file[p]}
                    \/ /\ known'[p] \in {file[p], Torn}
                       /\ file'[p] = file[p] /\ past'[p] = past[p]
                    \/ /\ known[p] \in past[p] \cup {Torn}
                       /\ file'[p] \in {known[p], Torn}
                       /\ known'[p] = known[p] /\ past'[p] = past[p]
  BY DEF VF!Next, VF!Leave, VF!Install, VF!Keep, VF!Restore
<1>1. /\ file \in [Filed -> Contents] /\ past \in [Filed -> SUBSET Contents]
      /\ known \in [Filed -> Contents \cup {NoFile}] /\ p \in Filed
      /\ known[p] # NoFile => known[p] \in past[p] \cup {Torn}
  BY FiledIs DEF DiskOk
<1>2. CASE UNCHANGED <<file, known, past>>
  BY <1>2
<1>3. ASSUME NEW t \in Filed, NEW c \in Contents, Put(t, c),
             known' \in {known, [known EXCEPT ![t] = file[t]]},
             c.q # "torn", t \in Checked => c.q # "refused"
      PROVE  \/ UNCHANGED <<file[p], known[p], past[p]>>
             \/ /\ file'[p] \in {d \in Contents : d.q \notin {"refused", "torn"}}
                /\ past'[p] = past[p] \cup {file'[p]}
                /\ known'[p] \in {known[p], file[p]}
  <2>1. file' = [file EXCEPT ![t] = c] /\ past' = [past EXCEPT ![t] = past[t] \cup {c}]
    BY <1>3 DEF Put
  <2>2. CASE p = t
    BY <1>1, <1>3, <2>1, <2>2
  <2>3. CASE p # t
    BY <1>1, <1>3, <2>1, <2>3
  <2>4. QED
    BY <2>2, <2>3
<1>4. ASSUME NEW t \in Filed, UNCHANGED <<file, past>>,
             known' \in {[known EXCEPT ![t] = file[t]], [known EXCEPT ![t] = Torn]}
      PROVE  \/ UNCHANGED <<file[p], known[p], past[p]>>
             \/ /\ known'[p] \in {file[p], Torn}
                /\ file'[p] = file[p] /\ past'[p] = past[p]
  BY <1>1, <1>4
<1>5. ASSUME NEW t \in Filed, UNCHANGED <<known, past>>, known[t] # NoFile,
             file' \in {[file EXCEPT ![t] = known[t]], [file EXCEPT ![t] = Torn]}
      PROVE  \/ UNCHANGED <<file[p], known[p], past[p]>>
             \/ /\ known[p] \in past[p] \cup {Torn}
                /\ file'[p] \in {known[p], Torn}
                /\ known'[p] = known[p] /\ past'[p] = past[p]
  BY <1>1, <1>5
<1>6. QED
  BY <1>2, <1>3, <1>4, <1>5 DEF DiskStep

\* What a step keeps of the shape of the state.
StepOk == DiskStep /\ SavesOk' /\ DaemonOk' /\ JobsOk' /\ RefillsOk'

\* One live text may change; what is never stopped is not.
LEMMA DaemonSet ==
  ASSUME DaemonOk, NEW t \in Targets, NEW d \in Contents \cup {Down},
         d = Down => t \notin Steady, daemon' = [daemon EXCEPT ![t] = d]
  PROVE  DaemonOk'
<1>1. daemon' \in [Targets -> Contents \cup {Down}]
  BY DEF DaemonOk
<1>2. ASSUME NEW x \in Steady PROVE daemon'[x] \in Contents
  <2>1. x \in Targets
    BY TargetsAre DEF Steady
  <2>2. QED
    BY <2>1 DEF DaemonOk
<1>3. QED
  BY <1>1, <1>2 DEF DaemonOk
-----------------------------------------------------------------------------
(***************************************************************************)
(* What each step does, in terms of the writer at hand and of the job n    *)
(* the worker goes on with.                                                *)
(***************************************************************************)
\* The database and the live services are left alone.
Quiet == UNCHANGED <<saves, on, daemon>>

\* The entry is left out.
Skips(w, n) ==
    /\ job[w].pc = "generate" /\ LeftOut(w) /\ Skipped(job[w], n)
    /\ Quiet /\ UNCHANGED Disk

\* The service is off, and is stopped, or a failure to stop it is ignored.
Settles(w, n) ==
    /\ ~IsOn(Hand(w))
    /\ \/ job[w].pc = "generate" /\ How[Hand(w)].off = "stop"
       \/ job[w].pc = "load" /\ How[Hand(w)].off = "stop_after"
    /\ \/ /\ daemon' = [daemon EXCEPT ![Hand(w)] = Down]
          /\ Returned(job[w], TRUE, {}, n)
       \/ UNCHANGED daemon /\ Returned(job[w], TRUE, Gap(w, "ignored"), n)
    /\ UNCHANGED <<saves, on>> /\ UNCHANGED Disk

\* The text is refused, or the service cannot be stopped.
Refuses(w, n) ==
    /\ job[w].pc = "generate" /\ Returned(job[w], FALSE, {}, n)
    /\ Quiet /\ UNCHANGED Disk

\* The text is accepted.
Accepts(w, n) ==
    /\ job[w].pc = "generate" /\ ~LeftOut(w)
    /\ How[Hand(w)].off = "stop" => IsOn(Hand(w))
    /\ Carried(job[w], BeforeWrite(Hand(w)), Text(Hand(w)), {}, n)
    /\ Quiet /\ UNCHANGED Disk

\* The live file is being kept.
Keeps(w, n) ==
    /\ job[w].pc = "backup" /\ Carried(job[w], "write", job[w].conf, {}, n)
    /\ known' = [known EXCEPT ![Hand(w)] = Torn] /\ UNCHANGED <<file, past>>
    /\ Quiet

\* The file is replaced; what it held may not have been kept.
Replaces(w, n) ==
    /\ job[w].pc \in {"backup", "write"}
    /\ Put(Hand(w), job[w].conf)
    /\ \E gaps :
          /\ \/ gaps = {} /\ job[w].pc = "write" /\ known' = Kept(Hand(w))
             \/ gaps = Gap(w, "no_backup") /\ UNCHANGED known
          /\ IF Hand(w) \in Loaded
             THEN Carried(job[w], AfterWrite(Hand(w)), job[w].conf, gaps, n)
             ELSE Returned(job[w], TRUE, gaps, n)
    /\ Quiet

\* It is not, or not as a whole.
WriteFails(w, n) ==
    /\ job[w].pc = "write" /\ known' = Kept(Hand(w))
    /\ \/ UNCHANGED <<file, past>> /\ Returned(job[w], FALSE, {}, n)
       \/ /\ Put(Hand(w), [job[w].conf EXCEPT !.q = "mixed"])
          /\ Returned(job[w], FALSE, Gap(w, "not_put_back"), n)
    /\ Quiet

\* L2TP replaces the files of IPsec, or fails to and goes on.
Shares(w, n) ==
    /\ job[w].pc = "companion" /\ UNCHANGED known
    /\ \/ /\ Put("ipsec", job[w].conf)
          /\ daemon' = [daemon EXCEPT !["ipsec"] = IF @ = Down THEN Down ELSE job[w].conf]
          /\ Carried(job[w], "load", job[w].conf, {}, n)
       \/ /\ \/ UNCHANGED <<file, past>>
             \/ Put("ipsec", [job[w].conf EXCEPT !.q = "mixed"])
             \/ Put("ipsec", job[w].conf)
          /\ UNCHANGED daemon
          /\ Carried(job[w], "load", job[w].conf, Gap(w, "ignored"), n)
    /\ UNCHANGED <<saves, on>>

\* The service takes the text.
Serves(w, n) ==
    /\ job[w].pc = "load"
    /\ How[Hand(w)].off = "stop_after" => IsOn(Hand(w))
    /\ daemon' = [daemon EXCEPT ![Hand(w)] = Residue(Hand(w), Incoming(w))]
    /\ Returned(job[w], TRUE, {}, n)
    /\ UNCHANGED <<saves, on>> /\ UNCHANGED Disk

\* What a service may be left with: some text, or nothing if it is ever stopped.
Remains(t, d) ==
    /\ d \in Contents \/ (d = Down /\ t \notin Steady)
    /\ t = "pppoe" => d = Down

\* The service does not take it, or something behind it fails.
LoadFails(w, n) ==
    /\ job[w].pc = "load"
    /\ \E d : Remains(Hand(w), d) /\ daemon' = [daemon EXCEPT ![Hand(w)] = d]
    /\ \/ How[Hand(w)].undo = "none" /\ Returned(job[w], FALSE, {}, n)
       \/ How[Hand(w)].undo # "none" /\ Carried(job[w], "undo", job[w].conf, {}, n)
       \/ How[Hand(w)].undo # "none" /\ Returned(job[w], FALSE, Gap(w, "not_put_back"), n)
    /\ UNCHANGED <<saves, on>> /\ UNCHANGED Disk

\* The interfaces are given up.
GivesUp(w, n) ==
    /\ job[w].pc = "load" /\ Hand(w) \in {"lan", "wan"}
    /\ daemon' = [daemon EXCEPT ![Hand(w)] = job[w].conf]
    /\ GivenUp(job[w], n)
    /\ UNCHANGED <<saves, on>> /\ UNCHANGED Disk

\* There is no backup to put back.
UndoesNothing(w, n) ==
    /\ job[w].pc = "undo" /\ known[Hand(w)] = NoFile /\ Returned(job[w], FALSE, {}, n)
    /\ Quiet /\ UNCHANGED Disk

\* The copy of the backup begins.
Truncates(w, n) ==
    /\ job[w].pc = "undo" /\ known[Hand(w)] # NoFile
    /\ file' = [file EXCEPT ![Hand(w)] = Torn] /\ UNCHANGED <<known, past>>
    /\ Carried(job[w], "refill", job[w].conf, {}, n)
    /\ Quiet

\* The backup is back in place.
Restores(w, n) ==
    /\ job[w].pc \in {"undo", "refill"} /\ known[Hand(w)] # NoFile
    /\ file' = [file EXCEPT ![Hand(w)] = known[Hand(w)]] /\ UNCHANGED <<known, past>>
    /\ \/ Carried(job[w], "reload", job[w].conf, {}, n)
       \/ Returned(job[w], FALSE, {}, n)
    /\ Quiet

\* The rollback fails.
RollbackStops(w, n) ==
    /\ job[w].pc \in {"undo", "refill"}
    /\ Returned(job[w], FALSE, Gap(w, "rollback_failed"), n)
    /\ Quiet /\ UNCHANGED Disk

\* The service takes the backup, or does not.
TakesBack(w, n) ==
    /\ job[w].pc = "reload" /\ Returned(job[w], FALSE, {}, n)
    /\ \E d : /\ d \in Contents \/ (d = Down /\ Hand(w) \notin Steady)
              /\ daemon' = [daemon EXCEPT ![Hand(w)] = d]
    /\ UNCHANGED <<saves, on>> /\ UNCHANGED Disk

\* n is the job j once its row has been dealt with.
Ended(j, gaps, n) ==
    /\ n.pc = "done" /\ n.todo = <<>> /\ n.did = j.did /\ n.failed = j.failed
    /\ n.call = j.call /\ n.save = j.save /\ n.clean = j.clean
    /\ n.conf = j.conf /\ n.gaps = j.gaps \cup gaps

\* A WAN row is put back.
PutsRowBack(w, n) ==
    /\ job[w].pc = "revert" /\ job[w].call = "save_wan"
    /\ saves' = [saves EXCEPT ![job[w].save].gone = TRUE]
    /\ on' \in {on, on \ {"pppoe"}}
    /\ Ended(job[w], {}, n)
    /\ UNCHANGED daemon /\ UNCHANGED Disk

\* It stays.
RowStays(w, n) ==
    /\ job[w].pc = "revert" /\ job[w].call = "save_wan"
    /\ Ended(job[w], {<<"pppoe", "row_kept">>}, n)
    /\ Quiet /\ UNCHANGED Disk

\* The SOC portal's virtual IP row is deleted.
DeletesVip(w, n) ==
    /\ job[w].pc = "revert" /\ job[w].call # "save_wan"
    /\ saves' = WithoutSocVip(saves)
    /\ n.pc = "generate" /\ n.todo = <<Try("vips")>> /\ n.did = job[w].did
    /\ n.failed = job[w].failed /\ n.call = job[w].call /\ n.save = 0
    /\ n.clean = job[w].clean /\ n.conf = job[w].conf /\ n.gaps = job[w].gaps
    /\ UNCHANGED <<on, daemon>> /\ UNCHANGED Disk

Goes(w, n) ==
    \/ Skips(w, n) \/ Settles(w, n) \/ Refuses(w, n) \/ Accepts(w, n)
    \/ Keeps(w, n) \/ Replaces(w, n) \/ WriteFails(w, n) \/ Shares(w, n)
    \/ Serves(w, n) \/ LoadFails(w, n) \/ GivesUp(w, n)
    \/ UndoesNothing(w, n) \/ Truncates(w, n) \/ Restores(w, n)
    \/ RollbackStops(w, n) \/ TakesBack(w, n)
    \/ PutsRowBack(w, n) \/ RowStays(w, n) \/ DeletesVip(w, n)

\* A step in the middle of a request.
GoesOn(w) ==
    /\ \E n : JobOk(n) /\ Moves(w, n) /\ Goes(w, n)
    /\ UNCHANGED <<badge, crashed, calls>>

\* Generating a text is one of the ways a request goes on.
LEMMA GenerateIs ==
  ASSUME ConfType, NEW w \in Workers, Generate(w)
  PROVE  GoesOn(w)
<1> DEFINE t == Current(w)
           c == Text(t)
<1>1. /\ job[w].pc = "generate" /\ job[w].pc \in Busy
      /\ UNCHANGED Disk /\ UNCHANGED <<saves, on>> /\ UNCHANGED <<badge, crashed, calls>>
  BY DEF Generate, Busy, Database
<1>2. JobsOk /\ SavesOk
  BY DEF ConfType
<1>3. /\ t = Hand(w) /\ t \in Targets /\ JobOk(job[w])
      /\ How[t].file => t \in Filed
      /\ t = Head(job[w].todo).t
  BY <1>1, <1>2, AtHand DEF Hand
<1>4. c \in Contents /\ c.q \in Entered
  BY <1>2, <1>3, TextIs
<1> HIDE DEF t, c
<1>5. CASE LeftOut(w) /\ Skip(w) /\ UNCHANGED daemon
  <2>1. \E n : JobOk(n) /\ Moves(w, n) /\ Skips(w, n)
    BY <1>1, <1>2, <1>5, SkipIs DEF Skips, Quiet
  <2>2. QED
    BY <1>1, <2>1 DEF GoesOn, Goes
<1>6. CASE /\ StopsFirst(t)
           /\ \/ daemon' = [daemon EXCEPT ![t] = Down] /\ Finish(w, TRUE)
              \/ UNCHANGED daemon /\ FinishWith(w, TRUE, Gap(w, "ignored"))
  <2>1. ~IsOn(t) /\ How[t].off = "stop"
    BY <1>6 DEF StopsFirst
  <2>2. \E n : JobOk(n) /\ Moves(w, n) /\ Settles(w, n)
    <3>1. CASE daemon' = [daemon EXCEPT ![t] = Down] /\ Finish(w, TRUE)
      <4>1. \E n : JobOk(n) /\ Returned(job[w], TRUE, {}, n) /\ Moves(w, n)
        BY <1>1, <1>2, <3>1, FinishIs DEF Finish
      <4>2. QED
        BY <1>1, <1>3, <2>1, <3>1, <4>1 DEF Settles
    <3>2. CASE UNCHANGED daemon /\ FinishWith(w, TRUE, Gap(w, "ignored"))
      <4>1. \E n : /\ JobOk(n) /\ Returned(job[w], TRUE, Gap(w, "ignored"), n)
                   /\ Moves(w, n)
        BY <1>1, <1>2, <3>2, FinishIs
      <4>2. QED
        BY <1>1, <1>3, <2>1, <3>2, <4>1 DEF Settles
    <3>3. QED
      BY <1>6, <3>1, <3>2
  <2>3. QED
    BY <1>1, <2>2 DEF GoesOn, Goes
<1>7. CASE UNCHANGED daemon /\ Finish(w, FALSE)
  <2>1. \E n : JobOk(n) /\ Returned(job[w], FALSE, {}, n) /\ Moves(w, n)
    BY <1>1, <1>2, <1>7, FinishIs DEF Finish
  <2>2. \E n : JobOk(n) /\ Moves(w, n) /\ Refuses(w, n)
    BY <1>1, <1>7, <2>1 DEF Refuses, Quiet
  <2>3. QED
    BY <1>1, <2>2 DEF GoesOn, Goes
<1>8. CASE /\ UNCHANGED daemon /\ Accepted(t, c) /\ ~LeftOut(w) /\ ~StopsFirst(t)
           /\ Moves(w, [job[w] EXCEPT !.conf = c, !.pc = BeforeWrite(t)])
  <2> DEFINE pc == BeforeWrite(t)
             n == [job[w] EXCEPT !.conf = c, !.pc = pc]
  <2>1. Moves(w, n)
    BY <1>8
  <2>2. pc \in {"load", "backup", "write"} /\ (pc # "load" => t \in Filed)
    BY <1>3 DEF BeforeWrite
  <2>3. How[t].off = "stop" => IsOn(t)
    BY <1>8 DEF StopsFirst
  <2> HIDE DEF pc
  <2>4. pc \in Busy \ {"generate"} /\ Fit(job[w], pc, c)
    BY <1>3, <1>8, <2>2 DEF Busy, Fit
  <2>5. Carried(job[w], pc, c, {}, n) /\ DOMAIN n = JobFields
    BY <1>3, CarriedIs
  <2> HIDE DEF n
  <2>6. JobOk(n)
    BY <1>1, <1>3, <1>4, <2>4, <2>5, GotoIs
  <2>7. Accepts(w, n)
    <3>1. pc = BeforeWrite(t) /\ c = Text(t)
      BY DEF pc, c
    <3>2. QED
      BY <1>1, <1>3, <1>8, <2>3, <2>5, <3>1 DEF Accepts, Quiet
  <2>8. QED
    BY <1>1, <2>1, <2>6, <2>7 DEF GoesOn, Goes
<1>9. QED
  BY <1>5, <1>6, <1>7, <1>8, Zenon DEF Generate, t, c

\* The writer whose file is about to be replaced.
LEMMA WriteFits ==
  ASSUME JobsOk, NEW w \in Workers, job[w].pc \in {"backup", "write"}
  PROVE  /\ job[w].pc \in Busy /\ Current(w) = Hand(w) /\ Current(w) \in Filed
         /\ Current(w) \in Targets
         /\ job[w].conf \in Contents /\ job[w].conf.q \in Entered
         /\ Current(w) \in Checked => job[w].conf.q # "refused"
         /\ AfterWrite(Current(w)) \in {"companion", "load"}
         /\ Fit(job[w], AfterWrite(Current(w)), job[w].conf)
         /\ Fit(job[w], "write", job[w].conf)
<1>1. job[w].pc \in Busy
  BY DEF Busy
<1>2. /\ JobOk(job[w]) /\ Current(w) = Head(job[w].todo).t /\ Current(w) \in Targets
      /\ Current(w) = Hand(w)
  BY <1>1, AtHand DEF Current
<1>3. /\ Current(w) \in Filed /\ Accepted(Current(w), job[w].conf)
      /\ job[w].conf \in Contents /\ job[w].conf.q \in Entered
  BY <1>2 DEF JobOk
<1>4. Current(w) \in Checked => job[w].conf.q # "refused"
  BY <1>3, AcceptedIs
<1>5. "l2tp" \in Checked
  BY TargetsAre, FiledIs, HowIs DEF Has
<1>6. /\ AfterWrite(Current(w)) \in {"companion", "load"}
      /\ AfterWrite(Current(w)) = "companion" => Current(w) = "l2tp"
  BY DEF AfterWrite
<1>7. Fit(job[w], AfterWrite(Current(w)), job[w].conf)
  BY <1>2, <1>4, <1>5, <1>6 DEF Fit
<1>8. Fit(job[w], "write", job[w].conf)
  BY <1>2, <1>3 DEF Fit
<1>9. QED
  BY <1>1, <1>2, <1>3, <1>4, <1>6, <1>7, <1>8

\* Going on with what has been left undone noted.
LEMMA GoesToWith ==
  ASSUME JobsOk, NEW w \in Workers, job[w].pc \in Busy, NEW pc \in Busy \ {"generate"},
         NEW gaps, Moves(w, [job[w] EXCEPT !.pc = pc, !.gaps = @ \cup gaps]),
         Fit(job[w], pc, job[w].conf)
  PROVE  \E n : JobOk(n) /\ Carried(job[w], pc, job[w].conf, gaps, n) /\ Moves(w, n)
<1> DEFINE n == [job[w] EXCEPT !.pc = pc, !.gaps = @ \cup gaps]
<1>1. JobOk(job[w]) /\ job[w].conf \in Contents /\ job[w].conf.q \in Entered
  BY DEF JobsOk, JobOk
<1>2. Carried(job[w], pc, job[w].conf, gaps, n) /\ DOMAIN n = JobFields /\ Moves(w, n)
  BY <1>1, CarriedIs
<1> HIDE DEF n
<1>3. QED
  BY <1>1, <1>2, GotoIs

\* The new file is in place.
LEMMA WrittenIs ==
  ASSUME JobsOk, NEW w \in Workers, job[w].pc \in {"backup", "write"}, NEW gaps,
         Written(w, gaps)
  PROVE  \E n : /\ JobOk(n) /\ Moves(w, n)
                /\ IF Hand(w) \in Loaded
                   THEN Carried(job[w], AfterWrite(Hand(w)), job[w].conf, gaps, n)
                   ELSE Returned(job[w], TRUE, gaps, n)
<1>1. /\ job[w].pc \in Busy /\ Current(w) = Hand(w)
      /\ AfterWrite(Current(w)) \in {"companion", "load"}
      /\ Fit(job[w], AfterWrite(Current(w)), job[w].conf)
  BY WriteFits
<1>2. AfterWrite(Current(w)) \in Busy \ {"generate"}
  BY <1>1 DEF Busy
<1>3. CASE Current(w) \in Loaded
  <2> DEFINE pc == AfterWrite(Current(w))
  <2>1. Moves(w, [job[w] EXCEPT !.pc = pc, !.gaps = @ \cup gaps])
    BY <1>3 DEF Written
  <2>2. pc \in Busy \ {"generate"} /\ Fit(job[w], pc, job[w].conf)
    BY <1>1, <1>2
  <2> HIDE DEF pc
  <2>3. \E n : JobOk(n) /\ Carried(job[w], pc, job[w].conf, gaps, n) /\ Moves(w, n)
    BY <1>1, <2>1, <2>2, GoesToWith
  <2>4. QED
    BY <1>1, <1>3, <2>3 DEF pc
<1>4. CASE Current(w) \notin Loaded
  <2>1. FinishWith(w, TRUE, gaps)
    BY <1>4 DEF Written
  <2>2. \E n : JobOk(n) /\ Returned(job[w], TRUE, gaps, n) /\ Moves(w, n)
    BY <1>1, <2>1, FinishIs
  <2>3. QED
    BY <1>1, <1>4, <2>2
<1>5. QED
  BY <1>3, <1>4

\* So is keeping the live file.
LEMMA BackupIs ==
  ASSUME ConfType, NEW w \in Workers, Backup(w)
  PROVE  GoesOn(w)
<1> DEFINE t == Current(w)
           c == job[w].conf
<1>1. /\ job[w].pc = "backup" /\ UNCHANGED daemon /\ UNCHANGED <<saves, on>>
      /\ UNCHANGED <<badge, crashed, calls>> /\ JobsOk
  BY DEF Backup, Database, ConfType
<1>2. t = Hand(w) /\ job[w].pc \in Busy /\ Fit(job[w], "write", c)
  BY <1>1, WriteFits
<1> HIDE DEF t, c
<1>3. CASE known' = [known EXCEPT ![t] = Torn] /\ Goto(w, "write") /\ UNCHANGED <<file, past>>
  <2>1. "write" \in Busy \ {"generate"}
    BY DEF Busy
  <2>2. \E n : JobOk(n) /\ Carried(job[w], "write", job[w].conf, {}, n) /\ Moves(w, n)
    BY <1>1, <1>2, <1>3, <2>1, GoesTo DEF c
  <2>3. \E n : JobOk(n) /\ Moves(w, n) /\ Keeps(w, n)
    BY <1>1, <1>2, <1>3, <2>2 DEF Keeps, Quiet
  <2>4. QED
    BY <1>1, <2>3 DEF GoesOn, Goes
<1>4. CASE Put(t, c) /\ Written(w, Gap(w, "no_backup")) /\ UNCHANGED known
  <2> DEFINE gaps == Gap(w, "no_backup")
  <2>1. PICK n : /\ JobOk(n) /\ Moves(w, n)
                 /\ IF Hand(w) \in Loaded
                    THEN Carried(job[w], AfterWrite(Hand(w)), job[w].conf, gaps, n)
                    ELSE Returned(job[w], TRUE, gaps, n)
    BY <1>1, <1>4, WrittenIs
  <2>2. gaps = Gap(w, "no_backup")
    OBVIOUS
  <2> HIDE DEF gaps
  <2>3. Replaces(w, n)
    BY <1>1, <1>2, <1>4, <2>1, <2>2 DEF Replaces, Quiet, c
  <2>4. QED
    BY <1>1, <2>1, <2>3 DEF GoesOn, Goes
<1>5. QED
  BY <1>3, <1>4, Zenon DEF Backup, t, c

\* So is writing it.
LEMMA WriteIs ==
  ASSUME ConfType, NEW w \in Workers, Write(w)
  PROVE  GoesOn(w)
<1> DEFINE t == Current(w)
           c == job[w].conf
<1>1. /\ job[w].pc = "write" /\ UNCHANGED daemon /\ UNCHANGED <<saves, on>>
      /\ UNCHANGED <<badge, crashed, calls>> /\ JobsOk
  BY DEF Write, Database, ConfType
<1>2. t = Hand(w) /\ job[w].pc \in Busy
  BY <1>1, WriteFits
<1> HIDE DEF t, c
<1>3. ASSUME NEW gaps, Put(t, c), Written(w, gaps),
             \/ gaps = {} /\ known' = Kept(t)
             \/ gaps = Gap(w, "no_backup") /\ UNCHANGED known
      PROVE  GoesOn(w)
  <2>1. PICK n : /\ JobOk(n) /\ Moves(w, n)
                 /\ IF Hand(w) \in Loaded
                    THEN Carried(job[w], AfterWrite(Hand(w)), job[w].conf, gaps, n)
                    ELSE Returned(job[w], TRUE, gaps, n)
    BY <1>1, <1>3, WrittenIs
  <2>2. Replaces(w, n)
    BY <1>1, <1>2, <1>3, <2>1 DEF Replaces, Quiet, c
  <2>3. QED
    BY <1>1, <2>1, <2>2 DEF GoesOn, Goes
<1>4. ASSUME NEW gaps, FinishWith(w, FALSE, gaps), known' = Kept(t),
             \/ gaps = {} /\ UNCHANGED <<file, past>>
             \/ /\ gaps = Gap(w, "not_put_back")
                /\ Put(t, [c EXCEPT !.q = "mixed"])
      PROVE  GoesOn(w)
  <2>1. PICK n : JobOk(n) /\ Returned(job[w], FALSE, gaps, n) /\ Moves(w, n)
    BY <1>1, <1>2, <1>4, FinishIs
  <2>2. WriteFails(w, n)
    BY <1>1, <1>2, <1>4, <2>1 DEF WriteFails, Quiet, c
  <2>3. QED
    BY <1>1, <2>1, <2>2 DEF GoesOn, Goes
<1>5. \/ Put(t, c) /\ known' = Kept(t) /\ Written(w, {})
      \/ Put(t, c) /\ Written(w, Gap(w, "no_backup")) /\ UNCHANGED known
      \/ known' = Kept(t) /\ Finish(w, FALSE) /\ UNCHANGED <<file, past>>
      \/ /\ known' = Kept(t) /\ Put(t, [c EXCEPT !.q = "mixed"])
         /\ FinishWith(w, FALSE, Gap(w, "not_put_back"))
  BY Zenon DEF Write, t, c
<1>6. CASE Put(t, c) /\ known' = Kept(t) /\ Written(w, {})
  BY <1>3, <1>6
<1>7. CASE Put(t, c) /\ Written(w, Gap(w, "no_backup")) /\ UNCHANGED known
  <2> DEFINE gaps == Gap(w, "no_backup")
  <2>1. gaps = Gap(w, "no_backup")
    OBVIOUS
  <2> HIDE DEF gaps
  <2>2. Written(w, gaps)
    BY <1>7, <2>1, Zenon
  <2>3. QED
    BY <1>3, <1>7, <2>1, <2>2
<1>8. CASE known' = Kept(t) /\ Finish(w, FALSE) /\ UNCHANGED <<file, past>>
  <2>1. FinishWith(w, FALSE, {})
    BY <1>8 DEF Finish
  <2>2. QED
    BY <1>4, <1>8, <2>1
<1>9. CASE /\ known' = Kept(t) /\ Put(t, [c EXCEPT !.q = "mixed"])
           /\ FinishWith(w, FALSE, Gap(w, "not_put_back"))
  <2> DEFINE gaps == Gap(w, "not_put_back")
  <2>1. gaps = Gap(w, "not_put_back")
    OBVIOUS
  <2> HIDE DEF gaps
  <2>2. FinishWith(w, FALSE, gaps)
    BY <1>9, <2>1, Zenon
  <2>3. QED
    BY <1>4, <1>9, <2>1, <2>2
<1>10. QED
  BY <1>5, <1>6, <1>7, <1>8, <1>9, Zenon

\* So is writing the companion file.
LEMMA CompanionIs ==
  ASSUME ConfType, NEW w \in Workers, WriteL2tpIpsec(w)
  PROVE  GoesOn(w)
<1>1. /\ job[w].pc = "companion" /\ job[w].pc \in Busy /\ JobsOk
      /\ UNCHANGED known /\ UNCHANGED <<saves, on>> /\ UNCHANGED <<badge, crashed, calls>>
  BY DEF WriteL2tpIpsec, Busy, Database, ConfType
<1>2. Fit(job[w], "load", job[w].conf) /\ "load" \in Busy \ {"generate"}
  BY DEF Fit, Busy
<1>3. CASE /\ Put("ipsec", job[w].conf) /\ Goto(w, "load")
           /\ daemon' = [daemon EXCEPT !["ipsec"] = IF @ = Down THEN Down ELSE job[w].conf]
  <2>1. PICK n : JobOk(n) /\ Carried(job[w], "load", job[w].conf, {}, n) /\ Moves(w, n)
    BY <1>1, <1>2, <1>3, GoesTo
  <2>2. Shares(w, n)
    BY <1>1, <1>3, <2>1 DEF Shares
  <2>3. QED
    BY <1>1, <2>1, <2>2 DEF GoesOn, Goes
<1>4. CASE /\ \/ UNCHANGED <<file, past>>
              \/ Put("ipsec", [job[w].conf EXCEPT !.q = "mixed"])
              \/ Put("ipsec", job[w].conf)
           /\ Moves(w, [job[w] EXCEPT !.pc = "load", !.gaps = @ \cup Gap(w, "ignored")])
           /\ UNCHANGED daemon
  <2>1. PICK n : /\ JobOk(n) /\ Moves(w, n)
                 /\ Carried(job[w], "load", job[w].conf, Gap(w, "ignored"), n)
    <3> DEFINE gaps == Gap(w, "ignored")
    <3>1. Moves(w, [job[w] EXCEPT !.pc = "load", !.gaps = @ \cup gaps])
      BY <1>4
    <3> HIDE DEF gaps
    <3>2. \E n : JobOk(n) /\ Carried(job[w], "load", job[w].conf, gaps, n) /\ Moves(w, n)
      BY <1>1, <1>2, <3>1, GoesToWith
    <3>3. QED
      BY <3>2, Zenon DEF gaps
  <2>2. Shares(w, n)
    BY <1>1, <1>4, <2>1 DEF Shares
  <2>3. QED
    BY <1>1, <2>1, <2>2 DEF GoesOn, Goes
<1>5. QED
  BY <1>3, <1>4, Zenon DEF WriteL2tpIpsec

\* What a service is given to load.
LEMMA IncomingIs ==
  ASSUME ConfType, NEW w \in Workers, job[w].pc = "load"
  PROVE  Incoming(w) \in Contents /\ Residue(Current(w), Incoming(w)) \in Contents
<1> DEFINE t == Current(w)
           c == Incoming(w)
<1>1. job[w].pc \in Busy /\ JobsOk /\ DaemonOk /\ DiskOk
  BY DEF Busy, ConfType
<1>2. t \in Targets /\ JobOk(job[w])
  BY <1>1, AtHand
<1>3. c \in Contents
  <2>1. CASE How[t].file
    BY <1>1, <1>2, <2>1 DEF Incoming, DiskOk, Filed
  <2>2. CASE ~How[t].file
    BY <1>2, <2>2 DEF Incoming, JobOk
  <2>3. QED
    BY <2>1, <2>2
<1> HIDE DEF t, c
<1>4. CASE How[t].load = "add"
  <2>1. t \in Steady
    BY <1>2, <1>4, TargetsAre, HowIs DEF Has, Steady
  <2>2. daemon[t] \in Contents
    BY <1>1, <2>1 DEF DaemonOk
  <2>3. c.of \cup daemon[t].of \in SUBSET SaveIds
    BY <1>3, <2>2 DEF Contents
  <2>4. Residue(t, c) = [c EXCEPT !.of = c.of \cup daemon[t].of]
    BY <1>4 DEF Residue
  <2>5. Residue(t, c) \in Contents
    BY <1>3, <2>3, <2>4 DEF Contents
  <2>6. QED
    BY <1>3, <2>5 DEF t, c
<1>5. CASE How[t].load # "add"
  BY <1>3, <1>5 DEF Residue, t, c
<1>6. QED
  BY <1>4, <1>5

\* What a service is left with after a failure.
LEMMA AfterFailureIs ==
  ASSUME DaemonOk, NEW t \in Targets, NEW c \in Contents, NEW d \in AfterFailure(t, c)
  PROVE  Remains(t, d)
<1>1. daemon[t] \in Contents \/ (daemon[t] = Down /\ t \notin Steady)
  BY DEF DaemonOk
<1>2. How[t].load \in {"restart", "reload"} => t \notin Steady
  BY HowIs DEF Has, Steady
<1>3. t = "pppoe" => How[t].load = "restart"
  BY HowIs DEF Has
<1>4. QED
  BY <1>1, <1>2, <1>3 DEF AfterFailure, Remains

\* The same when the new file stays.
LEMMA AfterKeepingIs ==
  ASSUME DaemonOk, NEW t \in Targets, NEW c \in Contents, Residue(t, c) \in Contents,
         NEW d \in AfterKeeping(t, c)
  PROVE  Remains(t, d) /\ How[t].undo # "none"
<1>1. How[t].undo # "none"
  BY WriterFields DEF AfterKeeping
<1>2. t # "pppoe"
  BY <1>1, HowIs DEF Has
<1>3. daemon[t] \in Contents \/ (daemon[t] = Down /\ t \notin Steady)
  BY DEF DaemonOk
<1>4. How[t].keeps = "stopped" => t \notin Steady
  BY HowAlso, SMTT(60) DEF Also, Steady
<1>5. QED
  BY <1>1, <1>2, <1>3, <1>4, AfterFailureIs DEF AfterKeeping, Remains

\* A load that failed: the end of the writer, or its undo.
LEMMA FailedIs ==
  ASSUME JobsOk, NEW w \in Workers, job[w].pc = "load", Failed(w)
  PROVE  \E n : /\ JobOk(n) /\ Moves(w, n)
                /\ \/ How[Hand(w)].undo = "none" /\ Returned(job[w], FALSE, {}, n)
                   \/ /\ How[Hand(w)].undo # "none"
                      /\ Carried(job[w], "undo", job[w].conf, {}, n)
<1>1. job[w].pc \in Busy
  BY DEF Busy
<1>2. /\ Current(w) = Hand(w) /\ Hand(w) = Head(job[w].todo).t /\ Hand(w) \in Targets
      /\ How[Hand(w)].file => Hand(w) \in Filed
  BY <1>1, AtHand DEF Hand
<1>3. CASE How[Hand(w)].undo = "none"
  <2>1. FinishWith(w, FALSE, {})
    BY <1>2, <1>3 DEF Failed, Finish
  <2>2. QED
    BY <1>1, <1>3, <2>1, FinishIs
<1>4. CASE How[Hand(w)].undo # "none"
  <2>1. Hand(w) \in Filed
    BY <1>2, <1>4, WriterFields
  <2>2. Fit(job[w], "undo", job[w].conf) /\ "undo" \in Busy \ {"generate"}
    BY <1>2, <1>4, <2>1 DEF Fit, Busy
  <2>3. Goto(w, "undo")
    BY <1>2, <1>4 DEF Failed
  <2>4. QED
    BY <1>1, <1>4, <2>2, <2>3, GoesTo
<1>5. QED
  BY <1>3, <1>4

\* So is loading it.
LEMMA LoadIs ==
  ASSUME ConfType, NEW w \in Workers, Load(w)
  PROVE  GoesOn(w)
<1> DEFINE t == Current(w)
           c == Incoming(w)
<1>1. /\ job[w].pc = "load" /\ job[w].pc \in Busy /\ JobsOk /\ DaemonOk
      /\ UNCHANGED Disk /\ UNCHANGED <<saves, on>> /\ UNCHANGED <<badge, crashed, calls>>
  BY DEF Load, Busy, Database, ConfType
<1>2. t = Hand(w) /\ t \in Targets /\ JobOk(job[w])
  BY <1>1, AtHand
<1>3. c \in Contents /\ Residue(t, c) \in Contents
  BY <1>1, IncomingIs
<1>4. daemon \in [Targets -> Contents \cup {Down}]
  BY <1>1 DEF DaemonOk
<1> HIDE DEF t, c
<1>5. CASE /\ StopsLast(t) /\ daemon' = [daemon EXCEPT ![t] = Down] /\ Finish(w, TRUE)
  <2>1. PICK n : JobOk(n) /\ Returned(job[w], TRUE, {}, n) /\ Moves(w, n)
    BY <1>1, <1>5, FinishIs DEF Finish
  <2>2. How[t].off = "stop_after" /\ ~IsOn(t)
    BY <1>5 DEF StopsLast
  <2>3. Settles(w, n)
    BY <1>1, <1>2, <1>5, <2>1, <2>2 DEF Settles
  <2>4. QED
    BY <1>1, <2>1, <2>3 DEF GoesOn, Goes
<1>6. ASSUME NEW d, Remains(t, d), daemon' = [daemon EXCEPT ![t] = d], Failed(w)
      PROVE  GoesOn(w)
  <2>1. PICK n : /\ JobOk(n) /\ Moves(w, n)
                 /\ \/ How[Hand(w)].undo = "none" /\ Returned(job[w], FALSE, {}, n)
                    \/ /\ How[Hand(w)].undo # "none"
                       /\ Carried(job[w], "undo", job[w].conf, {}, n)
    BY <1>1, <1>6, FailedIs
  <2>2. LoadFails(w, n)
    BY <1>1, <1>2, <1>6, <2>1 DEF LoadFails
  <2>3. QED
    BY <1>1, <2>1, <2>2 DEF GoesOn, Goes
<1>7. CASE StopsLast(t) /\ Failed(w) /\ UNCHANGED daemon
  <2>1. daemon' = [daemon EXCEPT ![t] = daemon[t]]
    BY <1>2, <1>4, <1>7
  <2>2. How[t].off = "stop_after"
    BY <1>7 DEF StopsLast
  <2>3. t # "pppoe"
    BY <2>2, HowIs DEF Has
  <2>4. Remains(t, daemon[t])
    BY <1>1, <1>2, <2>3 DEF Remains, DaemonOk
  <2>5. QED
    BY <1>6, <1>7, <2>1, <2>4
<1>8. CASE /\ ~StopsLast(t) /\ daemon' = [daemon EXCEPT ![t] = Residue(t, c)]
           /\ Finish(w, TRUE)
  <2>1. PICK n : JobOk(n) /\ Returned(job[w], TRUE, {}, n) /\ Moves(w, n)
    BY <1>1, <1>8, FinishIs DEF Finish
  <2>2. How[t].off = "stop_after" => IsOn(t)
    BY <1>8 DEF StopsLast
  <2>3. Serves(w, n)
    BY <1>1, <1>2, <1>8, <2>1, <2>2 DEF Serves, c
  <2>4. QED
    BY <1>1, <2>1, <2>3 DEF GoesOn, Goes
<1>9. CASE (\E d \in AfterFailure(t, c) : daemon' = [daemon EXCEPT ![t] = d]) /\ Failed(w)
  BY <1>1, <1>2, <1>3, <1>6, <1>9, AfterFailureIs
<1>10. CASE /\ \E d \in AfterKeeping(t, c) : daemon' = [daemon EXCEPT ![t] = d]
            /\ FinishWith(w, FALSE, Gap(w, "not_put_back"))
  <2>1. PICK d \in AfterKeeping(t, c) : daemon' = [daemon EXCEPT ![t] = d]
    BY <1>10
  <2>2. Remains(t, d) /\ How[t].undo # "none"
    BY <1>1, <1>2, <1>3, AfterKeepingIs
  <2>3. PICK n : /\ JobOk(n) /\ Moves(w, n)
                 /\ Returned(job[w], FALSE, Gap(w, "not_put_back"), n)
    BY <1>1, <1>10, FinishIs
  <2>4. LoadFails(w, n)
    BY <1>1, <1>2, <2>1, <2>2, <2>3 DEF LoadFails
  <2>5. QED
    BY <1>1, <2>3, <2>4 DEF GoesOn, Goes
<1>11. CASE How[t].load = "address" /\ daemon' = [daemon EXCEPT ![t] = c] /\ GiveUp(w)
  <2>1. t \in {"lan", "wan"} /\ How[t].file = FALSE
    BY <1>2, <1>11, WriterFields
  <2>2. c = job[w].conf
    BY <2>1 DEF Incoming, t, c
  <2>3. PICK n : JobOk(n) /\ Moves(w, n) /\ GivenUp(job[w], n)
    BY <1>1, <1>2, <1>11, <2>1, GiveUpIs
  <2>4. GivesUp(w, n)
    BY <1>1, <1>2, <1>11, <2>1, <2>2, <2>3 DEF GivesUp
  <2>5. QED
    BY <1>1, <2>3, <2>4 DEF GoesOn, Goes
<1>12. QED
  BY <1>5, <1>7, <1>8, <1>9, <1>10, <1>11, Zenon DEF Load, t, c

\* So are putting the backup back, all of it or the rest, and reloading from it.
LEMMA UndoIs ==
  ASSUME ConfType, NEW w \in Workers, Undo(w) \/ Refill(w) \/ ReloadBack(w)
  PROVE  GoesOn(w)
<1>1. /\ JobsOk /\ job[w].pc \in {"undo", "refill", "reload"} /\ job[w].pc \in Busy
      /\ UNCHANGED <<saves, on>> /\ UNCHANGED <<badge, crashed, calls>>
  BY DEF Undo, Refill, ReloadBack, Busy, Database, ConfType
<1>2. /\ Current(w) = Hand(w) /\ Hand(w) \in Filed /\ Hand(w) = Head(job[w].todo).t
      /\ How[Hand(w)].undo # "none" /\ Hand(w) \in Targets
  BY <1>1, AtHand DEF Hand, JobOk
<1>3. ASSUME NEW ok \in {"refill", "reload"}
      PROVE  Fit(job[w], ok, job[w].conf) /\ ok \in Busy \ {"generate"}
  BY <1>2 DEF Fit, Busy
<1>4. ASSUME PutBack(w), UNCHANGED <<known, past, daemon>>, known[Hand(w)] # NoFile,
             job[w].pc \in {"undo", "refill"}
      PROVE  GoesOn(w)
  <2>1. file' = [file EXCEPT ![Hand(w)] = known[Hand(w)]] /\ (Goto(w, "reload") \/ Finish(w, FALSE))
    BY <1>2, <1>4, Zenon DEF PutBack
  <2>2. PICK n : /\ JobOk(n) /\ Moves(w, n)
                 /\ \/ Carried(job[w], "reload", job[w].conf, {}, n)
                    \/ Returned(job[w], FALSE, {}, n)
    BY <1>1, <1>3, <2>1, GoesTo, FinishIs DEF Finish
  <2>3. Restores(w, n)
    BY <1>1, <1>4, <2>1, <2>2 DEF Restores, Quiet
  <2>4. QED
    BY <1>1, <2>2, <2>3 DEF GoesOn, Goes
<1>5. ASSUME RollbackFails(w), UNCHANGED <<known, past, daemon>>,
             job[w].pc \in {"undo", "refill"}
      PROVE  GoesOn(w)
  <2>1. PICK n : /\ JobOk(n) /\ Moves(w, n)
                 /\ Returned(job[w], FALSE, Gap(w, "rollback_failed"), n)
    BY <1>1, <1>5, FinishIs DEF RollbackFails
  <2>2. RollbackStops(w, n)
    BY <1>1, <1>5, <2>1 DEF RollbackStops, Quiet, Disk, RollbackFails
  <2>3. QED
    BY <1>1, <2>1, <2>2 DEF GoesOn, Goes
<1>6. CASE Undo(w)
  <2>1. job[w].pc = "undo" /\ UNCHANGED <<known, past, daemon>>
    BY <1>6 DEF Undo
  <2>2. CASE known[Hand(w)] = NoFile /\ Finish(w, FALSE) /\ UNCHANGED file
    <3>1. PICK n : JobOk(n) /\ Moves(w, n) /\ Returned(job[w], FALSE, {}, n)
      BY <1>1, <2>2, FinishIs DEF Finish
    <3>2. UndoesNothing(w, n)
      BY <1>1, <2>1, <2>2, <3>1 DEF UndoesNothing, Quiet, Disk
    <3>3. QED
      BY <1>1, <3>1, <3>2 DEF GoesOn, Goes
  <2>3. CASE /\ known[Hand(w)] # NoFile /\ Goto(w, "refill")
             /\ file' = [file EXCEPT ![Hand(w)] = Torn]
    <3>1. PICK n : JobOk(n) /\ Carried(job[w], "refill", job[w].conf, {}, n) /\ Moves(w, n)
      BY <1>1, <1>3, <2>3, GoesTo
    <3>2. Truncates(w, n)
      BY <1>1, <2>1, <2>3, <3>1 DEF Truncates, Quiet
    <3>3. QED
      BY <1>1, <3>1, <3>2 DEF GoesOn, Goes
  <2>4. CASE known[Hand(w)] # NoFile /\ PutBack(w)
    BY <1>4, <2>1, <2>4
  <2>5. CASE RollbackFails(w)
    BY <1>5, <2>1, <2>5
  <2>6. QED
    BY <1>2, <1>6, <2>2, <2>3, <2>4, <2>5, Zenon DEF Undo
<1>7. CASE Refill(w)
  <2>1. job[w].pc = "refill" /\ UNCHANGED <<known, past, daemon>>
    BY <1>7 DEF Refill
  <2>2. known[Hand(w)] # NoFile
    BY <1>2, <2>1 DEF ConfType, RefillsOk
  <2>3. QED
    BY <1>4, <1>5, <1>7, <2>1, <2>2 DEF Refill
<1>8. CASE ReloadBack(w)
  <2>1. job[w].pc = "reload" /\ FinishWith(w, FALSE, {}) /\ UNCHANGED Disk
    BY <1>8 DEF ReloadBack, Finish
  <2>2. \E d : /\ d \in Contents \/ (d = Down /\ Hand(w) \notin Steady)
               /\ daemon' = [daemon EXCEPT ![Hand(w)] = d]
    <3> DEFINE c == file[Hand(w)]
    <3>1. c \in Contents /\ DaemonOk
      BY <1>2 DEF ConfType, DiskOk
    <3>2. \/ daemon' = [daemon EXCEPT ![Hand(w)] = c]
          \/ \E d \in AfterFailure(Hand(w), c) : daemon' = [daemon EXCEPT ![Hand(w)] = d]
      BY <1>2, <1>8, Zenon DEF ReloadBack
    <3> HIDE DEF c
    <3>3. QED
      BY <1>2, <3>1, <3>2, AfterFailureIs DEF Remains
  <2>3. PICK n : JobOk(n) /\ Moves(w, n) /\ Returned(job[w], FALSE, {}, n)
    BY <1>1, <2>1, FinishIs
  <2>4. TakesBack(w, n)
    BY <1>1, <2>1, <2>2, <2>3 DEF TakesBack
  <2>5. QED
    BY <1>1, <2>3, <2>4 DEF GoesOn, Goes
<1>9. QED
  BY <1>6, <1>7, <1>8

\* So is the revert.
LEMMA RevertIs ==
  ASSUME ConfType, NEW w \in Workers, Revert(w)
  PROVE  GoesOn(w)
<1> DEFINE j == job[w]
<1>1. /\ j.pc = "revert" /\ UNCHANGED Disk /\ UNCHANGED daemon
      /\ UNCHANGED <<badge, crashed, calls>>
  BY DEF Revert
<1>2. JobOk(j) /\ j.todo = <<>>
  BY <1>1 DEF ConfType, JobsOk, JobOk, Busy
<1>3. ASSUME NEW gaps, NEW n, n = [j EXCEPT !.pc = "done", !.gaps = @ \cup gaps]
      PROVE  JobOk(n) /\ Ended(j, gaps, n)
  <2>1. /\ n.pc = "done" /\ n.todo = j.todo /\ n.conf = j.conf /\ n.did = j.did
        /\ n.failed = j.failed /\ n.clean = j.clean /\ DOMAIN n = JobFields
        /\ n.call = j.call /\ n.save = j.save /\ n.gaps = j.gaps \cup gaps
    BY <1>2, <1>3 DEF JobOk, JobFields
  <2> HIDE DEF j
  <2>2. JobOk(n)
    BY <1>2, <2>1 DEF JobOk, Busy
  <2>3. Ended(j, gaps, n)
    BY <1>2, <2>1 DEF Ended
  <2>4. QED
    BY <2>2, <2>3
<1>4. CASE /\ j.call = "save_wan" /\ saves' = [saves EXCEPT ![j.save].gone = TRUE]
           /\ on' \in {on, on \ {"pppoe"}} /\ Goto(w, "done")
  <2> DEFINE n == [j EXCEPT !.pc = "done"]
  <2>1. Moves(w, n)
    BY <1>4 DEF Goto
  <2>2. /\ n.pc = "done" /\ n.todo = j.todo /\ n.conf = j.conf /\ n.did = j.did
        /\ n.failed = j.failed /\ n.clean = j.clean /\ DOMAIN n = JobFields
        /\ n.call = j.call /\ n.save = j.save /\ n.gaps = j.gaps
    BY <1>2 DEF JobOk, JobFields
  <2> HIDE DEF n
  <2>3. JobOk(n)
    BY <1>2, <2>2 DEF JobOk, Busy
  <2>4. Ended(j, {}, n)
    BY <1>2, <2>2 DEF Ended
  <2>5. PutsRowBack(w, n)
    BY <1>1, <1>4, <2>4 DEF PutsRowBack
  <2>6. QED
    BY <1>1, <2>1, <2>3, <2>5 DEF GoesOn, Goes
<1>5. CASE /\ j.call = "save_wan" /\ UNCHANGED <<saves, on>>
           /\ Moves(w, [j EXCEPT !.pc = "done", !.gaps = @ \cup {<<"pppoe", "row_kept">>}])
  <2> DEFINE g == {<<"pppoe", "row_kept">>}
             n == [j EXCEPT !.pc = "done", !.gaps = @ \cup g]
  <2>1. Moves(w, n)
    BY <1>5
  <2>2. JobOk(n) /\ Ended(j, g, n)
    BY <1>3
  <2> HIDE DEF n
  <2>3. RowStays(w, n)
    BY <1>1, <1>5, <2>2 DEF RowStays, Quiet
  <2>4. QED
    BY <1>1, <2>1, <2>2, <2>3 DEF GoesOn, Goes
<1>6. CASE /\ j.call # "save_wan" /\ saves' = WithoutSocVip(saves) /\ UNCHANGED on
           /\ Moves(w, [j EXCEPT !.pc = "generate", !.save = 0, !.todo = <<Try("vips")>>])
  <2> DEFINE s == <<Try("vips")>>
             n == [j EXCEPT !.pc = "generate", !.save = 0, !.todo = s]
  <2>1. /\ n.pc = "generate" /\ n.todo = s /\ n.conf = j.conf /\ n.did = j.did
        /\ n.failed = j.failed /\ n.clean = j.clean /\ DOMAIN n = JobFields
        /\ n.call = j.call /\ n.save = 0 /\ n.gaps = j.gaps
    BY <1>2 DEF JobOk, JobFields
  <2>2. Moves(w, n)
    BY <1>6
  <2>3. "vips" \in Targets
    BY TargetsAre
  <2>4. s \in Seq(Entry) /\ s # <<>> /\ Once(s) /\ Followed(s)
    BY <2>3, Entries, List1 DEF List
  <2>5. Left(s) = {"vips"}
    BY <2>3, Entries DEF Left
  <2>6. s = <<Try("vips")>>
    OBVIOUS
  <2> HIDE DEF n, s
  <2>7. JobOk(n)
    BY <1>2, <2>1, <2>4, <2>5 DEF JobOk, Busy
  <2>8. DeletesVip(w, n)
    BY <1>1, <1>6, <2>1, <2>6 DEF DeletesVip
  <2>9. QED
    BY <1>1, <2>2, <2>7, <2>8 DEF GoesOn, Goes
<1>7. QED
  BY <1>4, <1>5, <1>6, Zenon DEF Revert

\* A step of a request goes on with it or ends it.
LEMMA StepIs ==
  ASSUME ConfType, NEW w \in Workers, Step(w)
  PROVE  GoesOn(w) \/ Return(w) \/ Crash(w)
BY GenerateIs, BackupIs, WriteIs, CompanionIs, LoadIs, UndoIs, RevertIs DEF Step

\* Rows can be marked as gone, and nothing else.
LEMMA RowsGone ==
  ASSUME NEW s \in Seq(RowType), NEW r, DOMAIN r = DOMAIN s, r = [k \in DOMAIN s |-> r[k]],
         \A k \in DOMAIN s : r[k] \in {s[k], [s[k] EXCEPT !.gone = TRUE]}
  PROVE  r \in Seq(RowType) /\ Len(r) = Len(s)
<1>1. Len(s) \in Nat /\ DOMAIN s = 1..Len(s)
  BY LenProperties
<1>2. ASSUME NEW k \in 1..Len(s) PROVE r[k] \in RowType
  <2>1. s[k] \in RowType
    BY ElementOfSeq
  <2>2. [s[k] EXCEPT !.gone = TRUE] \in RowType
    BY <2>1 DEF RowType
  <2>3. QED
    BY <1>1, <2>1, <2>2
<1>3. r \in [1..Len(s) -> RowType]
  BY <1>1, <1>2
<1>4. r \in Seq(RowType)
  BY <1>1, <1>3, SeqDef
<1>5. Len(r) \in Nat /\ DOMAIN r = 1..Len(r)
  BY <1>4, LenProperties
<1>6. Len(r) = Len(s)
  BY <1>1, <1>5
<1>7. QED
  BY <1>4, <1>6

\* The rows after a revert.
LEMMA RevertRows ==
  ASSUME SavesOk, NEW k0,
         saves' \in {WithoutSocVip(saves), [saves EXCEPT ![k0].gone = TRUE]}
  PROVE  /\ saves' \in Seq(RowType) /\ Len(saves') = Len(saves) /\ DOMAIN saves' = DOMAIN saves
         /\ \A k \in DOMAIN saves : saves'[k] \in {saves[k], [saves[k] EXCEPT !.gone = TRUE]}
<1>1. saves \in Seq(RowType)
  BY DEF SavesOk
<1>2. /\ DOMAIN saves' = DOMAIN saves /\ saves' = [k \in DOMAIN saves |-> saves'[k]]
      /\ \A k \in DOMAIN saves : saves'[k] \in {saves[k], [saves[k] EXCEPT !.gone = TRUE]}
  <2>1. CASE saves' = WithoutSocVip(saves)
    BY <2>1 DEF WithoutSocVip
  <2>2. CASE saves' = [saves EXCEPT ![k0].gone = TRUE]
    BY <2>2
  <2>3. QED
    BY <2>1, <2>2
<1>3. QED
  BY <1>1, <1>2, RowsGone

\* The text at hand, as a whole or with only some of its files replaced.
LEMMA MixedIs ==
  ASSUME NEW c \in Contents, c.q \in Entered
  PROVE  /\ c.q # "torn"
         /\ [c EXCEPT !.q = "mixed"] \in Contents /\ [c EXCEPT !.q = "mixed"].q = "mixed"
<1>1. "mixed" \in Qualities /\ "torn" \notin Entered
  BY DEF Qualities, Entered
<1>2. QED
  BY <1>1 DEF Contents

\* What a step of a request does to the files.
LEMMA GoesDisk ==
  ASSUME ConfType, NEW w \in Workers, NEW n, Goes(w, n)
  PROVE  DiskStep
<1>1. JobsOk /\ DiskOk
  BY DEF ConfType
<1>2. ASSUME NEW t \in Filed, NEW c \in Contents, Put(t, c), c.q # "torn",
             t \in Checked => c.q # "refused",
             known' \in {known, [known EXCEPT ![t] = file[t]]}
      PROVE  DiskStep
  BY <1>2 DEF DiskStep
<1>3. \A t : Kept(t) \in {known, [known EXCEPT ![t] = file[t]]}
  BY DEF Kept
<1>4. CASE UNCHANGED Disk
  BY <1>4 DEF Disk, DiskStep
<1>5. CASE Keeps(w, n)
  <2>1. Hand(w) \in Filed
    BY <1>1, <1>5, WriteFits DEF Keeps
  <2>2. known' = [known EXCEPT ![Hand(w)] = Torn] /\ UNCHANGED <<file, past>>
    BY <1>5 DEF Keeps
  <2>3. QED
    BY <2>1, <2>2 DEF DiskStep
<1>6. CASE Replaces(w, n)
  <2>1. job[w].pc \in {"backup", "write"}
    BY <1>6 DEF Replaces
  <2>2. /\ Hand(w) \in Filed /\ job[w].conf \in Contents /\ job[w].conf.q \in Entered
        /\ Hand(w) \in Checked => job[w].conf.q # "refused"
    BY <1>1, <2>1, WriteFits
  <2>3. Put(Hand(w), job[w].conf) /\ known' \in {known, Kept(Hand(w))}
    BY <1>6 DEF Replaces
  <2>4. known' \in {known, [known EXCEPT ![Hand(w)] = file[Hand(w)]]}
    BY <1>3, <2>3
  <2>5. QED
    BY <1>2, <2>2, <2>3, <2>4, MixedIs
<1>7. CASE WriteFails(w, n)
  <2>1. job[w].pc = "write" /\ known' = Kept(Hand(w))
    BY <1>7 DEF WriteFails
  <2>2. Hand(w) \in Filed /\ job[w].conf \in Contents /\ job[w].conf.q \in Entered
    BY <1>1, <2>1, WriteFits
  <2>3. known' \in {known, [known EXCEPT ![Hand(w)] = file[Hand(w)]]}
    BY <1>3, <2>1
  <2>4. CASE UNCHANGED <<file, past>>
    BY <2>2, <2>3, <2>4 DEF DiskStep
  <2>5. CASE Put(Hand(w), [job[w].conf EXCEPT !.q = "mixed"])
    <3> DEFINE c == [job[w].conf EXCEPT !.q = "mixed"]
    <3>1. c \in Contents /\ c.q = "mixed" /\ Put(Hand(w), c)
      BY <2>2, <2>5, MixedIs
    <3> HIDE DEF c
    <3>2. QED
      BY <1>2, <2>2, <2>3, <3>1
  <2>6. QED
    BY <1>7, <2>4, <2>5 DEF WriteFails
<1>8. CASE Shares(w, n)
  <2>1. job[w].pc = "companion" /\ UNCHANGED known /\ "ipsec" \in Filed
    BY <1>8, FiledIs DEF Shares
  <2>2. job[w].conf \in Contents /\ job[w].conf.q \in Entered /\ job[w].conf.q # "refused"
    BY <1>1, <2>1 DEF JobsOk, JobOk
  <2> DEFINE c == [job[w].conf EXCEPT !.q = "mixed"]
  <2>3. c \in Contents /\ c.q = "mixed"
    BY <2>2, MixedIs
  <2>4. UNCHANGED <<file, past>> \/ Put("ipsec", c) \/ Put("ipsec", job[w].conf)
    BY <1>8 DEF Shares
  <2> HIDE DEF c
  <2>5. CASE UNCHANGED <<file, past>>
    BY <2>1, <2>5 DEF DiskStep
  <2>6. CASE Put("ipsec", c)
    BY <1>2, <2>1, <2>3, <2>6
  <2>7. CASE Put("ipsec", job[w].conf)
    BY <1>2, <2>1, <2>2, <2>7, MixedIs
  <2>8. QED
    BY <2>4, <2>5, <2>6, <2>7
<1>9. CASE Truncates(w, n) \/ Restores(w, n)
  <2>1. /\ job[w].pc \in {"undo", "refill"} /\ known[Hand(w)] # NoFile
        /\ file' \in {[file EXCEPT ![Hand(w)] = known[Hand(w)]], [file EXCEPT ![Hand(w)] = Torn]}
        /\ UNCHANGED <<known, past>>
    BY <1>9 DEF Truncates, Restores
  <2>2. Hand(w) \in Filed
    BY <1>1, <2>1 DEF JobsOk, JobOk, Hand
  <2>3. QED
    BY <2>1, <2>2 DEF DiskStep
<1>10. QED
  BY <1>4, <1>5, <1>6, <1>7, <1>8, <1>9
     DEF Goes, Skips, Settles, Refuses, Accepts, Serves, LoadFails, GivesUp, UndoesNothing,
         RollbackStops, TakesBack, PutsRowBack, RowStays, DeletesVip

\* What it does to the services.
LEMMA GoesDaemon ==
  ASSUME ConfType, NEW w \in Workers, NEW n, Goes(w, n)
  PROVE  DaemonOk'
<1>1. JobsOk /\ DiskOk /\ DaemonOk
  BY DEF ConfType
<1>2. CASE UNCHANGED daemon
  BY <1>1, <1>2 DEF DaemonOk
<1>3. ASSUME job[w].pc \in {"generate", "load", "reload"}
      PROVE  Hand(w) \in Targets /\ Hand(w) = Current(w) /\ JobOk(job[w])
  BY <1>1, <1>3, AtHand DEF Busy
<1>4. CASE Settles(w, n)
  <2>1. /\ job[w].pc \in {"generate", "load"} /\ How[Hand(w)].off \in {"stop", "stop_after"}
        /\ daemon' = [daemon EXCEPT ![Hand(w)] = Down] \/ UNCHANGED daemon
    BY <1>4 DEF Settles
  <2>2. Hand(w) \notin Steady
    BY <2>1, HowIs DEF Has, Steady
  <2>3. QED
    BY <1>1, <1>2, <1>3, <2>1, <2>2, DaemonSet
<1>5. CASE Shares(w, n)
  <2>1. job[w].conf \in Contents /\ "ipsec" \in Targets /\ "ipsec" \notin Steady
    BY <1>1, TargetsAre DEF JobsOk, JobOk, Steady
  <2>2. CASE daemon' = [daemon EXCEPT !["ipsec"] = IF @ = Down THEN Down ELSE job[w].conf]
    <3> DEFINE d == IF daemon["ipsec"] = Down THEN Down ELSE job[w].conf
    <3>1. d \in Contents \cup {Down} /\ daemon' = [daemon EXCEPT !["ipsec"] = d]
      BY <2>1, <2>2
    <3> HIDE DEF d
    <3>2. QED
      BY <1>1, <2>1, <3>1, DaemonSet
  <2>3. QED
    BY <1>2, <1>5, <2>2 DEF Shares
<1>6. CASE Serves(w, n)
  <2>1. /\ job[w].pc = "load"
        /\ daemon' = [daemon EXCEPT ![Hand(w)] = Residue(Hand(w), Incoming(w))]
    BY <1>6 DEF Serves
  <2>2. Residue(Hand(w), Incoming(w)) \in Contents /\ Hand(w) \in Targets
    BY <1>3, <2>1, IncomingIs
  <2>3. Residue(Hand(w), Incoming(w)) # Down
    BY <2>2, MarkerAssumption
  <2>4. QED
    BY <1>1, <2>1, <2>2, <2>3, DaemonSet
<1>7. CASE LoadFails(w, n)
  <2>1. PICK d : Remains(Hand(w), d) /\ daemon' = [daemon EXCEPT ![Hand(w)] = d]
    BY <1>7 DEF LoadFails
  <2>2. Hand(w) \in Targets
    BY <1>3, <1>7 DEF LoadFails
  <2>3. d \in Contents \cup {Down} /\ (d = Down => Hand(w) \notin Steady)
    BY <2>1, MarkerAssumption DEF Remains
  <2>4. QED
    BY <1>1, <2>1, <2>2, <2>3, DaemonSet
<1>8. CASE GivesUp(w, n)
  <2>1. /\ job[w].pc = "load" /\ daemon' = [daemon EXCEPT ![Hand(w)] = job[w].conf]
    BY <1>8 DEF GivesUp
  <2>2. Hand(w) \in Targets /\ job[w].conf \in Contents
    BY <1>3, <2>1 DEF JobOk
  <2>3. job[w].conf # Down
    BY <2>2, MarkerAssumption
  <2>4. QED
    BY <1>1, <2>1, <2>2, <2>3, DaemonSet
<1>9. CASE TakesBack(w, n)
  <2>1. PICK d : /\ d \in Contents \/ (d = Down /\ Hand(w) \notin Steady)
                 /\ daemon' = [daemon EXCEPT ![Hand(w)] = d]
    BY <1>9 DEF TakesBack
  <2>2. Hand(w) \in Targets
    BY <1>3, <1>9 DEF TakesBack
  <2>3. d \in Contents \cup {Down} /\ (d = Down => Hand(w) \notin Steady)
    BY <2>1, MarkerAssumption
  <2>4. QED
    BY <1>1, <2>1, <2>2, <2>3, DaemonSet
<1>10. QED
  BY <1>2, <1>4, <1>5, <1>6, <1>7, <1>8, <1>9
     DEF Goes, Quiet, Skips, Refuses, Accepts, Keeps, Replaces, WriteFails, UndoesNothing,
         Truncates, Restores, RollbackStops, PutsRowBack, RowStays, DeletesVip

\* The rows are kept, or marked as gone.
LEMMA GoesSaves ==
  ASSUME SavesOk, NEW w \in Workers, NEW n, Goes(w, n)
  PROVE  /\ saves' \in Seq(RowType) /\ Len(saves') = Len(saves) /\ DOMAIN saves' = DOMAIN saves
         /\ \A k \in DOMAIN saves : saves'[k] \in {saves[k], [saves[k] EXCEPT !.gone = TRUE]}
<1>1. CASE UNCHANGED saves
  BY <1>1 DEF SavesOk
<1>2. CASE saves' \in {WithoutSocVip(saves), [saves EXCEPT ![job[w].save].gone = TRUE]}
  BY <1>2, RevertRows
<1>3. \/ UNCHANGED saves
      \/ saves' \in {WithoutSocVip(saves), [saves EXCEPT ![job[w].save].gone = TRUE]}
  BY DEF Goes, Quiet, Skips, Settles, Refuses, Accepts, Keeps, Replaces, WriteFails, Shares,
         Serves, LoadFails, GivesUp, UndoesNothing, Truncates, Restores, RollbackStops,
         TakesBack, PutsRowBack, RowStays, DeletesVip
<1>4. QED
  BY <1>1, <1>2, <1>3

\* Where a step of a request leads to.
LEMMA GoesWhere ==
  ASSUME ConfType, NEW w \in Workers, NEW n, Goes(w, n), n.pc = "refill"
  PROVE  n.todo = job[w].todo /\ known'[Hand(w)] # NoFile
<1>1. ASSUME NEW ok, NEW gaps, Returned(job[w], ok, gaps, n) PROVE FALSE
  BY <1>1, AfterIs DEF Returned
<1>2. ~Skips(w, n) /\ ~GivesUp(w, n)
  BY AfterIs DEF Skips, Skipped, GivesUp, GivenUp
<1>3. ~PutsRowBack(w, n) /\ ~RowStays(w, n) /\ ~DeletesVip(w, n)
  BY DEF PutsRowBack, RowStays, Ended, DeletesVip
<1>4. ~Settles(w, n) /\ ~Refuses(w, n) /\ ~WriteFails(w, n) /\ ~Serves(w, n)
      /\ ~UndoesNothing(w, n) /\ ~RollbackStops(w, n) /\ ~TakesBack(w, n)
  BY <1>1 DEF Settles, Refuses, WriteFails, Serves, UndoesNothing, RollbackStops, TakesBack
<1>5. ASSUME NEW pc, NEW c, NEW gaps, Carried(job[w], pc, c, gaps, n), pc # "refill" PROVE FALSE
  BY <1>5 DEF Carried
<1>6. ~Accepts(w, n) /\ ~Keeps(w, n) /\ ~Shares(w, n)
  BY <1>5 DEF Accepts, BeforeWrite, Keeps, Shares
<1>7. ~Replaces(w, n) /\ ~LoadFails(w, n) /\ ~Restores(w, n)
  BY <1>1, <1>5 DEF Replaces, AfterWrite, LoadFails, Restores
<1>8. Truncates(w, n)
  BY <1>2, <1>3, <1>4, <1>6, <1>7 DEF Goes
<1>9. QED
  BY <1>8 DEF Truncates, Carried

\* A request that goes on finds the backup it is copying.
LEMMA RefillsKept ==
  ASSUME ConfType, DiskStep, NEW w \in Workers, NEW n, JobOk(n), Hands(w, n),
         n.pc = "refill" => known'[Head(n.todo).t] # NoFile
  PROVE  RefillsOk'
<1>1. \A t \in Filed : known[t] # NoFile => known'[t] # NoFile
  BY DiskKept DEF ConfType
<1>2. SUFFICES ASSUME NEW x \in Workers, job'[x].pc = "refill"
               PROVE  known'[Head(job'[x].todo).t] # NoFile
  BY DEF RefillsOk
<1>3. CASE x = w
  BY <1>2, <1>3 DEF Hands
<1>4. CASE x # w
  <2>1. job'[x] = [job[x] EXCEPT !.clean = FALSE] /\ JobOk(job[x])
    BY <1>4 DEF Hands, ConfType, JobsOk
  <2>2. job'[x].pc = job[x].pc /\ job'[x].todo = job[x].todo
    BY <2>1, UncleanOk
  <2>3. Head(job[x].todo).t \in Filed /\ known[Head(job[x].todo).t] # NoFile
    BY <1>2, <2>1, <2>2 DEF JobOk, ConfType, RefillsOk
  <2>4. QED
    BY <1>1, <2>2, <2>3
<1>5. QED
  BY <1>3, <1>4

\* A step in the middle of a request keeps the shape of the state.
LEMMA GoesKeeps ==
  ASSUME ConfType, NEW w \in Workers, GoesOn(w)
  PROVE  StepOk
<1>1. PICK n : JobOk(n) /\ Moves(w, n) /\ Goes(w, n)
  BY DEF GoesOn
<1>2. Hands(w, n) /\ UNCHANGED calls
  BY <1>1 DEF Moves, Hands, GoesOn
<1>3. JobsOk'
  BY <1>1, <1>2, HandsOk DEF ConfType
<1>4. SavesOk'
  BY <1>1, <1>2, GoesSaves DEF SavesOk, ConfType
<1>5. DiskStep /\ DaemonOk'
  BY <1>1, GoesDisk, GoesDaemon
<1>6. RefillsOk'
  <2>1. n.pc = "refill" => known'[Head(n.todo).t] # NoFile
    BY <1>1, GoesWhere DEF Hand
  <2>2. QED
    BY <1>1, <1>2, <1>5, <2>1, RefillsKept
<1>7. QED
  BY <1>3, <1>4, <1>5, <1>6 DEF StepOk

\* So do a return and a crash.
LEMMA EndKeeps ==
  ASSUME ConfType, NEW w \in Workers, Return(w) \/ Crash(w)
  PROVE  StepOk
<1>1. UNCHANGED Disk /\ UNCHANGED <<daemon, saves, calls>> /\ Hands(w, IdleJob)
  BY DEF Return, Crash, Moves, Hands
<1>2. JobsOk'
  BY <1>1, IdleIs, HandsOk DEF ConfType
<1>3. DiskStep
  BY <1>1 DEF DiskStep, Disk
<1>4. RefillsOk'
  BY <1>1, <1>3, IdleIs, RefillsKept
<1>5. QED
  BY <1>1, <1>2, <1>3, <1>4 DEF ConfType, StepOk, SavesOk, DaemonOk

\* Every step of a request, by the cases above.
LEMMA StepKeeps ==
  ASSUME ConfType, NEW w \in Workers, Step(w)
  PROVE  StepOk
BY StepIs, GoesKeeps, EndKeeps
-----
(***************************************************************************)
(* The requests, and the invariant.                                        *)
(***************************************************************************)
\* The rows a request commits.
LEMMA RowIs ==
  /\ \A tables : \A q \in Entered : Row(tables, q) \in RowType
  /\ SocVip \in RowType /\ Window \in RowType
<1>1. \A tables : Affected(tables) \in SUBSET Targets
  BY DEF Affected
<1>2. "pf" \in Targets
  BY TargetsAre
<1>3. QED
  BY <1>1, <1>2 DEF Row, SocVip, Window, RowType, Entered

\* A commit appends one row for the tables it names.
LEMMA CommitIs ==
  ASSUME NEW w, NEW tables, Commit(w, tables)
  PROVE  \E q \in Entered : saves' = Append(saves, Row(tables, q))
BY DEF Commit, Entered

\* A row more.
LEMMA RowAdded ==
  ASSUME NEW s \in Seq(RowType), NEW r \in RowType
  PROVE  /\ Append(s, r) \in Seq(RowType) /\ Len(Append(s, r)) = Len(s) + 1
         /\ \A k \in DOMAIN s : Append(s, r)[k] = s[k]
         /\ DOMAIN Append(s, r) = 1..Len(s) + 1 /\ Append(s, r)[Len(s) + 1] = r
BY AppendProperties, LenProperties

\* The history of saved rows stays well formed when a call appends to it.
LEMMA SavesGrow ==
  ASSUME SavesOk, calls' = calls + 1, calls < MaxCalls, NEW r \in RowType,
         saves' \in {saves, Append(saves, r)}
  PROVE  SavesOk'
<1>1. Len(saves) \in Nat
  BY LenProperties DEF SavesOk
<1>2. saves' \in Seq(RowType) /\ Len(saves') =< Len(saves) + 1
  BY <1>1, RowAdded DEF SavesOk
<1>3. Len(saves') \in Nat
  BY <1>2, LenProperties
<1>4. QED
  BY <1>1, <1>2, <1>3, ConfigAssumption DEF SavesOk

\* n is the job of a request that begins.
Begun(n, call, todo, save) ==
    /\ n.pc = "generate" /\ n.todo = todo /\ n.call = call /\ n.save = save
    /\ n.did = {} /\ n.failed = {} /\ n.conf = Initial("pf") /\ n.gaps = {}

\* A request that begins is well formed, and clean exactly when it is alone.
LEMMA BeginIs ==
  ASSUME NEW w \in Workers, NEW call, NEW todo, NEW save, List(todo),
         Begin(w, call, todo, save)
  PROVE  \E n : /\ JobOk(n) /\ Hands(w, n) /\ Begun(n, call, todo, save)
                /\ n.clean = Alone(w)
                /\ before' = [t \in Filed |-> IF n.clean THEN file[t] ELSE Initial(t)]
<1> DEFINE al == Alone(w)
           mk == IF call = "schedule" THEN Windows ELSE {}
           n == [IdleJob EXCEPT !.pc = "generate", !.todo = todo, !.call = call,
                                !.clean = al, !.save = save, !.mark = mk]
<1>1. al \in BOOLEAN
  BY Zenon DEF Alone
<1>2. Hands(w, n) /\ before' = [t \in Filed |-> IF n.clean THEN file[t] ELSE Initial(t)]
  BY Zenon DEF Begin, Hands
<1> HIDE DEF al, mk
<1>3. /\ n.pc = "generate" /\ n.todo = todo /\ n.call = call /\ n.save = save
      /\ n.did = {} /\ n.failed = {} /\ n.conf = Initial("pf") /\ n.clean = al
      /\ n.gaps = {} /\ DOMAIN n = JobFields
  BY DEF IdleJob, JobFields
<1>4. Initial("pf") \in Contents /\ Initial("pf").q \in Entered
  BY TargetsAre, InitialIs DEF Entered
<1> HIDE DEF n
<1>5. JobOk(n)
  BY <1>1, <1>3, <1>4 DEF JobOk, List, Busy
<1>6. Begun(n, call, todo, save)
  BY <1>3 DEF Begun
<1>7. n.clean = Alone(w)
  BY <1>3 DEF al
<1>8. QED
  BY <1>2, <1>5, <1>6, <1>7, Zenon

\* The lists of the requests that are not plans.
LEMMA OtherLists ==
  /\ List(<<Try("vips"), Try("socnginx"), Try("pf")>>)
  /\ List(<<Must("vips"), Must("pf"), Must("socnginx"), Must("nginx")>>)
  /\ \A t \in Features : List(<<Try(t)>>)
<1>1. {"vips", "socnginx", "pf", "nginx", "unbound"} \subseteq Targets
  BY TargetsAre
<1>3. List(<<Try("vips"), Try("socnginx"), Try("pf")>>)
  BY <1>1, Entries, List3
<1>4. \A t \in Features : List(<<Try(t)>>)
  BY <1>1, Entries, List1 DEF Features
<1>5. List(<<Must("vips"), Must("pf"), Must("socnginx"), Must("nginx")>>)
  <2> DEFINE s == <<Must("vips"), Must("pf"), Must("socnginx"), Must("nginx")>>
  <2>1. s \in Seq(Entry) /\ s # <<>> /\ Len(s) = 4
    BY <1>1, Entries
  <2>2. s[1].t = "vips" /\ s[2].t = "pf" /\ s[3].t = "socnginx" /\ s[4].t = "nginx"
    BY <1>1, Entries
  <2> HIDE DEF s
  <2>3. List(s)
    BY <2>1, <2>2 DEF List, Once, Followed
  <2>4. QED
    BY <2>3 DEF s
<1>6. QED
  BY <1>3, <1>4, <1>5

\* The rollback of the packet filter starts at the undo.
LEMMA RollbackIs ==
  ASSUME NEW w, FirewallRollback(w)
  PROVE  \E n : /\ JobOk(n) /\ Moves(w, n) /\ n.clean = FALSE /\ n.call = "rollback"
                /\ n.pc = "undo" /\ n.todo = <<Try("pf")>> /\ n.save = 0 /\ n.did = {}
                /\ n.conf = Initial("pf")
<1> DEFINE s == <<Try("pf")>>
           n == [IdleJob EXCEPT !.pc = "undo", !.todo = s, !.call = "rollback"]
<1>1. /\ "pf" \in Targets /\ "pf" \in Filed /\ "pf" \in Features
      /\ How["pf"].undo # "none"
  BY TargetsAre, FiledIs, HowIs DEF Features, Has
<1>2. List(s) /\ Head(s).t = "pf"
  BY <1>1, OtherLists, Entries
<1>3. Moves(w, n)
  BY DEF FirewallRollback
<1>4. /\ n.pc = "undo" /\ n.todo = s /\ n.conf = Initial("pf") /\ n.did = {}
      /\ n.failed = {} /\ n.clean = FALSE /\ n.call = "rollback" /\ DOMAIN n = JobFields
      /\ n.save = 0
  BY DEF IdleJob, JobFields
<1>5. Initial("pf") \in Contents /\ Initial("pf").q \in Entered
  BY <1>1, InitialIs DEF Entered
<1> HIDE DEF n, s
<1>6. JobOk(n)
  BY <1>1, <1>2, <1>4, <1>5 DEF JobOk, List, Busy
<1>7. QED
  BY <1>3, <1>4, <1>6 DEF s

\* The calls that run writers, and their lists.
Known(call, s) ==
    \/ Plan(call, s)
    \/ call = "save_wan" /\ s = WanPlan
    \/ call = "soc_portal" /\ s = <<Must("vips"), Must("pf"), Must("socnginx"), Must("nginx")>>
    \/ call = "assistant" /\ \E t \in Features : s = <<Try(t)>>
    \/ call = "schedule" /\ s = <<Try("pf")>>

\* The row a request may have to take back is the last one it commits.
Takes(call, save) ==
    \/ save = 0
    \/ /\ call \in {"save_wan", "soc_portal"} /\ save = Len(saves') /\ save > Len(saves)
       /\ call = "save_wan" => "pppoe" \in on'

Rollback(n) ==
    n.call = "rollback" /\ n.pc = "undo" /\ n.save = 0 /\ n.did = {} /\ n.conf = Initial("pf")

\* A request is answered at once, begins to run writers, or only looks.
AnsweredAtOnce(w) ==
    /\ \E n : JobOk(n) /\ Hands(w, n) /\ n.clean = FALSE
              /\ (n = IdleJob \/ Rollback(n))
    /\ UNCHANGED badge

BeginsWriters(w) ==
    /\ \E n, call, s, save :
          /\ JobOk(n) /\ Hands(w, n) /\ Begun(n, call, s, save) /\ n.clean = Alone(w)
          /\ before' = [t \in Filed |-> IF n.clean THEN file[t] ELSE Initial(t)]
          /\ Known(call, s) /\ Takes(call, save)
          /\ \/ UNCHANGED badge
             \/ \E t \in Features : /\ call = "assistant" /\ s = <<Try(t)>>
                                    /\ badge' = [badge EXCEPT ![t] = "applying"]
    /\ UNCHANGED daemon

OnlyLooks == UNCHANGED <<job, before, daemon, saves, on, badge>>

Starts(w) ==
    /\ Idle(w) /\ UNCHANGED <<Disk, crashed>>
    /\ AnsweredAtOnce(w) \/ BeginsWriters(w) \/ OnlyLooks

\* Every list that a known call starts with is a list of different targets.
LEMMA KnownList ==
  ASSUME NEW call, NEW s, Known(call, s)
  PROVE  List(s)
<1>1. "pf" \in Features
  BY DEF Features
<1>2. QED
  BY <1>1, OtherLists, InterfaceLists DEF Known, Plan

\* A request that runs writers.
LEMMA BeginStarts ==
  ASSUME NEW w \in Workers, NEW call, NEW s, NEW save, Known(call, s), Takes(call, save),
         Begin(w, call, s, save), Idle(w), UNCHANGED <<Disk, crashed, daemon>>,
         \/ UNCHANGED badge
         \/ \E t \in Features : /\ call = "assistant" /\ s = <<Try(t)>>
                                /\ badge' = [badge EXCEPT ![t] = "applying"]
  PROVE  Starts(w)
<1>1. PICK n : /\ JobOk(n) /\ Hands(w, n) /\ Begun(n, call, s, save) /\ n.clean = Alone(w)
               /\ before' = [t \in Filed |-> IF n.clean THEN file[t] ELSE Initial(t)]
  BY KnownList, BeginIs
<1>2. BeginsWriters(w)
  BY <1>1, Zenon DEF BeginsWriters
<1>3. QED
  BY <1>2 DEF Starts

\* A request that is answered at once.
LEMMA IdleStarts ==
  ASSUME NEW w \in Workers, Moves(w, IdleJob), Idle(w), UNCHANGED <<Disk, crashed, badge>>
  PROVE  Starts(w)
<1>1. Hands(w, IdleJob)
  BY DEF Moves, Hands
<1>2. JobOk(IdleJob) /\ IdleJob.clean = FALSE
  BY IdleIs
<1>3. UNCHANGED badge /\ UNCHANGED <<Disk, crashed>>
  OBVIOUS
<1>4. AnsweredAtOnce(w)
  <2>1. \E n : n = IdleJob
    OBVIOUS
  <2>2. PICK n : n = IdleJob
    BY <2>1
  <2>3. JobOk(n) /\ Hands(w, n) /\ n.clean = FALSE
    BY <1>1, <1>2, <2>2
  <2>4. QED
    BY <1>3, <2>2, <2>3, Zenon DEF AnsweredAtOnce
<1>5. QED
  BY <1>3, <1>4 DEF Starts

\* The jobs after a request.
LEMMA StartsJobs ==
  ASSUME JobsOk, NEW w \in Workers, Starts(w)
  PROVE  JobsOk'
<1>1. CASE AnsweredAtOnce(w)
  BY <1>1, HandsOk DEF AnsweredAtOnce
<1>2. CASE BeginsWriters(w)
  BY <1>2, HandsOk DEF BeginsWriters
<1>3. CASE OnlyLooks
  BY <1>3 DEF OnlyLooks, JobsOk
<1>4. QED
  BY <1>1, <1>2, <1>3 DEF Starts

\* What a request does.
LEMMA RequestIs ==
  ASSUME ConfType, NEW w \in Workers, Request(w)
  PROVE  Starts(w) /\ SavesOk' /\ DaemonOk'
<1>1. SavesOk /\ DaemonOk
  BY DEF ConfType
<1>2. \A call, s, save, b : save = 0 => Takes(call, save)
  BY DEF Takes
<1>3. ASSUME NEW tables, Save(w, tables) PROVE Starts(w) /\ SavesOk' /\ DaemonOk'
  <2>1. /\ Ask(w) /\ Commit(w, tables) /\ Moves(w, IdleJob)
        /\ UNCHANGED <<Disk, daemon, badge, crashed>>
    BY <1>3 DEF Save
  <2>2. SavesOk'
    BY <1>1, <2>1, CommitIs, RowIs, SavesGrow DEF Ask
  <2>3. QED
    BY <1>1, <2>1, <2>2, IdleStarts DEF Ask, DaemonOk
<1>4. ASSUME NEW call, NEW s, Plan(call, s), Apply(w, call, s)
      PROVE  Starts(w) /\ SavesOk' /\ DaemonOk'
  <2>1. /\ Ask(w) /\ Begin(w, call, s, 0)
        /\ UNCHANGED <<Disk, daemon, badge, crashed, saves>>
    BY <1>4 DEF Apply, Database
  <2>2. SavesOk'
    BY <1>1, <2>1, RowIs, SavesGrow DEF Ask
  <2>3. Starts(w)
    BY <1>2, <1>4, <2>1, BeginStarts DEF Known, Ask
  <2>4. QED
    BY <1>1, <2>1, <2>2, <2>3 DEF DaemonOk
<1>5. ASSUME NEW call, NEW tables, NEW s, Plan(call, s), SaveAndApply(w, call, tables, s)
      PROVE  Starts(w) /\ SavesOk' /\ DaemonOk'
  <2>1. /\ Ask(w) /\ Begin(w, call, s, 0) /\ Commit(w, tables)
        /\ UNCHANGED <<Disk, daemon, badge, crashed>>
    BY <1>5 DEF SaveAndApply
  <2>2. SavesOk'
    BY <1>1, <2>1, CommitIs, RowIs, SavesGrow DEF Ask
  <2>3. Starts(w)
    BY <1>2, <1>5, <2>1, BeginStarts DEF Known, Ask
  <2>4. QED
    BY <1>1, <2>1, <2>2, <2>3 DEF DaemonOk
<1>6. ASSUME NEW t \in {"routes", "unbound"}, NEW tables, SaveHot(w, t, tables)
      PROVE  Starts(w) /\ SavesOk' /\ DaemonOk'
  <2>1. /\ Ask(w) /\ Moves(w, IdleJob) /\ UNCHANGED <<Disk, badge, crashed>>
        /\ saves' = Append(saves, Row(tables, "good"))
        /\ \/ daemon[t] # Down /\ daemon' = [daemon EXCEPT ![t].of = @ \cup {Len(saves) + 1}]
           \/ UNCHANGED daemon
    BY <1>6 DEF SaveHot
  <2>2. SavesOk'
    BY <1>1, <2>1, RowIs, SavesGrow DEF Ask, Entered
  <2>3. Starts(w)
    BY <2>1, IdleStarts DEF Ask
  <2>4. DaemonOk'
    <3>1. CASE UNCHANGED daemon
      BY <1>1, <3>1 DEF DaemonOk
    <3>2. CASE daemon[t] # Down /\ daemon' = [daemon EXCEPT ![t].of = @ \cup {Len(saves) + 1}]
      <4> DEFINE d == [daemon[t] EXCEPT !.of = @ \cup {Len(saves) + 1}]
      <4>1. t \in Targets
        BY TargetsAre
      <4>2. daemon[t] \in Contents
        BY <1>1, <3>2, <4>1 DEF DaemonOk
      <4>3. Len(saves) \in Nat /\ Len(saves) + 1 =< 2 * calls + 1 /\ calls \in Nat
        BY <1>1, LenProperties DEF SavesOk
      <4>4. Len(saves) + 1 \in SaveIds
        BY <2>1, <4>3, ConfigAssumption DEF Ask, SaveIds, MaxSaves
      <4>5. d \in Contents
        BY <4>2, <4>4 DEF Contents
      <4>6. daemon' = [daemon EXCEPT ![t] = d]
        BY <3>2
      <4> HIDE DEF d
      <4>7. QED
        BY <1>1, <4>1, <4>5, <4>6, DaemonSet, MarkerAssumption
    <3>3. QED
      BY <2>1, <3>1, <3>2
  <2>5. QED
    BY <2>2, <2>3, <2>4
<1>7. ASSUME NEW t \in Features, NEW table, Assistant(w, t, table)
      PROVE  Starts(w) /\ SavesOk' /\ DaemonOk'
  <2>1. /\ Ask(w) /\ Begin(w, "assistant", <<Try(t)>>, 0) /\ Commit(w, {table})
        /\ UNCHANGED <<Disk, daemon, crashed>>
        /\ badge' = [badge EXCEPT ![t] = "applying"]
    BY <1>7 DEF Assistant
  <2>2. SavesOk'
    BY <1>1, <2>1, CommitIs, RowIs, SavesGrow DEF Ask
  <2>3. Known("assistant", <<Try(t)>>)
    BY DEF Known
  <2>4. Takes("assistant", 0) /\ Idle(w)
    BY <2>1 DEF Takes, Ask
  <2>5. Starts(w)
    BY <2>1, <2>3, <2>4, BeginStarts
  <2>6. QED
    BY <1>1, <2>1, <2>2, <2>5 DEF DaemonOk
<1>8. CASE SaveWanConfig(w)
  <2> DEFINE save == IF "pppoe" \in on' THEN Len(saves) + 1 ELSE 0
  <2>1. /\ Ask(w) /\ Commit(w, {"wan_config"}) /\ UNCHANGED <<Disk, daemon, badge, crashed>>
    BY <1>8 DEF SaveWanConfig
  <2>2. Begin(w, "save_wan", WanPlan, save)
    BY <1>8, InterfaceLists, Zenon DEF SaveWanConfig
  <2>3. SavesOk'
    BY <1>1, <2>1, CommitIs, RowIs, SavesGrow DEF Ask
  <2>4. PICK r \in RowType : saves' = Append(saves, r)
    BY <2>1, CommitIs, RowIs
  <2>5. Len(saves') = Len(saves) + 1 /\ Len(saves) \in Nat
    BY <1>1, <2>4, RowAdded, LenProperties DEF SavesOk
  <2>6. Takes("save_wan", save)
    BY <2>5 DEF Takes
  <2>7. Known("save_wan", WanPlan) /\ Idle(w)
    BY <2>1 DEF Known, Ask
  <2> HIDE DEF save
  <2>8. Starts(w)
    BY <2>1, <2>2, <2>6, <2>7, BeginStarts
  <2>9. QED
    BY <1>1, <2>1, <2>3, <2>8 DEF DaemonOk
<1>9. CASE FirewallRollback(w)
  <2>1. /\ Ask(w) /\ UNCHANGED <<Disk, daemon, badge, crashed, saves>>
    BY <1>9 DEF FirewallRollback, Database
  <2>2. AnsweredAtOnce(w)
    <3>1. PICK n : JobOk(n) /\ Moves(w, n) /\ n.clean = FALSE /\ Rollback(n)
      BY <1>9, RollbackIs DEF Rollback
    <3>2. Hands(w, n)
      BY <3>1 DEF Moves, Hands
    <3>3. QED
      BY <2>1, <3>1, <3>2, Zenon DEF AnsweredAtOnce
  <2>3. SavesOk'
    BY <1>1, <2>1, RowIs, SavesGrow DEF Ask
  <2>4. QED
    BY <1>1, <2>1, <2>2, <2>3 DEF DaemonOk, Starts, Ask
<1>10. CASE PppoeDisconnect(w)
  <2>1. /\ Ask(w) /\ UNCHANGED <<Disk, badge, crashed, saves>> /\ Moves(w, IdleJob)
        /\ daemon' = [daemon EXCEPT !["pppoe"] = Down]
    BY <1>10 DEF PppoeDisconnect, Database
  <2>2. SavesOk'
    BY <1>1, <2>1, RowIs, SavesGrow DEF Ask
  <2>3. DaemonOk'
    BY <1>1, <2>1, TargetsAre, DaemonSet DEF Steady
  <2>4. QED
    BY <2>1, <2>2, <2>3, IdleStarts DEF Ask
<1>11. CASE SocPortalSettings(w)
  <2> DEFINE a == Append(saves, Row({"soc_portal_config"}, "good"))
             b == Append(a, SocVip)
  <2>1. /\ Ask(w) /\ UNCHANGED <<Disk, daemon, badge, crashed>>
    BY <1>11 DEF SocPortalSettings
  <2>2. a \in Seq(RowType) /\ Len(a) = Len(saves) + 1 /\ Len(saves) \in Nat
    BY <1>1, RowIs, RowAdded, LenProperties DEF SavesOk, Entered
  <2> HIDE DEF a
  <2>3. b \in Seq(RowType) /\ Len(b) = Len(saves) + 2
    BY <2>2, RowIs, RowAdded
  <2>4. WithoutSocVip(a) \in Seq(RowType) /\ Len(WithoutSocVip(a)) = Len(a)
    <3> DEFINE r == WithoutSocVip(a)
    <3>1. /\ DOMAIN r = DOMAIN a /\ r = [k \in DOMAIN a |-> r[k]]
          /\ \A k \in DOMAIN a : r[k] \in {a[k], [a[k] EXCEPT !.gone = TRUE]}
      BY DEF WithoutSocVip
    <3> HIDE DEF r
    <3>2. r \in Seq(RowType) /\ Len(r) = Len(a)
      BY <2>2, <3>1, RowsGone
    <3>3. QED
      BY <3>2 DEF r
  <2> HIDE DEF b
  <2>5. saves' \in {a, b, WithoutSocVip(a)}
    BY <1>11 DEF SocPortalSettings, SocPortalDisable, SocPortalEnable, a, b
  <2>6. saves' \in Seq(RowType) /\ Len(saves') =< Len(saves) + 2 /\ Len(saves') \in Nat
    BY <2>2, <2>3, <2>4, <2>5
  <2>7. SavesOk'
    BY <1>1, <2>1, <2>2, <2>6, ConfigAssumption DEF SavesOk, Ask
  <2>8. Starts(w)
    <3>1. CASE SocPortalDisable(w)
      <4>1. Plan("apply", <<Try("vips"), Try("socnginx"), Try("pf")>>)
        BY OtherLists DEF Plan
      <4>2. Known("apply", <<Try("vips"), Try("socnginx"), Try("pf")>>)
        BY <4>1 DEF Known
      <4>3. Begin(w, "apply", <<Try("vips"), Try("socnginx"), Try("pf")>>, 0)
        BY <3>1 DEF SocPortalDisable
      <4>4. Takes("apply", 0) /\ Idle(w)
        BY <2>1 DEF Takes, Ask
      <4>5. QED
        BY <2>1, <4>2, <4>3, <4>4, BeginStarts
    <3>2. CASE SocPortalEnable(w)
      <4> DEFINE s == <<Must("vips"), Must("pf"), Must("socnginx"), Must("nginx")>>
      <4>1. Begin(w, "soc_portal", s, Len(saves) + 2) /\ saves' = b
        BY <3>2 DEF SocPortalEnable, a, b
      <4>2. Takes("soc_portal", Len(saves) + 2) /\ Idle(w)
        BY <2>1, <2>2, <2>3, <4>1 DEF Takes, Ask
      <4>3. Known("soc_portal", s)
        BY DEF Known
      <4> HIDE DEF s
      <4>4. QED
        BY <2>1, <4>1, <4>2, <4>3, BeginStarts
    <3>3. CASE Moves(w, IdleJob)
      BY <2>1, <3>3, IdleStarts DEF Ask
    <3>4. QED
      BY <1>11, <3>1, <3>2, <3>3 DEF SocPortalSettings
  <2>9. QED
    BY <1>1, <2>1, <2>7, <2>8 DEF DaemonOk
<1>12. CASE RunCheck(w)
  <2>1. UNCHANGED <<Disk, daemon, crashed, saves, calls, on, badge>> /\ Idle(w)
    BY <1>12 DEF RunCheck, Database
  <2>2. UNCHANGED <<Disk, crashed, daemon>> /\ UNCHANGED badge /\ UNCHANGED <<Disk, crashed>>
    BY <2>1
  <2>3. ASSUME UNCHANGED <<job, before>> PROVE Starts(w)
    <3>1. OnlyLooks
      BY <2>1, <2>3 DEF OnlyLooks
    <3>2. QED
      BY <2>1, <2>2, <3>1, Zenon DEF Starts
  <2>4. ASSUME Begin(w, "schedule", <<Try("pf")>>, 0) PROVE Starts(w)
    <3>1. Known("schedule", <<Try("pf")>>) /\ Takes("schedule", 0)
      BY DEF Known, Takes
    <3>2. QED
      BY <2>1, <2>2, <2>4, <3>1, BeginStarts, Zenon
  <2>5. Starts(w)
    BY <1>12, <2>3, <2>4 DEF RunCheck
  <2>6. QED
    BY <1>1, <2>1, <2>5 DEF SavesOk, DaemonOk
<1>13. QED
  BY <1>3, <1>4, <1>5, <1>6, <1>7, <1>8, <1>9, <1>10, <1>11, <1>12 DEF Request

\* The initial state has the type.
LEMMA InitConfType ==
  ASSUME Init
  PROVE  ConfType
<1>1. SavesOk
  BY ConfigAssumption DEF Init, SavesOk
<1>2. \A t \in Targets : Initial(t) \in Contents
  BY InitialIs
<1>3. Filed \subseteq Targets
  BY FiledIs
<1>4. DiskOk
  BY <1>2, <1>3 DEF Init, DiskOk
<1>5. \A t \in Steady : IsOn(t) /\ t \in Targets
  BY TargetsAre DEF Steady, IsOn, Switched, SwitchTables
<1>6. daemon = [t \in Targets |-> IF IsOn(t) THEN Initial(t) ELSE Down]
  BY DEF Init
<1>7. DaemonOk
  BY <1>2, <1>5, <1>6, Zenon DEF DaemonOk
<1>8. JobsOk
  BY IdleIs DEF Init, JobsOk
<1>9. RefillsOk
  BY IdleIs DEF Init, RefillsOk
<1>10. QED
  BY <1>1, <1>4, <1>7, <1>8, <1>9 DEF ConfType

\* No copy begins when a request does.
LEMMA StartsRefills ==
  ASSUME ConfType, NEW w \in Workers, Starts(w)
  PROVE  RefillsOk'
<1>1. DiskStep /\ UNCHANGED <<file, known, past>>
  BY DEF Starts, DiskStep, Disk
<1>2. ASSUME NEW n, JobOk(n), Hands(w, n), n.pc # "refill" PROVE RefillsOk'
  BY <1>1, <1>2, RefillsKept
<1>3. CASE AnsweredAtOnce(w)
  BY <1>2, <1>3, IdleIs DEF AnsweredAtOnce, Rollback
<1>4. CASE BeginsWriters(w)
  BY <1>2, <1>4 DEF BeginsWriters, Begun
<1>5. CASE OnlyLooks
  BY <1>1, <1>5 DEF OnlyLooks, RefillsOk, ConfType
<1>6. QED
  BY <1>3, <1>4, <1>5 DEF Starts

\* What any step does to the disk, and that the shape of the state is kept.
LEMMA NextConfType ==
  ASSUME ConfType, [Next]_vars
  PROVE  ConfType' /\ DiskStep
<1>1. SUFFICES StepOk
  BY DiskKept DEF StepOk, ConfType
<1>2. ASSUME NEW w \in Workers, Request(w) PROVE StepOk
  <2>1. Starts(w) /\ SavesOk' /\ DaemonOk'
    BY <1>2, RequestIs
  <2>2. JobsOk' /\ RefillsOk'
    BY <2>1, StartsJobs, StartsRefills DEF ConfType
  <2>3. DiskStep
    BY <2>1 DEF Starts, DiskStep, Disk
  <2>4. QED
    BY <2>1, <2>2, <2>3 DEF StepOk
<1>3. ASSUME NEW w \in Workers, Step(w) PROVE StepOk
  BY <1>3, StepKeeps
<1>4. CASE WindowFlips
  <2>1. SavesOk'
    BY <1>4, RowIs, SavesGrow DEF WindowFlips, ConfType
  <2>2. ASSUME NEW w \in Workers
        PROVE  JobOk(job'[w]) /\ job'[w].pc = job[w].pc /\ job'[w].todo = job[w].todo
    <3>1. JobOk(job[w]) /\ job'[w] = [job[w] EXCEPT !.clean = FALSE]
      BY <1>4 DEF WindowFlips, ConfType, JobsOk
    <3>2. QED
      BY <3>1, UncleanOk, Zenon
  <2>3. job' = [w \in Workers |-> job'[w]]
    BY <1>4 DEF WindowFlips
  <2>4. JobsOk'
    BY <2>2, <2>3, Zenon DEF JobsOk
  <2>5. UNCHANGED <<file, known, past, daemon>>
    BY <1>4 DEF WindowFlips, Disk
  <2>6. RefillsOk'
    BY <2>2, <2>5 DEF RefillsOk, ConfType
  <2>7. QED
    BY <2>1, <2>4, <2>5, <2>6 DEF StepOk, DiskStep, DaemonOk, ConfType
<1>5. CASE UnboundStops
  <2>1. UNCHANGED <<file, known, past, saves, calls, job>>
    BY <1>5 DEF UnboundStops, Database, Disk
  <2>2. DaemonOk'
    BY <1>5, TargetsAre, DaemonSet DEF UnboundStops, Steady, ConfType
  <2>3. QED
    BY <2>1, <2>2 DEF StepOk, DiskStep, ConfType, SavesOk, JobsOk, RefillsOk
<1>6. CASE EnforcerRestart \/ UNCHANGED vars
  <2>1. UNCHANGED <<file, known, past, saves, calls, job, daemon>>
    BY <1>6 DEF EnforcerRestart, vars, Disk
  <2>2. QED
    BY <2>1 DEF StepOk, DiskStep, ConfType, SavesOk, JobsOk, DaemonOk, RefillsOk
<1>7. QED
  BY <1>2, <1>3, <1>4, <1>5, <1>6, EveryStep

\* The type invariant of the writers.
LEMMA ConfTypeHolds == Spec => []ConfType
<1>1. Init => ConfType
  BY InitConfType
<1>2. ConfType /\ [Next]_vars => ConfType'
  BY NextConfType
<1>3. QED
  BY <1>1, <1>2, PTL DEF Spec

\* However the requests of any number of workers interleave, fail or are killed, the
\* configuration files behave as versioned files: a text the checks refused is never put
\* in place, a rollback only ever restores a text the file has held, and nothing but a
\* copy that has not finished is ever found in a file or its backup besides.
THEOREM WritersRefineFiles == Spec => FilesRefine
<1>1. Init => VF!Init
  <2> SUFFICES ASSUME Init PROVE VF!Init
    OBVIOUS
  <2>1. Checked \subseteq Filed
    BY FiledIs
  <2>2. CASE on = {}
    BY <2>1, <2>2 DEF Init, VF!Init
  <2>3. CASE on # {}
    BY <2>1, <2>3 DEF Init, VF!Init
  <2>4. QED
    BY <2>2, <2>3
<1>2. ConfType /\ [Next]_vars
        => [VF!Next]_<<[t \in Checked |-> file[t]], [t \in Checked |-> known[t]],
                       [t \in Checked |-> past[t]]>>
  BY NextConfType, DiskRefines DEF ConfType
<1>3. QED
  BY <1>1, <1>2, ConfTypeHolds, PTL DEF Spec, FilesRefine, VF!Spec
=============================================================================
