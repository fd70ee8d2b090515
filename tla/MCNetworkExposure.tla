------------------------- MODULE MCNetworkExposure -------------------------
(* A machine with two interfaces and two groups. *)
EXTENDS NetworkExposure

MCNics == <<"nic-1", "nic-2">>

MCOpenTexts == Open \cup {"AzureCloud.germanywc"}

Allow(name, sources, ports) == Rule(name, TRUE, sources, ports)

MCRuleLists ==
    {<<Rule("deny", FALSE, {"Internet"}, {"22"})>>,
     <<Allow("probe", {"AzureLoadBalancer"}, {"22"}), Allow("all", {}, {})>>,
     <<Allow("inside", {"private prefix"}, {"22"})>>,
     <<Allow("tag", {"AzureCloud.germanywc"}, {"443"}),
       Allow("tags", {"AzureCloud.germanywc", "private prefix"}, {"22"})>>,
     <<Allow("mixed", {"public prefix", "VirtualNetwork"}, {"22", "443"})>>,
     <<Allow("ssh", {"Internet"}, {"22"}), Allow("star", {"*"}, {"22"})>>}

Layout(nic1, nic2, subnet1, subnet2) ==
    [nic |-> ("nic-1" :> nic1 @@ "nic-2" :> nic2),
     subnet |-> ("nic-1" :> subnet1 @@ "nic-2" :> subnet2)]

\* one group for one interface; a subnet for both; both sides; apart
MCLayouts ==
    {Layout("g1", NoGroup, NoGroup, NoGroup), Layout(NoGroup, NoGroup, "g1", "g1"),
     Layout("g1", NoGroup, "g1", "g2"), Layout("g1", "g2", NoGroup, NoGroup)}
=============================================================================
