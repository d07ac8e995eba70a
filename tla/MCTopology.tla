----------------------------- MODULE MCTopology -----------------------------
(***************************************************************************)
(* An instance of Topology: two device ports and two gateway sets, three   *)
(* Device objects of two addresses, so that one address can be tested      *)
(* twice, and the shapes of device specification the rules tell apart.     *)
(***************************************************************************)
EXTENDS Topology

MCDevices == {"a1", "a2", "b1"}
MCMacOf == [d \in MCDevices |-> IF d \in {"a1", "a2"} THEN "a" ELSE "b"]

Rule(nw_dst, nw_src, l4, allow) ==
    [mac |-> nw_dst # "none", nw_dst |-> nw_dst, nw_src |-> nw_src, l4 |-> l4, allow |-> allow]

\* "bacnet" speaks and listens on one port; "tool" speaks on another one
MCTemplates ==
    [default  |-> [from |-> <<>>, to |-> <<>>],
     raw      |-> [from |-> <<Rule("none", "none", [udp_src |-> 68], 1)>>, to |-> <<>>],
     baseline |-> [from |-> <<Rule("none", "none", [udp_src |-> 68], 1),
                              Rule("none", "none", [udp_dst |-> 53], 1)>>, to |-> <<>>],
     bacnet   |-> [from |-> <<Rule("ctl", "none", [udp_dst |-> 47], 1),
                              Rule("ctl", "none", [udp_src |-> 48], 1)>>,
                   to   |-> <<Rule("none", "ctl", [udp_dst |-> 47], 1)>>],
     tool     |-> [from |-> <<Rule("ctl", "none", [udp_dst |-> 80], 1)>>,
                   to   |-> <<Rule("none", "other", << >>, 1)>>]]

Linked(mac) == [ctl |-> {mac}]

NoSpecs == [given |-> FALSE, macAddrs |-> << >>]

MCDeviceSpecs ==
    { \* none: one group for each device
      NoSpecs,
      \* one group, linked both ways
      [given |-> TRUE, macAddrs |->
        [a |-> [type |-> "bacnet", group |-> "g", controllers |-> Linked("b")],
         b |-> [type |-> "bacnet", group |-> "g", controllers |-> Linked("a"), default_allow |-> 0]]],
      \* one group, b accepts no flow of a's controller
      [given |-> TRUE, macAddrs |->
        [a |-> [type |-> "bacnet", group |-> "g", controllers |-> Linked("b")],
         b |-> [type |-> "tool", group |-> "g", controllers |-> Linked("a"), default_allow |-> 1]]],
      \* b is not specified
      [given |-> TRUE, macAddrs |->
        [a |-> [type |-> "tool", group |-> "g", controllers |-> Linked("b")]]] }

MCConfigs == {<<FALSE, s>> : s \in MCDeviceSpecs} \cup {<<TRUE, NoSpecs>>}
=============================================================================
