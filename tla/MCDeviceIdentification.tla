------------------------ MODULE MCDeviceIdentification ------------------------
(* A model-checking instance of DeviceIdentification.                         *)
EXTENDS DeviceIdentification

Types == <<"cisco-ios-xr-653", "juniper">>

Uris == [k \in ToSet(Types) |-> IF k = "juniper" THEN <<"version", "hostname">>
                                ELSE <<"version", "model", "hostname">>]

\* Ports of the SSH and of the NETCONF devices of the sample topology, one
\* that is neither, and 17, which begins as a NETCONF port does.
Ports == {10001, 17100, 830, 17}
=============================================================================
