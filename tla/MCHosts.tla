------------------------------ MODULE MCHosts ------------------------------
(* How hosts talk to each other, layer by layer: the bits of a slot, a       *)
(* datagram transaction, a Multicast to twins, a Msg4 to a shard.  Each      *)
(* layer takes what the one below shows as given, so a behaviour begins with *)
(* one of them and has the others at rest.                                   *)
EXTENDS DgramBits, Udp, Multicast, Msg4

MCSlots == 1 .. N + 1

\* All dgrams have been read: from then on Touch() changes nothing.
BitsAtRest == /\ read = Dgram /\ cleared = {n \div ByteBits : n \in Dgram}
              /\ numInit = ByteBits * Cardinality(cleared) /\ sound = TRUE
UdpAtRest == UdpInitIn("done")
MulticastAtRest == MulticastInitIn("over")
Msg4AtRest == Msg4InitWith(MaxRecs, MaxExits)

\* The bounds of a Msg4 together: all records and no exit, or all exits and as
\* many records less (the first one then has the number MaxExits + 1).
Msg4Begun == \E n \in {0, MaxExits} \cap (0 .. MaxRecs) : Msg4InitWith(n, MaxExits - n)

HostsInit ==
    \/ DgramBitsInit /\ UdpAtRest /\ MulticastAtRest /\ Msg4AtRest
    \/ BitsAtRest /\ UdpInit /\ MulticastAtRest /\ Msg4AtRest
    \/ BitsAtRest /\ UdpAtRest /\ MulticastInit /\ Msg4AtRest
    \/ BitsAtRest /\ UdpAtRest /\ MulticastAtRest /\ Msg4Begun

HostsNext == \/ read # Dgram /\ DgramBitsNext /\ UNCHANGED <<udpVars, mcVars, m4Vars>>
             \/ UdpNext /\ UNCHANGED <<bitsVars, mcVars, m4Vars>>
             \/ MulticastNext /\ UNCHANGED <<bitsVars, udpVars, m4Vars>>
             \/ Msg4Next /\ UNCHANGED <<bitsVars, udpVars, mcVars>>

HostsSpec == /\ HostsInit
             /\ [][HostsNext]_<<bitsVars, udpVars, mcVars, m4Vars>>
             /\ UdpFairness /\ MulticastFairness /\ Msg4Fairness

\* The types of the three protocols.
HostsTypeOK == UdpTypeOK /\ MulticastTypeOK /\ Msg4TypeOK
=============================================================================
