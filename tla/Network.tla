------------------------------- MODULE Network -------------------------------
(***************************************************************************)
(* What lies between a client and the devices it talks to: the BBMDs that  *)
(* carry broadcasts between subnets and to foreign devices (Bbmd,          *)
(* ForeignDevice), the tables in which the client keeps what it learns     *)
(* from announcements (Directory), and the datagrams of one conversation,  *)
(* octet by octet (Wire).  The three share no state in the code: a table   *)
(* is told what a datagram said, whatever its path.  A behaviour follows   *)
(* one of them.                                                            *)
(***************************************************************************)
EXTENDS ForeignDevice, Directory, Wire

VARIABLE
  subject   \* the part a behaviour follows: mesh, directory or wire

netVars == <<meshVars, dirVars, wireVars, subject>>

(* The parts a behaviour does not follow rest in one state.                *)
MeshRests == MeshInit /\ bdt = CHOOSE m \in Masks : TRUE
DirRests == DirInit /\ follows = "device"
WireRests ==
  /\ way = {} /\ call = <<"WhoIs", 1>> /\ note = <<"IAm", 1>>
  /\ stage = "over" /\ datagram = None /\ target = None /\ peer = None /\ seen = None

Init ==
  \/ subject = "mesh" /\ MeshInit /\ DirRests /\ WireRests
  \/ subject = "directory" /\ MeshRests /\ DirInit /\ WireRests
  \/ subject = "wire" /\ MeshRests /\ DirRests /\ WireInit

MeshStep == subject = "mesh" /\ MeshNext /\ UNCHANGED <<dirVars, wireVars, subject>>
DirStep == subject = "directory" /\ DirNext /\ UNCHANGED <<meshVars, wireVars, subject>>
WireStep(A) == subject = "wire" /\ A /\ UNCHANGED <<meshVars, dirVars, subject>>

Next ==
  \/ MeshStep
  \/ DirStep
  \/ WireStep(SendWhoIs) \/ WireStep(Call) \/ WireStep(Notify)
  \/ WireStep(Relay) \/ WireStep(ServerHears) \/ WireStep(ClientHears)

Spec == Init /\ [][Next]_netVars
=============================================================================
