------------------------------- MODULE Devices -------------------------------
(***************************************************************************)
(* The Bluetooth devices around the bridge, as far as the coordinator can  *)
(* tell them apart: by address.  External: the devices are not code.       *)
(***************************************************************************)

CONSTANTS
  Addr,        \* every address a device uses (bd_addr_t)
  RpaAddr,     \* those for which is_resolvable_private_address holds
  IdentityOf   \* the identity address behind each of them

ASSUME DevicesAssumption ==
  /\ RpaAddr \subseteq Addr
  /\ IdentityOf \in [RpaAddr -> Addr \ RpaAddr]

\* The address under which the security manager knows the device.
Identity(a) == IF a \in RpaAddr THEN IdentityOf[a] ELSE a

===============================================================================
