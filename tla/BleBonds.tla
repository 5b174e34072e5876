------------------------------- MODULE BleBonds -------------------------------
(***************************************************************************)
(* The bonded-device list of ble_bonds.c: the addresses the bridge will    *)
(* reconnect to by itself, oldest first, and its copy in flash.            *)
(*                                                                         *)
(* The operations are operators over the three variables; the handlers of  *)
(* module Coordinator are built from them.  An address stands for the pair *)
(* (addr, addr_type): the type is a function of the address and no lookup  *)
(* reads it.  A missing flash tag, a tag of the wrong length and a stored  *)
(* list of count 0 are all the empty list: ble_bonds_load treats the three *)
(* alike.                                                                  *)
(***************************************************************************)
EXTENDS Naturals, Sequences, Devices

CONSTANT
  MAX_KNOWN_DEVICES   \* capacity of the list (hid_bridge.h)

ASSUME MaxKnownAssumption == MAX_KNOWN_DEVICES \in Nat \ {0}

VARIABLES
  bonded_list,        \* RAM: entries[0 .. count-1]
  has_bonded_device,  \* RAM: the flag every scan decision reads
  bonded_flash        \* the TLV tag, survives a power cycle

bondVars == <<bonded_list, has_bonded_device, bonded_flash>>

BondsTypeOK ==
  /\ bonded_list \in Seq(Addr)
  /\ Len(bonded_list) <= MAX_KNOWN_DEVICES
  /\ has_bonded_device \in BOOLEAN
  /\ bonded_flash \in Seq(Addr)
  /\ Len(bonded_flash) <= MAX_KNOWN_DEVICES

BondsInit ==
  /\ bonded_list = <<>>
  /\ has_bonded_device = FALSE

\* ble_bonds_find(addr) >= 0
Bonded(a) == \E i \in 1..Len(bonded_list) : bonded_list[i] = a

\* Mutant: a full list is not checked for.
AddedPastTheEnd(a) == Append(bonded_list, a)

\* The list after ble_bonds_add(addr): no lookup for an entry already there,
\* and a full list loses its oldest entry.
Added(a) ==
  Append(IF Len(bonded_list) >= MAX_KNOWN_DEVICES THEN Tail(bonded_list)
                                                  ELSE bonded_list, a)

BondsAdd(a) ==
  /\ bonded_list' = Added(a)
  /\ has_bonded_device' = TRUE

\* ble_bonds_save, of the list the handler has built.
BondsSave == bonded_flash' = bonded_list'

BondsLoad ==
  /\ bonded_list' = bonded_flash
  /\ has_bonded_device' = (bonded_flash # <<>>)
  /\ UNCHANGED bonded_flash

\* ble_bonds_forget: deletes the tag, then ble_bonds_clear.
BondsForget ==
  /\ bonded_flash' = <<>>
  /\ bonded_list' = <<>>
  /\ has_bonded_device' = FALSE

\* A handler that finds the address already listed leaves the list alone.
BondsAddIfMissing(a) ==
  IF Bonded(a) THEN UNCHANGED <<bonded_list, has_bonded_device>> ELSE BondsAdd(a)

===============================================================================
