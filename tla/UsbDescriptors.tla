---------------------------- MODULE UsbDescriptors ----------------------------
(***************************************************************************)
(* The descriptors the host reads (usb_descriptors.c) as functions of the  *)
(* READY snapshot: who stands behind each compact position, and where the  *)
(* configuration descriptor puts its interface, its endpoint and its bytes.*)
(***************************************************************************)
EXTENDS Integers, FiniteSets, Sequences

CONSTANTS
  MAX_HID_DEVICES,
  Cid,        \* HIDS client ids
  NoCid,
  Fallback,   \* owner of desc_hid_report_fallback
  Garbled     \* a report descriptor cut to another one's length, or refused

ASSUME DescriptorsAssumption ==
  /\ MAX_HID_DEVICES \in Nat \ {0}
  /\ NoCid \notin Cid
  /\ {Fallback, Garbled} \cap (Cid \cup {NoCid}) = {}
  /\ Fallback # Garbled

Slot == 0..(MAX_HID_DEVICES - 1)
Owner == Cid \cup {Fallback}

-------------------------------------------------------------------------------
(***************************************************************************)
(* A snapshot is a set of [slot, hids_cid]; slot order gives the compact   *)
(* positions 0 .. count-1.                                                 *)
(***************************************************************************)

PositionOf(S, e) == Cardinality({d \in S : d.slot < e.slot})

At(S, p) == CHOOSE e \in S : PositionOf(S, e) = p

\* hid_bridge_get_report_descriptor, and the fallback its callers take for NULL:
\* "present" are the clients whose descriptor BTstack still stores.
ReportDescriptor(S, present, p) ==
  IF p < Cardinality(S) /\ At(S, p).hids_cid \in present
  THEN At(S, p).hids_cid
  ELSE Fallback

\* What the host should end up with, interface by interface.
InterfacesOf(S) ==
  IF S = {} THEN <<Fallback>> ELSE [k \in 1..Cardinality(S) |-> At(S, k - 1).hids_cid]

-------------------------------------------------------------------------------
(***************************************************************************)
(* The layout of a configuration with n HID interfaces                     *)
(***************************************************************************)
TUD_CONFIG_DESC_LEN == 9
TUD_CDC_DESC_LEN == 66
TUD_HID_DESC_LEN == 25
CONFIG_BUF_SIZE ==
  TUD_CONFIG_DESC_LEN + TUD_CDC_DESC_LEN + MAX_HID_DEVICES * TUD_HID_DESC_LEN

CdcInterfaces == {0, 1}
CdcEndpoints == {129, 2, 130}   \* 0x81, 0x02, 0x82

\* Mutant: the notification endpoint is the only IN endpoint of the console.
EndpointAddressAfterOne(i) == 128 + 2 + i

\* bInterfaceNumber, bEndpointAddress and wTotalLength, i counted from 0.
EndpointAddress(i) == 128 + 3 + i

InterfaceNumber(i) == 2 + i

TotalLength(n) == TUD_CONFIG_DESC_LEN + TUD_CDC_DESC_LEN + n * (9 + 9 + 7)

===============================================================================
